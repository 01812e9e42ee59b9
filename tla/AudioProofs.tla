----------------------------- MODULE AudioProofs -----------------------------
(***************************************************************************)
(* Proofs about Audio, for any finite set of channels and any codecs: that *)
(* a codec bundle is of one sound, and whose sound goes where.             *)
(***************************************************************************)
EXTENDS Audio, FiniteSetTheorems, TLAPS

-----------------------------------------------------------------------------
(* The inductive invariant *)

\* All that a bundle has of a frame is this sound.
Keeps(k, s) ==
  /\ k.narrow \in {None, s}
  /\ k.wide \in {None, s}
  /\ k.codec \in Codec => k.wire \in {None, s}

\* And it has it.
Plays(k, s) == Keeps(k, s) /\ k.narrow = s

\* A frame is what a member that is heard has fed its own bundle.
FrameInv ==
  \A c \in Channel :
    /\ frame[c] # None => c \in mixed /\ frame[c] \in {FromRemote(c), FromOwn(c)}
    /\ c \in heard => frame[c] = FromRemote(c)
    /\ phase = "mix" /\ frame[c] # None => Plays(cache[c], frame[c])

\* How much of its tick the mixer has done.
PhaseInv ==
  /\ phase = "mix" => sent = Nothing
  /\ phase # "idle" => recorded = Nothing /\ tap = Nothing
  /\ phase # "idle" => \A c \in heard : cache[c].narrow # None
  /\ phase = "record" /\ Cardinality(mixed) <= 2 =>
       \A c \in heard : Plays(cache[c], FromRemote(c))

BundleInv == \A c \in Channel : \E s \in Sound : Keeps(cache[c], s)

AudioInv == TypeOK /\ BundleInv /\ FrameInv /\ PhaseInv /\ Sends /\ Takes

-----------------------------------------------------------------------------
(* Bundles *)

Maybe == {None} \cup Sound

\* Sounds that are none are told from those that are.
LEMMA NoSound == \A s \in Sound : s # None
  BY AudioAssumption

LEMMA SourcesAreSounds ==
  ASSUME NEW c \in Channel
  PROVE  FromRemote(c) \in Sound /\ FromOwn(c) \in Sound /\ Silence \in Sound
  BY DEF FromRemote, FromOwn, Silence, Sound, Source

LEMMA StaleType ==
  /\ Stale(None) = None
  /\ \A s \in Sound : Stale(s) \in Sound
<1>1. ASSUME NEW s \in Sound
      PROVE  Stale(s) \in Sound
  <2>1. Stale(s) = {[t EXCEPT !.fresh = FALSE] : t \in s}
    BY <1>1, NoSound DEF Stale
  <2>2. ASSUME NEW t \in s
        PROVE  [t EXCEPT !.fresh = FALSE] \in Source
    BY DEF Sound, Source
  <2> QED
    BY <2>1, <2>2 DEF Sound
<1> QED
  BY <1>1 DEF Stale

\* A bundle that is empty, or is fed one sound.
LEMMA FedType ==
  ASSUME NEW s \in Sound
  PROVE  /\ Empty \in Bundle
         /\ FedLinear(s) \in Bundle
         /\ Plays(FedLinear(s), s)
         /\ FedLinear(s).wire = None
         /\ \A p \in Packet : FedWire(p, s) \in Bundle /\ Keeps(FedWire(p, s), s)
<1>1. Empty \in Bundle
  BY DEF Empty, Bundle, Packet
<1>2. None \notin Codec
  BY AudioAssumption
<1> QED
  BY <1>1, <1>2 DEF FedLinear, FedWire, Empty, Bundle, Plays, Keeps

\* What is kept for the next tick is the same frame, grown stale.
LEMMA AgedType ==
  ASSUME NEW k \in Bundle, NEW s \in Sound, Keeps(k, s)
  PROVE  Aged(k) \in Bundle /\ Keeps(Aged(k), Stale(s))
<1>1. \A t \in Maybe : Stale(t) \in Maybe
  BY StaleType DEF Maybe
<1>2. [p \in Codec |-> Stale(k.encoded[p])] \in [Codec -> Maybe]
  BY <1>1 DEF Bundle, Maybe
<1>3. Aged(k) \in Bundle
  BY <1>1, <1>2 DEF Aged, Bundle, Maybe
<1>4. Keeps(Aged(k), Stale(s))
  BY StaleType DEF Keeps, Aged
<1> QED
  BY <1>3, <1>4

\* Decoding asks for one representation and leaves the frame what it is.
LEMMA DecodedType ==
  ASSUME NEW k \in Bundle, NEW s \in Sound, Keeps(k, s)
  PROVE  /\ NarrowOf(k) \in {None, s}
         /\ WideOf(k) \in {None, s}
         /\ WithNarrow(k) \in Bundle /\ Keeps(WithNarrow(k), s)
         /\ WithWide(k) \in Bundle /\ Keeps(WithWide(k), s)
<1>1. NarrowOf(k) \in {None, s} /\ WideOf(k) \in {None, s}
  BY DEF NarrowOf, WideOf, Holds, Keeps, Codec
<1>2. WithNarrow(k) \in Bundle /\ Keeps(WithNarrow(k), s)
  BY <1>1 DEF WithNarrow, Bundle, Keeps
<1>3. WithWide(k) \in Bundle /\ Keeps(WithWide(k), s)
  BY <1>1 DEF WithWide, Bundle, Keeps
<1> QED
  BY <1>1, <1>2, <1>3

\* A frame that is there stays there, at either rate.
LEMMA PlaysType ==
  ASSUME NEW k \in Bundle, NEW s \in Sound, Plays(k, s)
  PROVE  /\ NarrowOf(k) = s
         /\ WideOf(k) = s
         /\ Plays(WithNarrow(k), s)
         /\ Plays(WithWide(k), s)
<1>1. s # None
  BY NoSound
<1>2. NarrowOf(k) = s /\ WideOf(k) = s
  BY <1>1 DEF NarrowOf, WideOf, Holds, Keeps, Plays, Codec
<1>3. Keeps(WithNarrow(k), s) /\ Keeps(WithWide(k), s)
  BY DecodedType DEF Plays
<1>4. WithNarrow(k).narrow = s /\ WithWide(k).narrow = s
  BY <1>2 DEF WithNarrow, WithWide, Plays, Bundle
<1> QED
  BY <1>2, <1>3, <1>4 DEF Plays

\* The same of encoding, and of the linear samples for it.
LEMMA EncodedType ==
  ASSUME NEW k \in Bundle, NEW s \in Sound, Keeps(k, s), NEW codec \in Codec
  PROVE  /\ LinearOf(k, codec) \in {None, s}
         /\ WithLinear(k, codec) \in Bundle /\ Keeps(WithLinear(k, codec), s)
         /\ EncodedAs(k, codec) \in Maybe
         /\ WithEncoded(k, codec) \in Bundle /\ Keeps(WithEncoded(k, codec), s)
         /\ EncodedFrom(k, codec) \in {None, s}
         /\ Plays(k, s) => /\ LinearOf(k, codec) = s
                           /\ Plays(WithLinear(k, codec), s)
                           /\ Plays(WithEncoded(k, codec), s)
                           /\ EncodedFrom(k, codec) = s
<1>1. /\ LinearOf(k, codec) \in {None, s}
      /\ WithLinear(k, codec) \in Bundle
      /\ Keeps(WithLinear(k, codec), s)
  BY DecodedType DEF LinearOf, WithLinear
<1>2. Plays(k, s) => LinearOf(k, codec) = s /\ Plays(WithLinear(k, codec), s)
  BY PlaysType DEF LinearOf, WithLinear
<1>3. k.encoded[codec] \in Maybe
  BY DEF Bundle, Maybe
<1>4. EncodedAs(k, codec) \in Maybe
  BY <1>1, <1>3 DEF EncodedAs, Or, Maybe
<1>5. /\ WithEncoded(k, codec) \in Bundle
      /\ Keeps(WithEncoded(k, codec), s)
      /\ WithEncoded(k, codec).narrow \in {k.narrow, WithLinear(k, codec).narrow}
  BY <1>1 DEF WithEncoded, Bundle, Keeps
<1>6. Plays(k, s) => Plays(WithEncoded(k, codec), s)
  BY <1>2, <1>5 DEF Plays
<1>7. EncodedFrom(k, codec) \in {None, s} /\ (Plays(k, s) => EncodedFrom(k, codec) = s)
  BY <1>1, <1>2 DEF EncodedFrom, Holds, Keeps
<1> QED
  BY <1>1, <1>2, <1>4, <1>5, <1>6, <1>7

\* What a reader of every format leaves.
LEMMA ReadType ==
  ASSUME NEW k \in Bundle, NEW s \in Sound, Keeps(k, s)
  PROVE  Read(k) \in Bundle /\ Keeps(Read(k), s)
<1>1. WithWide(k) \in Bundle /\ Keeps(WithWide(k), s)
  BY DecodedType
<1> DEFINE w == WithNarrow(WithWide(k))
<1>2. w \in Bundle /\ Keeps(w, s)
  BY <1>1, DecodedType
<1>3. \A p \in Codec : EncodedAs(k, p) \in {None} \cup Sound
  BY EncodedType DEF Maybe
<1>4. Read(k) = [w EXCEPT !.encoded = [p \in Codec |-> EncodedAs(k, p)]]
  BY DEF Read
<1> HIDE DEF w
<1> QED
  BY <1>2, <1>3, <1>4 DEF Bundle, Keeps

\* A packet that comes in is the only sound of its tick, if it can be decoded.
LEMMA ReceivedType ==
  ASSUME NEW c \in Channel, NEW k \in Bundle, NEW s \in Sound, Keeps(k, s),
         NEW packet \in Packet
  PROVE  /\ Received(c, k, packet) \in Bundle
         /\ \E t \in Sound : Keeps(Received(c, k, packet), t)
         /\ Decoded(c, k, packet) \in {None, FromRemote(c)}
         /\ Decoded(c, k, packet) # None <=> packet \in Codec
         /\ packet \in Codec => Plays(Received(c, k, packet), FromRemote(c))
<1> DEFINE r == FromRemote(c)
           f == FedWire(packet, r)
<1>s. r \in Sound /\ r # None
  BY SourcesAreSounds, NoSound
<1>n. None \notin Codec
  BY AudioAssumption
<1>1. CASE packet = None
  BY <1>1, <1>n DEF Received, Decoded
<1>2. CASE packet # None
  <2>1. f \in Bundle /\ Keeps(f, r)
    BY <1>s, FedType
  <2>2. WithNarrow(f) \in Bundle /\ Keeps(WithNarrow(f), r) /\ NarrowOf(f) \in {None, r}
    BY <1>s, <2>1, DecodedType
  <2>3. f.codec = packet /\ f.wire = r /\ f.narrow = None /\ f.wide = None
    BY DEF FedWire, Empty
  <2>4. WithNarrow(f).narrow = NarrowOf(f)
    BY <2>1 DEF WithNarrow, Bundle
  <2>5. NarrowOf(f) # None <=> packet \in Codec
    BY <1>s, <2>3 DEF NarrowOf, Holds, Codec
  <2>6. Received(c, k, packet) = WithNarrow(f)
    BY <1>2 DEF Received
  <2> HIDE DEF f
  <2>7. WithNarrow(f).codec = f.codec /\ WithNarrow(f).wire = f.wire
    BY <2>1 DEF WithNarrow, Bundle
  <2>8. NarrowOf(WithNarrow(f)) = NarrowOf(f)
    <3>1. CASE packet \in Codec
      <4>1. Plays(WithNarrow(f), r)
        BY <2>2, <2>4, <2>5, <3>1 DEF Plays
      <4> QED
        BY <1>s, <2>2, <2>5, <3>1, <4>1, PlaysType
    <3>2. CASE packet \notin Codec
      <4>1. WithNarrow(f).narrow = None /\ WithNarrow(f).wide = None
        BY <2>1, <2>3, <2>4, <2>5, <3>2 DEF WithNarrow, Holds, Bundle, Codec
      <4> QED
        BY <2>3, <2>5, <2>7, <3>2, <4>1 DEF NarrowOf, Holds, Codec
    <3> QED
      BY <3>1, <3>2
  <2>9. Decoded(c, k, packet) = NarrowOf(f)
    BY <1>2, <2>6, <2>8 DEF Decoded
  <2> HIDE DEF r
  <2> QED
    BY <1>s, <2>2, <2>4, <2>5, <2>6, <2>9 DEF Plays, r
<1> QED
  BY <1>1, <1>2

\* A bundle that is fed a sound to send it has it in the codec it is asked for.
LEMMA SendsWhatIsFed ==
  ASSUME NEW s \in Sound, NEW codec \in Codec
  PROVE  /\ WithEncoded(FedLinear(s), codec) \in Bundle
         /\ Plays(WithEncoded(FedLinear(s), codec), s)
         /\ WithEncoded(FedLinear(s), codec).encoded[codec] = s
<1> DEFINE k == FedLinear(s)
<1>1. k \in Bundle /\ Plays(k, s) /\ Keeps(k, s)
  BY FedType DEF Plays
<1>2. k.encoded[codec] = None
  BY DEF FedLinear, Empty
<1> HIDE DEF k
<1>3. /\ LinearOf(k, codec) = s
      /\ WithLinear(k, codec) \in Bundle
      /\ WithEncoded(k, codec) \in Bundle
      /\ Plays(WithEncoded(k, codec), s)
  BY <1>1, EncodedType
<1>4. WithEncoded(k, codec).encoded[codec] = s
  BY <1>2, <1>3 DEF WithEncoded, Bundle
<1> QED
  BY <1>3, <1>4 DEF k

-----------------------------------------------------------------------------
(* Mixes of two *)

LEMMA MixSize ==
  ASSUME TypeOK
  PROVE  IsFiniteSet(mixed) /\ Cardinality(mixed) \in Nat
BY FS_Subset, FS_CardinalityType, AudioAssumption DEF TypeOK

\* In a mix of two, there is one other.
LEMMA PeerType ==
  ASSUME TypeOK, Cardinality(mixed) = 2, NEW c \in mixed
  PROVE  /\ Peer(c) \in mixed
         /\ Peer(c) # c
         /\ mixed = {c, Peer(c)}
         /\ Peer(Peer(c)) = c
<1>1. IsFiniteSet(mixed)
  BY MixSize
<1>2. Cardinality(mixed \ {c}) = 1
  BY <1>1, FS_RemoveElement
<1>3. IsFiniteSet(mixed \ {c})
  BY <1>1, FS_Subset
<1>4. PICK d : mixed \ {c} = {d}
  BY <1>2, <1>3, FS_Singleton
<1>5. mixed = {c, d} /\ d # c
  BY <1>4
<1>6. Peer(c) = d
  BY <1>5 DEF Peer
<1>7. Peer(d) = c
  BY <1>5 DEF Peer
<1> QED
  BY <1>5, <1>6, <1>7

-----------------------------------------------------------------------------
(* The tick of a channel that is not mixed *)

LEMMA LocalStep ==
  ASSUME AudioInv, NEW c \in Channel, LocalTick(c)
  PROVE  AudioInv'
<1> DEFINE aged         == Aged(cache[c])
           decoded(p)   == Decoded(c, aged, p)
           inbound(p)   == Or(decoded(p), Silence)
           played(p, o) == IF o THEN FromOwn(c) ELSE IF c \in echo THEN inbound(p) ELSE Silence
           sounds(p, o) == decoded(p) # None \/ o
           fed(p)       == Received(c, aged, p)
           taken(p, o)  == IF sounds(p, o) /\ IsWideband(c, fed(p)) THEN WithWide(fed(p)) ELSE fed(p)
           read(p, o)   == IF c \in tapped THEN Read(taken(p, o)) ELSE taken(p, o)
           plays(o, d)  == send[c] /\ remote[c] # None /\ ~d /\ o
<1>p. PICK packet \in Packet, out \in BOOLEAN, dtmf \in BOOLEAN :
        /\ recorded' = [Nothing EXCEPT ![c] =
                          IF sounds(packet, out)
                            THEN LocalRecording(c, fed(packet), inbound(packet), played(packet, out))
                            ELSE None]
        /\ tap' = [Nothing EXCEPT ![c] =
                     IF c \in tapped
                       THEN [in |-> inbound(packet), in16 |-> WideOf(taken(packet, out)),
                             out |-> played(packet, out), out16 |-> None,
                             encoded |-> [p \in Codec |-> EncodedAs(taken(packet, out), p)]]
                       ELSE None]
        /\ sent' = [Nothing EXCEPT ![c] = LocalOut(c, packet, out, dtmf)]
        /\ cache' = [cache EXCEPT ![c] =
                       IF plays(out, dtmf) THEN Prompted(c) ELSE read(packet, out)]
  BY DEF LocalTick
<1>u. /\ phase = "idle" /\ phase' = "idle"
      /\ c \notin mixed
      /\ ticks < MaxTicks /\ ticks' = ticks + 1 /\ commands' = commands
      /\ frame' = Nothing
      /\ heard' = {}
      /\ mixed' = mixed /\ send' = send /\ recv' = recv
      /\ echo' = echo /\ remote' = remote /\ tapped' = tapped
  BY DEF LocalTick, Ticked, config
<1>t. TypeOK
  BY DEF AudioInv
<1>b. cache[c] \in Bundle /\ remote[c] \in Codec \cup {None}
  BY <1>t DEF TypeOK
<1>1. PICK s \in Sound : Keeps(cache[c], s)
  BY DEF AudioInv, BundleInv
<1>2. aged \in Bundle /\ Stale(s) \in Sound /\ Keeps(aged, Stale(s))
  BY <1>1, <1>b, AgedType, StaleType
<1>s. FromRemote(c) \in Sound /\ FromOwn(c) \in Sound /\ Silence \in Sound
  BY SourcesAreSounds
<1> HIDE DEF aged
<1>3. /\ fed(packet) \in Bundle
      /\ \E t \in Sound : Keeps(fed(packet), t)
      /\ decoded(packet) \in {None, FromRemote(c)}
  BY <1>2, ReceivedType
<1>4. PICK t \in Sound : Keeps(fed(packet), t)
  BY <1>3
<1>5. inbound(packet) \in {FromRemote(c), Silence}
  BY <1>3 DEF Or
<1>6. played(packet, out) \in Sound
  BY <1>5, <1>s
<1> HIDE DEF inbound, played, fed, decoded
<1>7. taken(packet, out) \in Bundle /\ Keeps(taken(packet, out), t)
  BY <1>3, <1>4, DecodedType
<1>8. WideOf(fed(packet)) \in {None, t}
  BY <1>3, <1>4, DecodedType
<1> HIDE DEF taken
<1>9. read(packet, out) \in Bundle /\ Keeps(read(packet, out), t)
  BY <1>7, ReadType
<1>10. plays(out, dtmf) => Prompted(c) \in Bundle /\ Keeps(Prompted(c), FromOwn(c))
  BY <1>b, <1>s, SendsWhatIsFed DEF Prompted, Plays
<1>11. cache' \in [Channel -> Bundle] /\ BundleInv'
  <2>1. cache'[c] \in Bundle /\ \E u \in Sound : Keeps(cache'[c], u)
    BY <1>p, <1>t, <1>9, <1>10, <1>s DEF TypeOK
  <2> QED
    BY <1>p, <1>t, <2>1 DEF TypeOK, BundleInv, AudioInv
<1>12. LocalOut(c, packet, out, dtmf) \in {None, FromOwn(c), FromRemote(c)}
  BY <1>b, <1>s, SendsWhatIsFed DEF LocalOut, Prompted, Echoed
<1>13. sent' \in [Channel -> {None} \cup Sound] /\ \A d \in Channel : d # c => sent'[d] = None
  BY <1>p, <1>12, <1>s DEF Nothing
<1>14. /\ recorded' \in [Channel -> {None} \cup Recording]
       /\ \A d \in Channel : d # c => recorded'[d] = None
       /\ recorded'[c] # None => recorded'[c].own # None
  <2> DEFINE r == LocalRecording(c, fed(packet), inbound(packet), played(packet, out))
  <2>1. r \in Recording /\ r.own # None
    BY <1>s, <1>5, <1>6, <1>8, NoSound DEF LocalRecording, Recording, Or
  <2>2. recorded' = [Nothing EXCEPT ![c] = IF sounds(packet, out) THEN r ELSE None]
    BY <1>p
  <2> HIDE DEF r, sounds
  <2> QED
    BY <2>1, <2>2 DEF Nothing
<1>15. /\ tap' \in [Channel -> {None} \cup Taps]
       /\ \A d \in Channel : d # c => tap'[d] = None
       /\ tap'[c] # None => tap'[c].in = inbound(packet)
  <2> DEFINE r == [in |-> inbound(packet), in16 |-> WideOf(taken(packet, out)),
                   out |-> played(packet, out), out16 |-> None,
                   encoded |-> [p \in Codec |-> EncodedAs(taken(packet, out), p)]]
  <2>1. WideOf(taken(packet, out)) \in {None} \cup Sound
    BY <1>7, DecodedType
  <2>2. [p \in Codec |-> EncodedAs(taken(packet, out), p)] \in [Codec -> {None} \cup Sound]
    BY <1>7, EncodedType DEF Maybe
  <2>3. r \in Taps /\ r.in = inbound(packet)
    BY <1>s, <1>5, <1>6, <2>1, <2>2 DEF Taps
  <2>4. tap' = [Nothing EXCEPT ![c] = IF c \in tapped THEN r ELSE None]
    BY <1>p
  <2> HIDE DEF r
  <2> QED
    BY <2>3, <2>4 DEF Nothing
<1>16. frame' \in [Channel -> {None} \cup Sound] /\ \A d \in Channel : frame'[d] = None
  BY <1>u DEF Nothing
<1>17. TypeOK'
  BY <1>t, <1>u, <1>11, <1>13, <1>14, <1>15, <1>16, AudioAssumption DEF TypeOK
<1>18. FrameInv' /\ PhaseInv'
  BY <1>u, <1>16 DEF FrameInv, PhaseInv
<1>19. Sends'
  <2>1. MixMinus'
    BY <1>t, <1>u, <1>13 DEF MixMinus, TypeOK
  <2>2. Bridged'
    BY <1>u DEF Bridged
  <2>3. SentAlone'
    BY <1>u, <1>p, <1>12, <1>13 DEF SentAlone, FromOwn, FromRemote, Nothing
  <2> QED
    BY <2>1, <2>2, <2>3 DEF Sends
<1>20. Takes'
  <2>1. TwoLegs'
    BY <1>t, <1>u, <1>14 DEF TwoLegs, TypeOK
  <2>2. ReadNow'
    BY <1>u, <1>5, <1>15 DEF ReadNow, FromRemote, Silence
  <2> QED
    BY <2>1, <2>2 DEF Takes
<1> QED
  BY <1>11, <1>17, <1>18, <1>19, <1>20 DEF AudioInv

-----------------------------------------------------------------------------
(* The tick of the mixer *)

\* What one member is fed, and gives to the mix.
LEMMA MemberInbound ==
  ASSUME AudioInv, NEW c \in mixed, NEW packet \in Packet, NEW out \in BOOLEAN,
         packet \in Codec => ~out
  PROVE  /\ ProcessInbound(c, packet, out) \in Bundle
         /\ \E s \in Sound : Keeps(ProcessInbound(c, packet, out), s)
         /\ Contribution(c, packet, out) \in {None, FromRemote(c), FromOwn(c)}
         /\ Contribution(c, packet, out) # None =>
              Plays(ProcessInbound(c, packet, out), Contribution(c, packet, out))
         /\ recv[c] /\ Decoded(c, Aged(cache[c]), packet) # None =>
              Contribution(c, packet, out) = FromRemote(c)
<1> DEFINE aged == Aged(cache[c])
<1>t. c \in Channel /\ cache[c] \in Bundle
  BY DEF AudioInv, TypeOK
<1>1. PICK s \in Sound : Keeps(cache[c], s)
  BY <1>t DEF AudioInv, BundleInv
<1>2. aged \in Bundle /\ Stale(s) \in Sound /\ Keeps(aged, Stale(s))
  BY <1>1, <1>t, AgedType, StaleType
<1>3. FromRemote(c) \in Sound /\ FromOwn(c) \in Sound /\ FromRemote(c) # None
  BY <1>t, SourcesAreSounds, NoSound
<1>4. FedLinear(FromOwn(c)) \in Bundle /\ Plays(FedLinear(FromOwn(c)), FromOwn(c))
  BY <1>3, FedType
<1> HIDE DEF aged
<1>5. /\ Received(c, aged, packet) \in Bundle
      /\ \E t \in Sound : Keeps(Received(c, aged, packet), t)
      /\ Decoded(c, aged, packet) \in {None, FromRemote(c)}
      /\ Decoded(c, aged, packet) # None <=> packet \in Codec
      /\ packet \in Codec => Plays(Received(c, aged, packet), FromRemote(c))
  BY <1>t, <1>2, ReceivedType
<1>6. /\ ProcessInbound(c, packet, out) =
           IF Decoded(c, aged, packet) = None /\ out THEN FedLinear(FromOwn(c))
                                                     ELSE Received(c, aged, packet)
      /\ Contribution(c, packet, out) =
           IF ~recv[c] THEN None
           ELSE IF Decoded(c, aged, packet) = None /\ out THEN FromOwn(c)
           ELSE Decoded(c, aged, packet)
  BY DEF ProcessInbound, Contribution, aged
<1>7. /\ ProcessInbound(c, packet, out) \in Bundle
      /\ \E t \in Sound : Keeps(ProcessInbound(c, packet, out), t)
  BY <1>3, <1>4, <1>5, <1>6 DEF Plays
<1>8. /\ Contribution(c, packet, out) \in {None, FromRemote(c), FromOwn(c)}
      /\ Contribution(c, packet, out) # None =>
           Plays(ProcessInbound(c, packet, out), Contribution(c, packet, out))
  BY <1>3, <1>4, <1>5, <1>6
<1>9. recv[c] /\ Decoded(c, Aged(cache[c]), packet) # None =>
        Contribution(c, packet, out) = FromRemote(c)
  BY <1>5, <1>6 DEF aged
<1> QED
  BY <1>7, <1>8, <1>9

LEMMA InboundStep ==
  ASSUME AudioInv, InboundPhase
  PROVE  AudioInv'
<1>p. PICK packet \in [mixed -> Packet] :
      \E out \in SUBSET {c \in mixed : packet[c] \notin Codec} :
        /\ cache' = [c \in Channel |->
             IF c \in mixed THEN ProcessInbound(c, packet[c], c \in out) ELSE cache[c]]
        /\ frame' = [c \in Channel |->
             IF c \in mixed THEN Contribution(c, packet[c], c \in out) ELSE None]
        /\ heard' = {c \in mixed : recv[c] /\ Decoded(c, Aged(cache[c]), packet[c]) # None}
  BY DEF InboundPhase
<1>o. PICK out \in SUBSET {c \in mixed : packet[c] \notin Codec} :
        /\ cache' = [c \in Channel |->
             IF c \in mixed THEN ProcessInbound(c, packet[c], c \in out) ELSE cache[c]]
        /\ frame' = [c \in Channel |->
             IF c \in mixed THEN Contribution(c, packet[c], c \in out) ELSE None]
        /\ heard' = {c \in mixed : recv[c] /\ Decoded(c, Aged(cache[c]), packet[c]) # None}
  BY <1>p
<1>u. /\ phase = "idle"
      /\ phase' = IF Cardinality(mixed) = 1 THEN "record" ELSE "mix"
      /\ ticks < MaxTicks /\ ticks' = ticks + 1 /\ commands' = commands
      /\ sent' = Nothing /\ recorded' = Nothing /\ tap' = Nothing
      /\ mixed' = mixed /\ send' = send /\ recv' = recv
      /\ echo' = echo /\ remote' = remote /\ tapped' = tapped
  BY DEF InboundPhase, Ticked, config
<1>t. TypeOK
  BY DEF AudioInv
<1>m. mixed \subseteq Channel
  BY <1>t DEF TypeOK
<1>1. ASSUME NEW c \in mixed
      PROVE  /\ cache'[c] \in Bundle
             /\ \E s \in Sound : Keeps(cache'[c], s)
             /\ frame'[c] \in {None, FromRemote(c), FromOwn(c)}
             /\ frame'[c] # None => Plays(cache'[c], frame'[c])
             /\ c \in heard' => frame'[c] = FromRemote(c)
  <2>1. packet[c] \in Packet /\ (c \in out) \in BOOLEAN /\ (packet[c] \in Codec => ~(c \in out))
    BY <1>1, <1>o
  <2>2. /\ cache'[c] = ProcessInbound(c, packet[c], c \in out)
        /\ frame'[c] = Contribution(c, packet[c], c \in out)
        /\ c \in heard' => recv[c] /\ Decoded(c, Aged(cache[c]), packet[c]) # None
    BY <1>1, <1>o, <1>m
  <2>3. /\ ProcessInbound(c, packet[c], c \in out) \in Bundle
        /\ \E s \in Sound : Keeps(ProcessInbound(c, packet[c], c \in out), s)
        /\ Contribution(c, packet[c], c \in out) \in {None, FromRemote(c), FromOwn(c)}
        /\ Contribution(c, packet[c], c \in out) # None =>
             Plays(ProcessInbound(c, packet[c], c \in out), Contribution(c, packet[c], c \in out))
        /\ recv[c] /\ Decoded(c, Aged(cache[c]), packet[c]) # None =>
             Contribution(c, packet[c], c \in out) = FromRemote(c)
    BY <2>1, <1>1, MemberInbound
  <2> QED
    BY <2>2, <2>3
<1>2. ASSUME NEW c \in Channel \ mixed
      PROVE  cache'[c] = cache[c] /\ frame'[c] = None /\ c \notin heard'
  BY <1>o
<1>3. ASSUME NEW c \in Channel
      PROVE  /\ cache'[c] \in Bundle
             /\ \E s \in Sound : Keeps(cache'[c], s)
             /\ frame'[c] \in {None} \cup Sound
  <2>1. CASE c \in mixed
    BY <1>1, <2>1, SourcesAreSounds
  <2>2. CASE c \notin mixed
    BY <1>2, <2>2, <1>t DEF TypeOK, AudioInv, BundleInv
  <2> QED
    BY <2>1, <2>2
<1>4. cache' \in [Channel -> Bundle] /\ BundleInv'
  BY <1>3, <1>o DEF BundleInv
<1>5. frame' \in [Channel -> {None} \cup Sound]
  BY <1>3, <1>o
<1>6. heard' \subseteq mixed
  BY <1>o
<1>7. TypeOK'
  BY <1>t, <1>u, <1>4, <1>5, <1>6, AudioAssumption DEF TypeOK, Nothing
<1>8. FrameInv'
  BY <1>1, <1>2, <1>u DEF FrameInv
<1>9. PhaseInv'
  <2>1. \A c \in heard' : frame'[c] = FromRemote(c) /\ Plays(cache'[c], FromRemote(c))
    BY <1>1, <1>6, <1>m, SourcesAreSounds, NoSound
  <2>2. \A c \in heard' : cache'[c].narrow # None
    BY <2>1, <1>6, <1>m, SourcesAreSounds, NoSound DEF Plays
  <2> QED
    BY <2>1, <2>2, <1>u DEF PhaseInv
<1>10. Sends'
  <2>1. \A c \in Channel : sent'[c] = None
    BY <1>u DEF Nothing
  <2>2. MixMinus' /\ SentAlone'
    BY <2>1, <1>u, <1>m DEF MixMinus, SentAlone
  <2>3. phase' = "record" => Cardinality(mixed') # 2
    BY <1>u
  <2>4. Bridged'
    BY <2>3 DEF Bridged
  <2> QED
    BY <2>2, <2>4 DEF Sends
<1>11. Takes'
  BY <1>u, <1>m DEF Takes, TwoLegs, ReadNow, Nothing
<1> QED
  BY <1>4, <1>7, <1>8, <1>9, <1>10, <1>11 DEF AudioInv

\* The two legs of a bridge: each takes the other's frame and keeps its own.
LEMMA LegsType ==
  ASSUME AudioInv, phase = "mix", Cardinality(mixed) = 2, NEW c \in mixed
  PROVE  /\ AfterLegs(c) \in Bundle
         /\ \E s \in Sound : Keeps(AfterLegs(c), s)
         /\ frame[c] # None => Plays(AfterLegs(c), frame[c])
         /\ LegOpen(Peer(c)) =>
              /\ EncodedFrom(cache[Peer(c)], remote[c]) = frame[Peer(c)]
              /\ frame[Peer(c)] \in Sound
              /\ Others(c) = frame[Peer(c)]
<1> DEFINE p     == Peer(c)
           codec == remote[p]
           asked == IF LegOpen(c) /\ ~Holds(cache[c], {codec})
                      THEN WithLinear(cache[c], codec) ELSE cache[c]
<1>t. TypeOK
  BY DEF AudioInv
<1>1. p \in mixed /\ p # c /\ mixed = {c, p} /\ Peer(p) = c
  BY <1>t, PeerType
<1>2. /\ c \in Channel /\ p \in Channel
      /\ cache[c] \in Bundle /\ cache[p] \in Bundle
      /\ codec \in Codec \cup {None} /\ remote[c] \in Codec \cup {None}
      /\ frame[c] \in {None} \cup Sound /\ frame[p] \in {None} \cup Sound
  BY <1>1, <1>t DEF TypeOK
<1>f. /\ frame[c] # None => Plays(cache[c], frame[c])
      /\ frame[p] # None => Plays(cache[p], frame[p])
  BY <1>2 DEF AudioInv, FrameInv
<1>l. /\ LegOpen(c) => codec \in Codec /\ frame[c] # None
      /\ LegOpen(p) => remote[c] \in Codec /\ frame[p] # None
  BY <1>1, <1>2 DEF LegOpen
<1>3. PICK s \in Sound : Keeps(cache[c], s)
  BY <1>2 DEF AudioInv, BundleInv
<1>d. AfterLegs(c) =
        IF LegOpen(p) THEN [asked EXCEPT !.encoded[remote[c]] = EncodedFrom(cache[p], remote[c])]
                      ELSE asked
  BY DEF AfterLegs
<1> HIDE DEF p, codec
<1>4. asked \in Bundle /\ Keeps(asked, s)
  BY <1>2, <1>3, <1>l, EncodedType
<1>5. frame[c] # None => Plays(asked, frame[c])
  <2> SUFFICES ASSUME frame[c] # None
               PROVE  Plays(asked, frame[c])
    OBVIOUS
  <2>1. Plays(cache[c], frame[c]) /\ frame[c] \in Sound /\ Keeps(cache[c], frame[c])
    BY <1>2, <1>f DEF Plays
  <2>2. LegOpen(c) => Plays(WithLinear(cache[c], codec), frame[c])
    BY <1>2, <1>l, <2>1, EncodedType
  <2> QED
    BY <2>1, <2>2
<1> HIDE DEF asked
<1>6. LegOpen(p) => EncodedFrom(cache[p], remote[c]) = frame[p] /\ frame[p] \in Sound
  <2> SUFFICES ASSUME LegOpen(p)
               PROVE  EncodedFrom(cache[p], remote[c]) = frame[p] /\ frame[p] \in Sound
    OBVIOUS
  <2>1. Plays(cache[p], frame[p]) /\ frame[p] \in Sound /\ Keeps(cache[p], frame[p])
    BY <1>2, <1>f, <1>l DEF Plays
  <2>2. remote[c] \in Codec
    BY <1>l
  <2> QED
    BY <1>2, <2>1, <2>2, EncodedType
<1>7. AfterLegs(c) \in Bundle /\ Keeps(AfterLegs(c), s)
  BY <1>4, <1>6, <1>d DEF Bundle, Keeps
<1>8. frame[c] # None => Plays(AfterLegs(c), frame[c])
  BY <1>4, <1>5, <1>d DEF Bundle, Keeps, Plays
<1>9. LegOpen(p) => Others(c) = frame[p]
  <2> SUFFICES ASSUME LegOpen(p)
               PROVE  Others(c) = frame[p]
    OBVIOUS
  <2>1. {e \in mixed \ {c} : frame[e] # None} = {p}
    BY <1>1, <1>l
  <2>2. {frame[d] : d \in {e \in mixed \ {c} : frame[e] # None}} = {frame[p]}
    BY <2>1
  <2> QED
    BY <2>2 DEF Others
<1> QED
  BY <1>6, <1>7, <1>8, <1>9 DEF p

\* The others' sound is this tick's.
LEMMA OthersType ==
  ASSUME AudioInv, NEW c \in mixed
  PROVE  Others(c) \in Sound /\ Others(c) \subseteq Theirs(c)
<1> DEFINE Heard == {e \in mixed \ {c} : frame[e] # None}
<1>1. ASSUME NEW d \in Heard
      PROVE  /\ d \in mixed \ {c}
             /\ frame[d] \in Sound
             /\ frame[d] \in {FromRemote(d), FromOwn(d)}
  BY DEF AudioInv, TypeOK, FrameInv
<1>2. Others(c) = UNION {frame[d] : d \in Heard}
  BY DEF Others
<1>3. ASSUME NEW x \in Others(c)
      PROVE  x \in Source /\ x \in Theirs(c)
  <2>1. PICK d \in Heard : x \in frame[d]
    BY <1>2
  <2>2. d \in mixed \ {c} /\ frame[d] \in Sound /\ frame[d] \in {FromRemote(d), FromOwn(d)}
    BY <1>1
  <2>3. x \in {[of |-> d, from |-> f, fresh |-> TRUE] : f \in {"remote", "own"}}
    BY <2>1, <2>2 DEF FromRemote, FromOwn
  <2> QED
    BY <2>1, <2>2, <2>3 DEF Theirs, Sound
<1> QED
  BY <1>3 DEF Sound

LEMMA BridgeStep ==
  ASSUME AudioInv, Mix2
  PROVE  AudioInv'
<1>u. /\ phase = "mix" /\ phase' = "record"
      /\ Cardinality(mixed) = 2
      /\ cache' = [c \in Channel |-> IF c \in mixed THEN AfterLegs(c) ELSE cache[c]]
      /\ sent' = [c \in Channel |-> IF c \in mixed /\ LegOpen(Peer(c))
                                     THEN EncodedFrom(cache[Peer(c)], remote[c]) ELSE sent[c]]
      /\ mixed' = mixed /\ send' = send /\ recv' = recv
      /\ echo' = echo /\ remote' = remote /\ tapped' = tapped
      /\ heard' = heard /\ frame' = frame /\ recorded' = recorded /\ tap' = tap
      /\ ticks' = ticks /\ commands' = commands
  BY DEF Mix2, config, bounds
<1>t. TypeOK
  BY DEF AudioInv
<1>m. mixed \subseteq Channel /\ heard \subseteq mixed
  BY <1>t DEF TypeOK
<1>n. /\ \A c \in Channel : sent[c] = None
      /\ recorded = Nothing /\ tap = Nothing
      /\ \A c \in heard : frame[c] = FromRemote(c)
  BY <1>u, <1>m DEF AudioInv, PhaseInv, FrameInv, Nothing
<1>1. ASSUME NEW c \in mixed
      PROVE  /\ cache'[c] \in Bundle
             /\ \E s \in Sound : Keeps(cache'[c], s)
             /\ frame[c] # None => Plays(cache'[c], frame[c])
             /\ sent'[c] # None => LegOpen(Peer(c))
             /\ LegOpen(Peer(c)) =>
                  /\ sent'[c] = frame[Peer(c)]
                  /\ sent'[c] \in Sound
                  /\ sent'[c] = Others(c)
  <2>1. cache'[c] = AfterLegs(c)
    BY <1>1, <1>u, <1>m
  <2>2. sent'[c] = IF LegOpen(Peer(c)) THEN EncodedFrom(cache[Peer(c)], remote[c]) ELSE None
    BY <1>1, <1>u, <1>m, <1>n
  <2> QED
    BY <1>u, <2>1, <2>2, LegsType
<1>2. cache' \in [Channel -> Bundle] /\ BundleInv'
  <2>1. ASSUME NEW c \in Channel
        PROVE  cache'[c] \in Bundle /\ \E s \in Sound : Keeps(cache'[c], s)
    <3>1. CASE c \in mixed
      BY <1>1, <3>1
    <3>2. CASE c \notin mixed
      BY <1>t, <1>u, <3>2 DEF TypeOK, AudioInv, BundleInv
    <3> QED
      BY <3>1, <3>2
  <2> QED
    BY <1>u, <2>1 DEF BundleInv
<1>3. sent' \in [Channel -> {None} \cup Sound] /\ \A c \in Channel \ mixed : sent'[c] = None
  BY <1>1, <1>n, <1>u
<1>4. TypeOK'
  BY <1>t, <1>u, <1>2, <1>3 DEF TypeOK
<1>5. FrameInv'
  BY <1>u DEF AudioInv, FrameInv
<1>6. PhaseInv'
  <2>1. \A c \in heard : Plays(cache'[c], FromRemote(c)) /\ FromRemote(c) # None
    BY <1>1, <1>m, <1>n, SourcesAreSounds, NoSound
  <2> QED
    BY <1>u, <1>n, <2>1 DEF PhaseInv, Plays
<1>7. Sends'
  <2>1. MixMinus'
    <3>1. ASSUME NEW c \in mixed, sent'[c] # None
          PROVE  sent'[c] = Others(c) /\ sent'[c] \subseteq Theirs(c)
      BY <1>1, <3>1, OthersType
    <3> QED
      BY <1>u, <3>1 DEF MixMinus, Others, Theirs
  <2>2. Bridged'
    <3>1. ASSUME NEW c \in mixed, send[c], frame[c] # None, remote[Peer(c)] # None
          PROVE  sent'[Peer(c)] = frame[c]
      <4>1. Peer(c) \in mixed /\ Peer(Peer(c)) = c
        BY <1>t, <1>u, <3>1, PeerType
      <4>2. LegOpen(Peer(Peer(c)))
        BY <3>1, <4>1 DEF LegOpen
      <4> QED
        BY <1>1, <4>1, <4>2
    <3>2. \A c \in mixed : Peer(c)' = Peer(c)
      BY <1>u DEF Peer
    <3> QED
      BY <1>u, <3>1, <3>2 DEF Bridged
  <2>3. SentAlone'
    BY <1>u, <1>3 DEF SentAlone
  <2> QED
    BY <2>1, <2>2, <2>3 DEF Sends
<1>8. Takes'
  BY <1>u, <1>m, <1>n DEF Takes, TwoLegs, ReadNow, Nothing
<1> QED
  BY <1>2, <1>4, <1>5, <1>6, <1>7, <1>8 DEF AudioInv

LEMMA MixStep ==
  ASSUME AudioInv, MixAll
  PROVE  AudioInv'
<1> DEFINE out == {c \in mixed : send[c] /\ remote[c] # None}
<1>u. /\ phase = "mix" /\ phase' = "record"
      /\ Cardinality(mixed) > 2
      /\ cache' = [c \in Channel |-> IF c \in out THEN Summed(c) ELSE cache[c]]
      /\ sent' = [c \in Channel |->
           IF c \in out THEN Summed(c).encoded[remote[c]] ELSE sent[c]]
      /\ mixed' = mixed /\ send' = send /\ recv' = recv
      /\ echo' = echo /\ remote' = remote /\ tapped' = tapped
      /\ heard' = heard /\ frame' = frame /\ recorded' = recorded /\ tap' = tap
      /\ ticks' = ticks /\ commands' = commands
  BY DEF MixAll, config, bounds
<1>t. TypeOK
  BY DEF AudioInv
<1>m. mixed \subseteq Channel /\ heard \subseteq mixed /\ Cardinality(mixed) \in Nat
  BY <1>t, MixSize DEF TypeOK
<1>n. /\ \A c \in Channel : sent[c] = None
      /\ recorded = Nothing /\ tap = Nothing
      /\ \A c \in heard : cache[c].narrow # None
  BY <1>u DEF AudioInv, PhaseInv, Nothing
<1>1. ASSUME NEW c \in out
      PROVE  /\ Summed(c) \in Bundle
             /\ Plays(Summed(c), Others(c))
             /\ Summed(c).encoded[remote[c]] = Others(c)
             /\ Others(c) \in Sound
             /\ Others(c) \subseteq Theirs(c)
  <2>1. c \in mixed /\ remote[c] \in Codec
    BY <1>1, <1>t DEF TypeOK
  <2>2. Others(c) \in Sound /\ Others(c) \subseteq Theirs(c)
    BY <2>1, OthersType
  <2> QED
    BY <2>1, <2>2, SendsWhatIsFed DEF Summed
<1>o. out \subseteq mixed
  OBVIOUS
<1> HIDE DEF out
<1>2. ASSUME NEW c \in Channel
      PROVE  /\ cache'[c] \in Bundle
             /\ \E s \in Sound : Keeps(cache'[c], s)
             /\ cache[c].narrow # None => cache'[c].narrow # None
             /\ sent'[c] \in {None} \cup Sound
             /\ sent'[c] # None =>
                  c \in mixed /\ sent'[c] = Others(c) /\ sent'[c] \subseteq Theirs(c)
  <2>1. CASE c \in out
    <3>1. cache'[c] = Summed(c) /\ sent'[c] = Others(c)
      BY <1>1, <1>u, <2>1
    <3> QED
      BY <1>1, <1>o, <2>1, <3>1, NoSound DEF Plays
  <2>2. CASE c \notin out
    <3>1. cache'[c] = cache[c] /\ sent'[c] = None
      BY <1>n, <1>u, <2>2
    <3> QED
      BY <1>t, <3>1 DEF TypeOK, AudioInv, BundleInv
  <2> QED
    BY <2>1, <2>2
<1>3. cache' \in [Channel -> Bundle] /\ BundleInv'
  BY <1>2, <1>u DEF BundleInv
<1>4. sent' \in [Channel -> {None} \cup Sound]
  BY <1>2, <1>u
<1>5. TypeOK'
  BY <1>t, <1>u, <1>3, <1>4 DEF TypeOK
<1>6. FrameInv'
  BY <1>u DEF AudioInv, FrameInv
<1>7. PhaseInv'
  <2>1. \A c \in heard : cache'[c].narrow # None
    BY <1>2, <1>m, <1>n
  <2>2. ~(Cardinality(mixed) <= 2)
    BY <1>u, <1>m
  <2> QED
    BY <1>u, <1>n, <2>1, <2>2 DEF PhaseInv
<1>8. Sends'
  <2>1. MixMinus'
    <3>1. \A c \in mixed : Others(c)' = Others(c) /\ Theirs(c)' = Theirs(c)
      BY <1>u DEF Others, Theirs
    <3>2. ASSUME NEW c \in mixed, sent'[c] # None
          PROVE  sent'[c] = Others(c) /\ sent'[c] \subseteq Theirs(c)
      BY <1>2, <1>m, <3>2
    <3> QED
      BY <1>u, <3>1, <3>2 DEF MixMinus
  <2>2. Bridged'
    BY <1>u, <1>m DEF Bridged
  <2>3. SentAlone'
    BY <1>2, <1>u DEF SentAlone
  <2> QED
    BY <2>1, <2>2, <2>3 DEF Sends
<1>9. Takes'
  BY <1>u, <1>m, <1>n DEF Takes, TwoLegs, ReadNow, Nothing
<1> QED
  BY <1>3, <1>5, <1>6, <1>7, <1>8, <1>9 DEF AudioInv

\* What recorders and readers ask of a bundle leaves its frame.
LEMMA AskedType ==
  ASSUME AudioInv, NEW c \in Channel, NEW s \in Sound, Keeps(cache[c], s)
  PROVE  /\ Asked(c) \in Bundle /\ Keeps(Asked(c), s)
         /\ Read(Asked(c)) \in Bundle /\ Keeps(Read(Asked(c)), s)
<1>1. cache[c] \in Bundle
  BY DEF AudioInv, TypeOK
<1>2. WithNarrow(cache[c]) \in Bundle /\ Keeps(WithNarrow(cache[c]), s)
  BY <1>1, DecodedType
<1>3. WithWide(WithNarrow(cache[c])) \in Bundle /\ Keeps(WithWide(WithNarrow(cache[c])), s)
  BY <1>2, DecodedType
<1>4. Asked(c) \in Bundle /\ Keeps(Asked(c), s)
  BY <1>2, <1>3 DEF Asked
<1> QED
  BY <1>4, ReadType

\* The frame of a member that is heard, as its own recorders and readers get it.
LEMMA OwnLeg ==
  ASSUME AudioInv, phase = "record", NEW c \in heard
  PROVE  /\ NarrowOf(cache[c]) \in Sound /\ NarrowOf(cache[c]) # None
         /\ WideOf(cache[c]) \in Sound /\ WideOf(cache[c]) # None
         /\ Cardinality(mixed) <= 2 =>
              NarrowOf(cache[c]) = FromRemote(c) /\ WideOf(cache[c]) = FromRemote(c)
<1>1. c \in Channel /\ cache[c] \in Bundle /\ cache[c].narrow # None
  BY DEF AudioInv, TypeOK, PhaseInv
<1>2. PICK s \in Sound : Keeps(cache[c], s)
  BY <1>1 DEF AudioInv, BundleInv
<1>3. Plays(cache[c], s)
  BY <1>1, <1>2 DEF Plays, Keeps
<1>4. NarrowOf(cache[c]) = s /\ WideOf(cache[c]) = s /\ s # None
  BY <1>1, <1>3, PlaysType, NoSound
<1>5. Cardinality(mixed) <= 2 => s = FromRemote(c)
  BY <1>3 DEF AudioInv, PhaseInv, Plays
<1> QED
  BY <1>4, <1>5

\* The other leg of a bridge.
LEMMA PeerLeg ==
  ASSUME AudioInv, phase = "record", NEW c \in mixed
  PROVE  /\ PeerNarrow(c) \in {None} \cup Sound
         /\ PeerWide(c) \in {None} \cup Sound
         /\ Cardinality(mixed) = 2 =>
              {PeerNarrow(c), PeerWide(c)} \subseteq {FromRemote(Peer(c)), Silence}
<1>t. TypeOK
  BY DEF AudioInv
<1>1. CASE Cardinality(mixed) # 2
  BY <1>1 DEF PeerNarrow, PeerWide
<1>2. CASE Cardinality(mixed) = 2
  <2>1. Peer(c) \in mixed /\ Peer(c) \in Channel
    BY <1>t, <1>2, PeerType DEF TypeOK
  <2>2. FromRemote(Peer(c)) \in Sound /\ Silence \in Sound /\ FromRemote(Peer(c)) # None
    BY <2>1, SourcesAreSounds, NoSound
  <2>3. Peer(c) \in heard =>
          /\ NarrowOf(cache[Peer(c)]) = FromRemote(Peer(c))
          /\ WideOf(cache[Peer(c)]) = FromRemote(Peer(c))
    BY <1>2, OwnLeg
  <2>4. {PeerNarrow(c), PeerWide(c)} \subseteq {FromRemote(Peer(c)), Silence}
    BY <1>2, <2>2, <2>3 DEF PeerNarrow, PeerWide, Or
  <2> QED
    BY <2>2, <2>4
<1> QED
  BY <1>1, <1>2

LEMMA PostMixStep ==
  ASSUME AudioInv, PostMixPhase
  PROVE  AudioInv'
<1>u. /\ phase = "record" /\ phase' = "idle"
      /\ recorded' = [c \in Channel |-> IF c \in heard THEN MixRecording(c) ELSE recorded[c]]
      /\ tap' = [c \in Channel |-> IF c \in heard \cap tapped THEN MixTap(c) ELSE tap[c]]
      /\ cache' = [c \in Channel |->
           IF c \in heard THEN IF c \in tapped THEN Read(Asked(c)) ELSE Asked(c)
                          ELSE cache[c]]
      /\ mixed' = mixed /\ send' = send /\ recv' = recv
      /\ echo' = echo /\ remote' = remote /\ tapped' = tapped
      /\ heard' = heard /\ frame' = frame /\ sent' = sent
      /\ ticks' = ticks /\ commands' = commands
  BY DEF PostMixPhase, config, bounds
<1>t. TypeOK
  BY DEF AudioInv
<1>m. mixed \subseteq Channel /\ heard \subseteq mixed
  BY <1>t DEF TypeOK
<1>n. \A c \in Channel : recorded[c] = None /\ tap[c] = None
  BY <1>u DEF AudioInv, PhaseInv, Nothing
<1>1. ASSUME NEW c \in Channel
      PROVE  cache'[c] \in Bundle /\ \E s \in Sound : Keeps(cache'[c], s)
  <2>1. PICK s \in Sound : Keeps(cache[c], s)
    BY DEF AudioInv, BundleInv
  <2>2. cache[c] \in Bundle
    BY <1>t DEF TypeOK
  <2> QED
    BY <1>u, <2>1, <2>2, AskedType
<1>2. ASSUME NEW c \in heard
      PROVE  /\ MixRecording(c) \in Recording
             /\ MixRecording(c).own # None
             /\ Cardinality(mixed) <= 2 => MixRecording(c).own = FromRemote(c)
             /\ Cardinality(mixed) = 2 =>
                  MixRecording(c).other \in {FromRemote(Peer(c)), Silence}
  <2>1. c \in mixed
    BY <1>m
  <2> QED
    BY <1>u, <2>1, OwnLeg, PeerLeg DEF MixRecording, Recording
<1>3. ASSUME NEW c \in heard
      PROVE  /\ MixTap(c) \in Taps
             /\ Cardinality(mixed) <= 2 =>
                  MixTap(c).in = FromRemote(c) /\ MixTap(c).in16 = FromRemote(c)
             /\ Cardinality(mixed) = 2 =>
                  {MixTap(c).out, MixTap(c).out16} \subseteq {FromRemote(Peer(c)), Silence}
  <2>1. c \in mixed /\ c \in Channel
    BY <1>m
  <2>2. PICK s \in Sound : Keeps(cache[c], s)
    BY <2>1 DEF AudioInv, BundleInv
  <2>3. Asked(c) \in Bundle /\ Keeps(Asked(c), s)
    BY <2>1, <2>2, AskedType
  <2>4. [p \in Codec |-> EncodedAs(Asked(c), p)] \in [Codec -> {None} \cup Sound]
    BY <2>3, EncodedType DEF Maybe
  <2> QED
    BY <1>u, <2>1, <2>4, OwnLeg, PeerLeg DEF MixTap, Taps
<1>4. cache' \in [Channel -> Bundle] /\ BundleInv'
  BY <1>1, <1>u DEF BundleInv
<1>5. /\ recorded' \in [Channel -> {None} \cup Recording]
      /\ \A c \in Channel : recorded'[c] # None => recorded'[c].own # None
  BY <1>2, <1>n, <1>u
<1>6. tap' \in [Channel -> {None} \cup Taps]
  BY <1>3, <1>n, <1>u
<1>7. TypeOK'
  BY <1>t, <1>u, <1>4, <1>5, <1>6 DEF TypeOK
<1>8. FrameInv' /\ PhaseInv'
  BY <1>u DEF AudioInv, FrameInv, PhaseInv
<1>9. Sends'
  <2>1. MixMinus'
    BY <1>u DEF AudioInv, Sends, MixMinus, Others, Theirs
  <2> QED
    BY <1>u, <2>1 DEF AudioInv, Sends, Bridged, SentAlone
<1>p. \A c \in mixed : Peer(c)' = Peer(c)
  BY <1>u DEF Peer
<1>10. Takes'
  <2>1. TwoLegs'
    <3>1. ASSUME NEW c \in mixed, recorded'[c] # None
          PROVE  c \in heard /\ recorded'[c] = MixRecording(c)
      BY <1>m, <1>n, <1>u, <3>1
    <3> QED
      BY <1>2, <1>p, <1>u, <3>1 DEF TwoLegs, FromRemote
  <2>2. ReadNow'
    <3>1. ASSUME NEW c \in Channel, tap'[c] # None
          PROVE  c \in heard /\ c \in mixed /\ tap'[c] = MixTap(c)
      BY <1>m, <1>n, <1>u, <3>1
    <3>2. Cardinality(mixed) <= 2 \/ Cardinality(mixed) > 2
      BY <1>t, MixSize
    <3> QED
      BY <1>3, <1>p, <1>u, <3>1, <3>2 DEF ReadNow, FromRemote, Silence
  <2> QED
    BY <2>1, <2>2 DEF Takes
<1> QED
  BY <1>4, <1>7, <1>8, <1>9, <1>10 DEF AudioInv

-----------------------------------------------------------------------------
(* Commands *)

LEMMA QuietStep ==
  ASSUME AudioInv, BetweenTicks,
         /\ mixed' \subseteq Channel
         /\ send' \in [Channel -> BOOLEAN]
         /\ recv' \in [Channel -> BOOLEAN]
         /\ echo' \subseteq Channel
         /\ remote' \in [Channel -> Codec \cup {None}]
         /\ tapped' \subseteq Channel
  PROVE  AudioInv'
<1>u. /\ phase = "idle" /\ phase' = "idle"
      /\ commands < MaxCommands /\ commands' = commands + 1 /\ ticks' = ticks
      /\ frame' = Nothing /\ sent' = Nothing /\ recorded' = Nothing /\ tap' = Nothing
      /\ heard' = {}
      /\ cache' = cache
  BY DEF BetweenTicks
<1>1. TypeOK'
  BY <1>u, AudioAssumption DEF AudioInv, TypeOK, Nothing
<1>2. BundleInv'
  BY <1>u DEF AudioInv, BundleInv
<1>3. FrameInv' /\ PhaseInv'
  BY <1>u DEF FrameInv, PhaseInv, Nothing
<1>m. mixed' \subseteq Channel
  OBVIOUS
<1>4. Sends'
  <2>1. \A c \in Channel : sent'[c] = None
    BY <1>u DEF Nothing
  <2>2. MixMinus' /\ SentAlone'
    BY <2>1, <1>m DEF MixMinus, SentAlone
  <2>3. Bridged'
    BY <1>u DEF Bridged
  <2> QED
    BY <2>2, <2>3 DEF Sends
<1>5. Takes'
  BY <1>u, <1>m DEF Takes, TwoLegs, ReadNow, Nothing
<1> QED
  BY <1>1, <1>2, <1>3, <1>4, <1>5 DEF AudioInv

LEMMA CommandStep ==
  ASSUME AudioInv, NEW c \in Channel,
         EnterMix(c) \/ LeaveMix(c) \/ Direction(c) \/ Echo(c) \/ Remote(c) \/ Tap(c)
  PROVE  AudioInv'
<1>t. TypeOK
  BY DEF AudioInv
<1>1. CASE EnterMix(c)
  BY <1>1, <1>t, QuietStep DEF EnterMix, TypeOK
<1>2. CASE LeaveMix(c)
  BY <1>2, <1>t, QuietStep DEF LeaveMix, TypeOK
<1>3. CASE Direction(c)
  BY <1>3, <1>t, QuietStep DEF Direction, TypeOK
<1>4. CASE Echo(c)
  BY <1>4, <1>t, QuietStep DEF Echo, TypeOK
<1>5. CASE Remote(c)
  BY <1>5, <1>t, QuietStep DEF Remote, TypeOK
<1>6. CASE Tap(c)
  BY <1>6, <1>t, QuietStep DEF Tap, TypeOK
<1> QED
  BY <1>1, <1>2, <1>3, <1>4, <1>5, <1>6

-----------------------------------------------------------------------------
(* The theorems *)

LEMMA AudioStart == Init => AudioInv
<1> SUFFICES ASSUME Init
             PROVE  AudioInv
  OBVIOUS
<1>e. Empty \in Bundle /\ Keeps(Empty, Silence) /\ Silence \in Sound
  BY FedType DEF Keeps, Empty, Silence, Sound
<1>n. None \notin Codec
  BY AudioAssumption
<1>1. TypeOK
  BY <1>e, AudioAssumption DEF Init, TypeOK, Nothing
<1>2. BundleInv
  BY <1>e DEF Init, BundleInv
<1>3. FrameInv /\ PhaseInv
  BY DEF Init, FrameInv, PhaseInv, Nothing
<1>m. mixed \subseteq Channel
  BY DEF Init
<1>4. Sends
  BY <1>m DEF Init, Sends, MixMinus, Bridged, SentAlone, Nothing
<1>5. Takes
  BY <1>m DEF Init, Takes, TwoLegs, ReadNow, Nothing
<1> QED
  BY <1>1, <1>2, <1>3, <1>4, <1>5 DEF AudioInv

LEMMA AudioStep == AudioInv /\ [Next]_vars => AudioInv'
<1> SUFFICES ASSUME AudioInv, [Next]_vars
             PROVE  AudioInv'
  OBVIOUS
<1>1. CASE UNCHANGED vars
  <2>1. /\ TypeOK' <=> TypeOK
        /\ BundleInv' <=> BundleInv
        /\ FrameInv' <=> FrameInv
        /\ PhaseInv' <=> PhaseInv
    BY <1>1 DEF vars, config, outputs, bounds, TypeOK, BundleInv, FrameInv, PhaseInv
  <2>2. \A c \in mixed : Others(c)' = Others(c) /\ Theirs(c)' = Theirs(c) /\ Peer(c)' = Peer(c)
    BY <1>1 DEF vars, config, outputs, Others, Theirs, Peer
  <2>3. MixMinus' /\ Bridged' /\ SentAlone'
    BY <1>1, <2>2 DEF vars, config, outputs, AudioInv, Sends, MixMinus, Bridged, SentAlone
  <2>4. TwoLegs' /\ ReadNow'
    BY <1>1, <2>2 DEF vars, config, outputs, AudioInv, Takes, TwoLegs, ReadNow
  <2> QED
    BY <2>1, <2>3, <2>4 DEF AudioInv, Sends, Takes
<1>2. CASE \E c \in Channel : LocalTick(c)
  BY <1>2, LocalStep
<1>3. CASE InboundPhase
  BY <1>3, InboundStep
<1>4. CASE Mix2
  BY <1>4, BridgeStep
<1>5. CASE MixAll
  BY <1>5, MixStep
<1>6. CASE PostMixPhase
  BY <1>6, PostMixStep
<1>7. CASE \E c \in Channel :
             EnterMix(c) \/ LeaveMix(c) \/ Direction(c) \/ Echo(c) \/ Remote(c) \/ Tap(c)
  BY <1>7, CommandStep
<1> QED
  BY <1>1, <1>2, <1>3, <1>4, <1>5, <1>6, <1>7 DEF Next

LEMMA AudioAlways == Spec => []AudioInv
<1>1. Init => AudioInv
  BY AudioStart
<1>2. AudioInv /\ [Next]_vars => AudioInv'
  BY AudioStep
<1> QED
  BY <1>1, <1>2, PTL DEF Spec

\* The variables of the audio phases have their types.
THEOREM AudioTypes == Spec => []TypeOK
<1>1. AudioInv => TypeOK
  BY DEF AudioInv
<1> QED
  BY <1>1, AudioAlways, PTL

\* What the codec bundle holds in several representations is one frame,
\* whatever it was asked for and in which order.
THEOREM BundlesAgree == Spec => []OneFrame
<1>1. AudioInv => OneFrame
  <2> SUFFICES ASSUME AudioInv, NEW c \in Channel
               PROVE  LET k == cache[c]
                          held == {k.narrow, k.wide} \cup (IF k.codec \in Codec THEN {k.wire} ELSE {})
                      IN \A s, t \in held \ {None} : s = t
    BY DEF OneFrame
  <2>1. PICK s \in Sound : Keeps(cache[c], s)
    BY DEF AudioInv, BundleInv
  <2> QED
    BY <2>1 DEF Keeps
<1> QED
  BY <1>1, AudioAlways, PTL

\* Whoever is in the mix, a channel is sent this tick's sound of all others and
\* never its own, a bridge carries what its legs say, and a channel that is not
\* mixed sends what it plays or echoes itself.
THEOREM MixesMinusOwn == Spec => []Sends
<1>1. AudioInv => Sends
  BY DEF AudioInv
<1> QED
  BY <1>1, AudioAlways, PTL

\* Recorders and readers take this tick's sound, each leg from its own side.
THEOREM TakesThisTick == Spec => []Takes
<1>1. AudioInv => Takes
  BY DEF AudioInv
<1> QED
  BY <1>1, AudioAlways, PTL
=============================================================================
