--------------------------- MODULE NetworkProofs ---------------------------
(***************************************************************************)
(* Proofs about Network, for any numbers of channels, ports, tries, pools  *)
(* and handshakes, and any ports of other processes.                       *)
(***************************************************************************)
EXTENDS Network, FiniteSetTheorems, TLAPS

\* What opens a channel has not been given it yet, and holds no port otherwise; a
\* reservation is of the port that the channel has bound; and without a pool there
\* is none.
OpeningInv ==
  /\ hand # None => opening # None
  /\ opening # None => life[opening] = "none"
  /\ \A c \in reserved : port[c] # None
  /\ inits = 0 => pool = <<>> /\ opening = None /\ hand = None /\ reserved = {}

TypeInv == TypeOK /\ OpeningInv

LEMMA ConstantsAreTyped ==
  /\ MaxChannels \in Nat /\ MaxPorts \in Nat /\ MaxTries \in Nat
  /\ MaxInits \in Nat /\ MaxHandshakes \in Nat
  /\ None \notin Channel /\ None \notin Port /\ None \notin Handshake
  BY NetworkAssumption DEF NetworkAssumption, Channel, Port, Handshake

\* An abort leaves every task typed.
LEMMA AbortTyped ==
  ASSUME TypeOK, NEW h \in Handshake \cup {None}
  PROVE  Abort(h) \in [Handshake -> {"none", "running", "aborted", "ended"}]
  BY ConstantsAreTyped DEF TypeOK, Abort

LEMMA InitTyped == Init => TypeInv
  BY ConstantsAreTyped DEF Init, TypeInv, TypeOK, OpeningInv

\* The steps that open a channel keep it typed.
LEMMA OpeningTyped ==
  ASSUME TypeInv, Opening
  PROVE  TypeInv'
<1> USE ConstantsAreTyped DEF TypeInv, OpeningInv
<1>1. CASE InitPool
  <2>1. pool' \in Seq(Port)
    BY <1>1 DEF InitPool, Port
  <2> QED
    BY <1>1, <2>1 DEF InitPool, TypeOK, sockets, shakes
<1>2. ASSUME NEW c \in Channel, OpenBegins(c)
      PROVE  TypeInv'
  BY <1>2 DEF OpenBegins, IsNext, TypeOK, sockets, shakes
<1>3. ASSUME NEW c \in Channel, OpenEphemeral(c)
      PROVE  TypeInv'
  <2>1. opening = None
    BY <1>3 DEF OpenEphemeral
  <2>2. CASE \E p \in Port : ~Bound(p) /\ Spawned(c, p)
    BY <1>3, <2>1, <2>2 DEF OpenEphemeral, Spawned, TypeOK, ports, shakes
  <2>3. CASE life' = [life EXCEPT ![c] = "failed"] /\ UNCHANGED <<port, recving, cancelled, swept>>
    BY <1>3, <2>1, <2>3 DEF OpenEphemeral, TypeOK, ports, shakes
  <2> QED
    BY <1>3, <2>2, <2>3 DEF OpenEphemeral
<1>4. CASE Acquire
  <2>1. Head(pool) \in Port /\ Tail(pool) \in Seq(Port)
    BY <1>4 DEF Acquire, TypeOK
  <2>2. tries' \in 0 .. MaxTries
    BY <1>4 DEF Acquire, TypeOK
  <2> QED
    BY <1>4, <2>1, <2>2 DEF Acquire, TypeOK, sockets, shakes
<1>5. CASE Binds
  <2>1. opening \in Channel /\ hand \in Port /\ inits # 0
    BY <1>5 DEF Binds, TypeOK
  <2>2. TypeOK'
    BY <1>5, <2>1 DEF Binds, Spawned, TypeOK, shakes
  <2> QED
    BY <1>5, <2>1, <2>2 DEF Binds, Spawned, TypeOK, shakes
<1>6. CASE BindFails
  <2>1. hand \in Port /\ inits # 0
    BY <1>6 DEF BindFails, TypeOK
  <2>2. pool' \in Seq(Port)
    BY <1>6, <2>1 DEF BindFails, TypeOK
  <2> QED
    BY <1>6, <2>1, <2>2 DEF BindFails, TypeOK, sockets, shakes
<1>7. CASE OpenFails
  BY <1>7 DEF OpenFails, TypeOK, shakes
<1> QED
  BY <1>1, <1>2, <1>3, <1>4, <1>5, <1>6, <1>7 DEF Opening

\* A state that is dropped gives its reservation back, once.
LEMMA DroppedTyped ==
  ASSUME TypeInv, NEW c \in Channel, Dropped(c), life[c] # "none", swept' \subseteq Channel
  PROVE  TypeInv'
<1> USE ConstantsAreTyped DEF TypeInv, OpeningInv
<1>1. pool' \in Seq(Port)
  BY DEF Dropped, TypeOK
<1>2. inits = 0 => c \notin reserved
  OBVIOUS
<1>3. TypeOK'
  BY <1>1 DEF Dropped, TypeOK
<1> QED
  BY <1>2, <1>3 DEF Dropped, TypeOK

\* The steps of a channel, and of the tasks beside it, keep it typed.
LEMMA ChannelTyped ==
  ASSUME TypeInv, NEW c \in Channel, ChannelStep(c)
  PROVE  TypeInv'
<1>1. CASE Remote(c)
  <2>1. PICK h \in Handshake :
          /\ task' = [Abort(shaking[c]) EXCEPT ![h] = "running"]
          /\ owner' = [owner EXCEPT ![h] = c]
          /\ feed' = [feed EXCEPT ![c] = h]
          /\ shaking' = [shaking EXCEPT ![c] = h]
    BY <1>1 DEF Remote
  <2>2. Abort(shaking[c]) \in [Handshake -> {"none", "running", "aborted", "ended"}]
    BY AbortTyped DEF TypeInv, TypeOK
  <2>3. task' \in [Handshake -> {"none", "running", "aborted", "ended"}]
    BY <2>1, <2>2
  <2> QED
    BY <1>1, <2>1, <2>3 DEF Remote, TypeInv, OpeningInv, TypeOK, ports, sockets
<1>2. CASE Poll(c)
  <2>1. shaking[c] \in 0 .. MaxHandshakes
    BY <1>2, ConstantsAreTyped DEF Poll, TypeInv, TypeOK, Handshake
  <2> QED
    BY <1>2, <2>1, ConstantsAreTyped DEF Poll, TypeInv, OpeningInv, TypeOK, ports, sockets
<1>3. CASE Mix(c)
  BY <1>3, ConstantsAreTyped DEF Mix, Alive, TypeInv, OpeningInv, TypeOK, ports, shakes
<1>4. CASE Teardown(c)
  <2>1. task' \in [Handshake -> {"none", "running", "aborted", "ended"}]
    BY <1>4, AbortTyped DEF Teardown, TypeInv, TypeOK
  <2> QED
    BY <1>4, <2>1, ConstantsAreTyped DEF Teardown, TypeInv, OpeningInv, TypeOK, ports
<1>5. CASE DropState(c)
  BY <1>5, DroppedTyped DEF DropState, TypeInv, TypeOK
<1>6. CASE Sweep(c)
  BY <1>6, DroppedTyped DEF Sweep, TypeInv, TypeOK
<1>7. CASE RecvLoopEnds(c)
  BY <1>7 DEF RecvLoopEnds, TypeInv, OpeningInv, TypeOK, ports, shakes
<1> QED
  BY <1>1, <1>2, <1>3, <1>4, <1>5, <1>6, <1>7 DEF ChannelStep

LEMMA HandshakeTyped ==
  ASSUME TypeInv, NEW h \in Handshake, HandshakeSucceeds(h) \/ HandshakeEnds(h)
  PROVE  TypeInv'
<1>1. task' \in [Handshake -> {"none", "running", "aborted", "ended"}]
  BY DEF HandshakeSucceeds, HandshakeEnds, TypeInv, TypeOK
<1>2. result' \in [Handshake -> {"none", "keys", "failed"}]
  BY DEF HandshakeSucceeds, HandshakeEnds, TypeInv, TypeOK
<1>3. UNCHANGED <<owner, feed, shaking, keys, ports, sockets>>
  BY DEF HandshakeSucceeds, HandshakeEnds
<1> QED
  BY <1>1, <1>2, <1>3 DEF TypeInv, OpeningInv, TypeOK, ports, sockets

LEMMA StepTyped == TypeInv /\ [Next]_vars => TypeInv'
<1> SUFFICES ASSUME TypeInv, [Next]_vars
             PROVE  TypeInv'
  OBVIOUS
<1>1. CASE UNCHANGED vars
  BY <1>1 DEF TypeInv, OpeningInv, TypeOK, vars, ports, sockets, shakes
<1> QED
  BY <1>1, OpeningTyped, ChannelTyped, HandshakeTyped DEF Next

\* Every variable stays in its range, for any numbers of channels and handshakes;
\* an open never takes more ports than MAX_POOL_TRIES.
THEOREM TypeCorrect == Spec => []TypeOK
<1>1. TypeInv => TypeOK
  BY DEF TypeInv
<1> QED
  BY InitTyped, StepTyped, <1>1, PTL DEF Spec

-----------------------------------------------------------------------------
(* One port, one channel. *)

\* Every step but a bind takes no socket.
LEMMA OnePortKept ==
  ASSUME TypeInv, OnePort, port' = port, \A c \in Channel : Held(c)' => Held(c)
  PROVE  OnePort'
  BY DEF OnePort

\* A bind gives a channel a port that no other channel holds.
LEMMA OnePortBound ==
  ASSUME TypeInv, OnePort, NEW c \in Channel, NEW p \in Port, ~Bound(p), Spawned(c, p),
         UNCHANGED shakes
  PROVE  OnePort'
<1>1. /\ port' = [port EXCEPT ![c] = p]
      /\ \A d \in Channel : d # c => port'[d] = port[d]
      /\ port'[c] = p
  BY DEF Spawned, TypeInv, TypeOK
<1>2. \A d \in Channel : d # c /\ Held(d)' => Held(d)
  BY DEF Spawned, Held, shakes, TypeInv, TypeOK
<1>3. \A d \in Channel : Held(d) => port[d] # p
  BY DEF Bound
<1> QED
  BY <1>1, <1>2, <1>3 DEF OnePort

LEMMA OnePortSteps ==
  ASSUME TypeInv, OnePort, [Next]_vars
  PROVE  OnePort'
<1> USE ConstantsAreTyped
<1>1. CASE UNCHANGED vars
  BY <1>1, OnePortKept DEF Held, vars, ports, sockets, shakes
<1>2. CASE InitPool \/ Acquire \/ BindFails \/ \E c \in Channel : OpenBegins(c)
  BY <1>2, OnePortKept DEF Held, InitPool, Acquire, BindFails, OpenBegins, sockets, shakes
<1>3. CASE Binds
  <2>1. opening \in Channel /\ hand \in Port
    BY <1>3 DEF Binds, TypeInv, OpeningInv, TypeOK
  <2> QED
    BY <1>3, <2>1, OnePortBound DEF Binds
<1>4. CASE OpenFails
  <2>1. opening \in Channel
    BY <1>4 DEF OpenFails, TypeInv, TypeOK
  <2> QED
    BY <1>4, <2>1, OnePortKept DEF Held, OpenFails, shakes, TypeInv, TypeOK
<1>5. ASSUME NEW c \in Channel, OpenEphemeral(c)
      PROVE  OnePort'
  <2>1. CASE \E p \in Port : ~Bound(p) /\ Spawned(c, p)
    BY <1>5, <2>1, OnePortBound DEF OpenEphemeral
  <2>2. CASE life' = [life EXCEPT ![c] = "failed"] /\ UNCHANGED <<port, recving, cancelled, swept>>
    BY <1>5, <2>2, OnePortKept DEF OpenEphemeral, Held, shakes, TypeInv, TypeOK
  <2> QED
    BY <1>5, <2>1, <2>2 DEF OpenEphemeral
<1>6. ASSUME NEW c \in Channel, Remote(c)
      PROVE  OnePort'
  <2>1. PICK h \in Handshake :
          /\ Unstarted(h)
          /\ task' = [Abort(shaking[c]) EXCEPT ![h] = "running"]
          /\ owner' = [owner EXCEPT ![h] = c]
    BY <1>6 DEF Remote
  <2>2. \A g \in Handshake : g # h /\ task'[g] \in {"running", "aborted"} =>
          task[g] \in {"running", "aborted"} /\ owner'[g] = owner[g]
    BY <2>1 DEF Abort, TypeInv, TypeOK
  <2>3. owner'[h] = c /\ Held(c)
    BY <1>6, <2>1 DEF Remote, Held, TypeInv, TypeOK
  <2>4. \A d \in Channel : Held(d)' => Held(d)
    BY <1>6, <2>2, <2>3 DEF Remote, Held, sockets
  <2> QED
    BY <1>6, <2>4, OnePortKept DEF Remote, sockets
<1>7. ASSUME NEW c \in Channel, Poll(c) \/ Mix(c) \/ DropState(c) \/ Sweep(c) \/ RecvLoopEnds(c)
      PROVE  OnePort'
  <2>1. \A d \in Channel : Held(d)' => Held(d)
    BY <1>7 DEF Poll, Mix, DropState, Sweep, Dropped, RecvLoopEnds, Alive, Held, ports, sockets,
      shakes, TypeInv, TypeOK
  <2> QED
    BY <1>7, <2>1, OnePortKept DEF Poll, Mix, DropState, Sweep, Dropped, RecvLoopEnds, sockets
<1>8. ASSUME NEW c \in Channel, Teardown(c)
      PROVE  OnePort'
  <2>1. \A d \in Channel : Held(d)' => Held(d)
    BY <1>8 DEF Teardown, Abort, Held, ports, TypeInv, TypeOK
  <2> QED
    BY <1>8, <2>1, OnePortKept DEF Teardown
<1>9. ASSUME NEW h \in Handshake, HandshakeSucceeds(h) \/ HandshakeEnds(h)
      PROVE  OnePort'
  <2>1. \A d \in Channel : Held(d)' => Held(d)
    BY <1>9 DEF HandshakeSucceeds, HandshakeEnds, Held, ports, sockets, TypeInv, TypeOK
  <2> QED
    BY <1>9, <2>1, OnePortKept DEF HandshakeSucceeds, HandshakeEnds, sockets
<1> QED
  BY <1>1, <1>2, <1>3, <1>4, <1>5, <1>6, <1>7, <1>8, <1>9 DEF Next, Opening, ChannelStep

-----------------------------------------------------------------------------
(* Nothing lost, nothing made. *)

\* Where a port stands in a queue.
PlacesOf(s, p) == {i \in 1 .. Len(s) : s[i] = p}
CountOf(s, p) == Cardinality(PlacesOf(s, p))

LEMMA PlacesFinite ==
  ASSUME NEW s \in Seq(Port), NEW p
  PROVE  /\ IsFiniteSet(PlacesOf(s, p))
         /\ CountOf(s, p) \in Nat
<1>1. Len(s) \in Nat
  OBVIOUS
<1>2. IsFiniteSet(1 .. Len(s))
  BY <1>1, FS_Interval
<1>3. PlacesOf(s, p) \in SUBSET (1 .. Len(s))
  BY DEF PlacesOf
<1>4. IsFiniteSet(PlacesOf(s, p))
  BY <1>2, <1>3, FS_Subset
<1> QED
  BY <1>4, FS_CardinalityType DEF CountOf

\* A port that is put at the end is counted once more.
LEMMA CountAppend ==
  ASSUME NEW s \in Seq(Port), NEW e \in Port, NEW p
  PROVE  CountOf(Append(s, e), p) = CountOf(s, p) + IF e = p THEN 1 ELSE 0
<1>1. IsFiniteSet(PlacesOf(s, p)) /\ Len(s) + 1 \notin PlacesOf(s, p) /\ CountOf(s, p) \in Nat
  BY PlacesFinite DEF PlacesOf
<1>2. CASE e = p
  <2>1. PlacesOf(Append(s, e), p) = PlacesOf(s, p) \cup {Len(s) + 1}
    BY <1>2 DEF PlacesOf
  <2> QED
    BY <1>1, <1>2, <2>1, FS_AddElement DEF CountOf
<1>3. CASE e # p
  <2>1. PlacesOf(Append(s, e), p) = PlacesOf(s, p)
    BY <1>3 DEF PlacesOf
  <2> QED
    BY <1>1, <1>3, <2>1 DEF CountOf
<1> QED
  BY <1>2, <1>3

\* The port that is taken from the front is counted once less.
LEMMA CountTail ==
  ASSUME NEW s \in Seq(Port), s # <<>>, NEW p
  PROVE  CountOf(s, p) = CountOf(Tail(s), p) + IF Head(s) = p THEN 1 ELSE 0
<1> DEFINE Later == PlacesOf(s, p) \ {1}
           Moved == [i \in PlacesOf(Tail(s), p) |-> i + 1]
<1>1. Tail(s) \in Seq(Port) /\ Len(s) \in Nat \ {0} /\ Len(Tail(s)) = Len(s) - 1
  OBVIOUS
<1>2. \A i \in 1 .. Len(s) - 1 : Tail(s)[i] = s[i + 1]
  OBVIOUS
<1>3. \A i \in PlacesOf(Tail(s), p) : i \in Nat /\ i + 1 \in Later
  BY <1>1, <1>2 DEF PlacesOf
<1>4. \A j \in Later : j \in Nat /\ j - 1 \in PlacesOf(Tail(s), p)
  BY <1>1, <1>2 DEF PlacesOf
<1>5. Moved \in [PlacesOf(Tail(s), p) -> Later]
  BY <1>3
<1>6. \A i, j \in PlacesOf(Tail(s), p) : Moved[i] = Moved[j] => i = j
  BY <1>3
<1>7. \A j \in Later : \E i \in PlacesOf(Tail(s), p) : Moved[i] = j
  <2> TAKE j \in Later
  <2>1. j - 1 \in PlacesOf(Tail(s), p) /\ j \in Nat
    BY <1>4
  <2>2. Moved[j - 1] = (j - 1) + 1
    BY <2>1
  <2> QED
    BY <2>1, <2>2
<1>8. Moved \in Bijection(PlacesOf(Tail(s), p), Later)
  <2> HIDE DEF Moved, Later
  <2> QED
    BY <1>5, <1>6, <1>7 DEF Bijection, Injection, Surjection, IsInjective
<1>9. IsFiniteSet(PlacesOf(Tail(s), p))
  BY <1>1, PlacesFinite
<1>10. Cardinality(Later) = CountOf(Tail(s), p)
  <2> HIDE DEF Moved, Later
  <2> QED
    BY <1>8, <1>9, FS_Bijection DEF ExistsBijection, CountOf
<1>11. IsFiniteSet(PlacesOf(s, p)) /\ CountOf(s, p) \in Nat
  BY PlacesFinite
<1>12. 1 \in PlacesOf(s, p) <=> Head(s) = p
  BY <1>1 DEF PlacesOf
<1>13. Cardinality(Later) = IF Head(s) = p THEN CountOf(s, p) - 1 ELSE CountOf(s, p)
  BY <1>11, <1>12, FS_RemoveElement DEF CountOf
<1> QED
  BY <1>10, <1>11, <1>13

\* A new pool has every port once.
LEMMA CountNew ==
  ASSUME NEW p \in Port
  PROVE  CountOf([i \in 1 .. MaxPorts |-> i], p) = 1
<1>1. [i \in 1 .. MaxPorts |-> i] \in Seq(Port) /\ Len([i \in 1 .. MaxPorts |-> i]) = MaxPorts
  BY ConstantsAreTyped DEF Port
<1>2. PlacesOf([i \in 1 .. MaxPorts |-> i], p) = {p}
  BY <1>1 DEF PlacesOf, Port
<1> QED
  BY <1>2, FS_Singleton DEF CountOf

\* The reservations of a port.
Owners(p) == {c \in reserved : port[c] = p}

LEMMA OwnersFinite ==
  ASSUME TypeInv, NEW p
  PROVE  IsFiniteSet(Owners(p)) /\ Cardinality(Owners(p)) \in Nat
<1>1. IsFiniteSet(Channel)
  BY ConstantsAreTyped, FS_Interval DEF Channel
<1>2. Owners(p) \in SUBSET Channel
  BY DEF Owners, TypeInv, TypeOK
<1>3. IsFiniteSet(Owners(p))
  BY <1>1, <1>2, FS_Subset
<1> QED
  BY <1>3, FS_CardinalityType

\* Where a port is, summed up.
Total(p) == CountOf(pool, p) + Cardinality(Owners(p)) + (IF hand = p THEN 1 ELSE 0)

\* A state that has a reservation is of a channel that was opened.
ReservedInv == \A c \in reserved : life[c] # "none"

PoolInv == ReservedInv /\ (inits > 0 => \A p \in Port : Total(p) \in 1 .. inits)

LEMMA PoolInvIsPoolExact == TypeInv => (PoolInv => PoolExact)
<1> SUFFICES ASSUME TypeInv, PoolInv, inits > 0, NEW p \in Port
             PROVE  InPool(p) + Taken(p) \in 1 .. inits
  BY DEF PoolExact
<1>1. CountOf(pool, p) \in Nat /\ Cardinality(Owners(p)) \in Nat
  BY PlacesFinite, OwnersFinite DEF TypeInv, TypeOK
<1>2. Total(p) = InPool(p) + Taken(p)
  BY <1>1 DEF Total, InPool, Taken, CountOf, PlacesOf, Owners
<1> QED
  BY <1>2 DEF PoolInv

\* Where nothing moves, the sum is as it was.
LEMMA TotalKept ==
  ASSUME TypeInv, PoolInv, inits' = inits, pool' = pool, hand' = hand, reserved' = reserved,
         \A c \in reserved : port'[c] = port[c] /\ life'[c] # "none"
  PROVE  PoolInv'
<1>1. \A p \in Port : Owners(p)' = Owners(p)
  BY DEF Owners
<1>2. \A p \in Port : Total(p)' = Total(p)
  BY <1>1 DEF Total
<1> QED
  BY <1>2 DEF PoolInv, ReservedInv

LEMMA TotalNew ==
  ASSUME TypeInv, PoolInv, InitPool
  PROVE  PoolInv'
<1> SUFFICES ASSUME NEW p \in Port
             PROVE  Total(p)' \in 1 .. inits + 1
  BY DEF PoolInv, ReservedInv, InitPool, sockets
<1>1. CountOf(pool, p) \in Nat /\ Cardinality(Owners(p)) \in Nat /\ inits \in Nat
  BY PlacesFinite, OwnersFinite DEF TypeInv, TypeOK
<1>2. Cardinality(Owners(p)) + (IF hand = p THEN 1 ELSE 0) \in 0 .. inits
  <2>1. CASE inits = 0
    <3>1. Owners(p) = {} /\ hand # p
      BY <2>1, ConstantsAreTyped DEF TypeInv, OpeningInv, Owners
    <3> QED
      BY <2>1, <3>1, FS_EmptySet
  <2>2. CASE inits > 0
    BY <1>1, <2>2 DEF PoolInv, Total
  <2> QED
    BY <1>1, <2>1, <2>2
<1>3. Total(p)' = 1 + Cardinality(Owners(p)) + (IF hand = p THEN 1 ELSE 0)
  BY CountNew DEF Total, InitPool, Owners, sockets
<1> QED
  BY <1>1, <1>2, <1>3

LEMMA TotalAcquired ==
  ASSUME TypeInv, PoolInv, Acquire
  PROVE  PoolInv'
<1> SUFFICES ASSUME NEW p \in Port
             PROVE  Total(p)' = Total(p)
  BY DEF PoolInv, ReservedInv, Acquire, sockets
<1>1. pool \in Seq(Port) /\ pool # <<>> /\ hand # p
  BY ConstantsAreTyped DEF Acquire, TypeInv, TypeOK
<1>2. CountOf(pool, p) = CountOf(Tail(pool), p) + IF Head(pool) = p THEN 1 ELSE 0
  BY <1>1, CountTail
<1>3. CountOf(Tail(pool), p) \in Nat /\ Cardinality(Owners(p)) \in Nat
  <2>1. Tail(pool) \in Seq(Port)
    BY <1>1
  <2> QED
    BY <2>1, PlacesFinite, OwnersFinite
<1>4. Owners(p)' = Owners(p)
  BY DEF Owners, Acquire, sockets
<1>5. Total(p)' = CountOf(Tail(pool), p) + Cardinality(Owners(p)) + (IF Head(pool) = p THEN 1 ELSE 0)
  BY <1>4 DEF Total, Acquire
<1> QED
  BY <1>1, <1>2, <1>3, <1>5 DEF Total

LEMMA TotalReturned ==
  ASSUME TypeInv, PoolInv, BindFails
  PROVE  PoolInv'
<1> SUFFICES ASSUME NEW p \in Port
             PROVE  Total(p)' = Total(p)
  BY DEF PoolInv, ReservedInv, BindFails, sockets
<1>1. pool \in Seq(Port) /\ hand \in Port
  BY DEF BindFails, TypeInv, TypeOK
<1>2. CountOf(Append(pool, hand), p) = CountOf(pool, p) + IF hand = p THEN 1 ELSE 0
  BY <1>1, CountAppend
<1>3. CountOf(pool, p) \in Nat /\ Cardinality(Owners(p)) \in Nat
  BY <1>1, PlacesFinite, OwnersFinite
<1>4. Owners(p)' = Owners(p)
  BY DEF Owners, BindFails, sockets
<1>5. Total(p)' = CountOf(Append(pool, hand), p) + Cardinality(Owners(p)) + 0
  BY <1>4, ConstantsAreTyped DEF Total, BindFails
<1> QED
  BY <1>2, <1>3, <1>5 DEF Total

LEMMA TotalBound ==
  ASSUME TypeInv, PoolInv, Binds
  PROVE  PoolInv'
<1>1. opening \in Channel /\ hand \in Port /\ life[opening] = "none" /\ opening \notin reserved
  BY DEF Binds, TypeInv, OpeningInv, TypeOK, PoolInv, ReservedInv
<1>2. port'[opening] = hand /\ \A c \in reserved : port'[c] = port[c]
  BY <1>1 DEF Binds, Spawned, TypeInv, TypeOK
<1>3. reserved' = reserved \cup {opening} /\ pool' = pool /\ hand' = None /\ inits' = inits
  BY DEF Binds
<1>4. \A c \in reserved' : life'[c] # "none"
  BY <1>1, <1>3 DEF Binds, Spawned, TypeInv, TypeOK, PoolInv, ReservedInv
<1>5. ASSUME NEW p \in Port
      PROVE  Total(p)' = Total(p)
  <2>1. /\ CountOf(pool, p) \in Nat /\ IsFiniteSet(Owners(p)) /\ Cardinality(Owners(p)) \in Nat
        /\ opening \notin Owners(p)
    BY <1>1, PlacesFinite, OwnersFinite DEF TypeInv, TypeOK, Owners
  <2>2. Owners(p)' = IF hand = p THEN Owners(p) \cup {opening} ELSE Owners(p)
    BY <1>1, <1>2, <1>3 DEF Owners
  <2>3. Cardinality(Owners(p)') = Cardinality(Owners(p)) + IF hand = p THEN 1 ELSE 0
    <3>1. Cardinality(Owners(p) \cup {opening}) = Cardinality(Owners(p)) + 1
      BY <2>1, FS_AddElement
    <3> QED
      BY <2>1, <2>2, <3>1
  <2>4. Total(p)' = CountOf(pool, p) + Cardinality(Owners(p)') + 0
    BY <1>3, ConstantsAreTyped DEF Total
  <2> QED
    BY <2>1, <2>3, <2>4 DEF Total
<1> QED
  BY <1>3, <1>4, <1>5 DEF PoolInv, ReservedInv

\* A state that is dropped puts its port back.
LEMMA TotalDropped ==
  ASSUME TypeInv, PoolInv, NEW c \in Channel, Dropped(c)
  PROVE  PoolInv'
<1>1. port' = port /\ reserved' = reserved \ {c} /\ inits' = inits /\ hand' = hand
  BY DEF Dropped
<1>2. ReservedInv'
  BY <1>1 DEF Dropped, TypeInv, TypeOK, PoolInv, ReservedInv
<1>3. CASE c \notin reserved
  <2>1. pool' = pool /\ reserved' = reserved
    BY <1>1, <1>3 DEF Dropped
  <2>2. \A p \in Port : Total(p)' = Total(p)
    BY <1>1, <2>1 DEF Total, Owners
  <2> QED
    BY <1>1, <1>2, <2>2 DEF PoolInv
<1>4. ASSUME c \in reserved, NEW p \in Port
      PROVE  Total(p)' = Total(p)
  <2>1. pool \in Seq(Port) /\ port[c] \in Port
    BY <1>4 DEF TypeInv, OpeningInv, TypeOK
  <2>2. CountOf(pool', p) = CountOf(pool, p) + IF port[c] = p THEN 1 ELSE 0
    BY <1>4, <2>1, CountAppend DEF Dropped
  <2>3. /\ CountOf(pool, p) \in Nat /\ IsFiniteSet(Owners(p)) /\ Cardinality(Owners(p)) \in Nat
        /\ c \in Owners(p) <=> port[c] = p
    BY <1>4, <2>1, PlacesFinite, OwnersFinite DEF Owners
  <2>4. Owners(p)' = Owners(p) \ {c}
    BY <1>1 DEF Owners
  <2>5. Cardinality(Owners(p)') = Cardinality(Owners(p)) - IF port[c] = p THEN 1 ELSE 0
    <3>1. Cardinality(Owners(p) \ {c}) =
            IF c \in Owners(p) THEN Cardinality(Owners(p)) - 1 ELSE Cardinality(Owners(p))
      BY <2>3, FS_RemoveElement
    <3> QED
      BY <2>3, <2>4, <3>1
  <2>6. Total(p)' = CountOf(pool', p) + Cardinality(Owners(p)') + (IF hand = p THEN 1 ELSE 0)
    BY <1>1 DEF Total
  <2> QED
    BY <2>2, <2>3, <2>5, <2>6 DEF Total
<1> QED
  BY <1>1, <1>2, <1>3, <1>4 DEF PoolInv

LEMMA PoolSteps ==
  ASSUME TypeInv, PoolInv, [Next]_vars
  PROVE  PoolInv'
<1> USE ConstantsAreTyped
<1>1. CASE UNCHANGED vars
  BY <1>1, TotalKept DEF vars, ports, sockets, PoolInv, ReservedInv
<1>2. CASE InitPool \/ Acquire \/ BindFails \/ Binds
  BY <1>2, TotalNew, TotalAcquired, TotalReturned, TotalBound
<1>3. CASE OpenFails
  BY <1>3, TotalKept DEF OpenFails, TypeInv, TypeOK, PoolInv, ReservedInv
<1>4. ASSUME NEW c \in Channel, OpenBegins(c)
      PROVE  PoolInv'
  BY <1>4, TotalKept DEF OpenBegins, sockets, PoolInv, ReservedInv
<1>5. ASSUME NEW c \in Channel, OpenEphemeral(c)
      PROVE  PoolInv'
  BY <1>5, TotalKept DEF OpenEphemeral, ports, TypeInv, OpeningInv, PoolInv, ReservedInv
<1>6. ASSUME NEW c \in Channel, ChannelStep(c)
      PROVE  PoolInv'
  <2>1. CASE Remote(c) \/ Poll(c) \/ RecvLoopEnds(c)
    BY <2>1, TotalKept DEF Remote, Poll, RecvLoopEnds, ports, sockets, PoolInv, ReservedInv
  <2>2. CASE Mix(c) \/ Teardown(c)
    BY <2>2, TotalKept DEF Mix, Teardown, ports, TypeInv, TypeOK, PoolInv, ReservedInv
  <2>3. CASE DropState(c) \/ Sweep(c)
    BY <2>3, TotalDropped DEF DropState, Sweep
  <2> QED
    BY <1>6, <2>1, <2>2, <2>3 DEF ChannelStep
<1>7. ASSUME NEW h \in Handshake, HandshakeSucceeds(h) \/ HandshakeEnds(h)
      PROVE  PoolInv'
  BY <1>7, TotalKept DEF HandshakeSucceeds, HandshakeEnds, ports, sockets, PoolInv, ReservedInv
<1> QED
  BY <1>1, <1>2, <1>3, <1>4, <1>5, <1>6, <1>7 DEF Next, Opening

\* However many channels are opened, fail to bind, end, or are swept, and however often
\* the pool is made anew: no port of the pool is lost or made, and no two channels
\* have one bound.
THEOREM PortsStayExact == Spec => []PortsExact
<1>1. Init => OnePort
  BY ConstantsAreTyped DEF Init, OnePort, Held
<1>2. Init => PoolInv
  BY DEF Init, PoolInv, ReservedInv
<1>3. TypeInv /\ OnePort /\ PoolInv /\ [Next]_vars => (OnePort /\ PoolInv)'
  BY OnePortSteps, PoolSteps
<1>4. TypeInv /\ OnePort /\ PoolInv => PortsExact
  BY PoolInvIsPoolExact DEF PortsExact
<1> QED
  BY InitTyped, StepTyped, <1>1, <1>2, <1>3, <1>4, PTL DEF Spec

-----------------------------------------------------------------------------
(* Handshakes and keys. *)

\* Handshakes are started in the order of their numbers, each for a channel that was
\* opened, and have their result when they end.
StartedInv ==
  /\ \A h \in Handshake : result[h] # "none" => task[h] = "ended"
  /\ \A h \in Handshake : task[h] = "none" <=> owner[h] = None
  /\ \A g, h \in Handshake : g < h /\ task[h] # "none" => task[g] # "none"
  /\ \A h \in Handshake : owner[h] # None => life[owner[h]] # "none"
  /\ \A c \in swept : life[c] = "gone"

\* What a channel waits for is a handshake of its own, newer than its keys; and one
\* is aborted for a newer one, or because the channel ends.
ShakingInv ==
  /\ \A c \in Channel : shaking[c] # None => owner[shaking[c]] = c /\ keys[c] < shaking[c]
  /\ \A c \in Channel : keys[c] # 0 => keys[c] \in Handshake /\ task[keys[c]] # "none"
  /\ \A h \in Handshake : task[h] = "aborted" /\ Alive(owner[h]) =>
       \E g \in Handshake : g > h /\ owner[g] = owner[h]

KeysInv == StartedInv /\ ShakingInv /\ KeysInTime

LEMMA InitKeys == Init => KeysInv
  BY ConstantsAreTyped
  DEF Init, KeysInv, StartedInv, ShakingInv, KeysInTime, OneHandshake, KeysOfLast

\* A step that leaves the handshakes alone, and makes nothing alive that was opened
\* before, or swept.
LEMMA KeysKept ==
  ASSUME TypeInv, KeysInv, UNCHANGED shakes, swept' = swept,
         \A c \in Channel :
           \/ life'[c] = life[c]
           \/ life[c] = "none" /\ life'[c] # "none"
           \/ Alive(c) /\ Alive(c)'
  PROVE  KeysInv'
<1> USE ConstantsAreTyped DEF shakes
<1>1. \A h \in Handshake : owner[h] # None => owner[h] \in Channel
  BY DEF TypeInv, TypeOK
<1>2. \A h \in Handshake : owner[h] # None => (Alive(owner[h]) <=> Alive(owner[h])')
  BY <1>1 DEF Alive, KeysInv, StartedInv
<1>3. StartedInv'
  BY <1>1 DEF KeysInv, StartedInv, Alive, TypeInv, TypeOK
<1>4. \A h \in Handshake : task[h] # "none" => owner[h] # None
  BY DEF KeysInv, StartedInv
<1>5. ShakingInv'
  BY <1>2, <1>4 DEF KeysInv, ShakingInv
<1>6. KeysInTime'
  BY <1>2, <1>4 DEF KeysInv, KeysInTime, OneHandshake, KeysOfLast
<1> QED
  BY <1>3, <1>5, <1>6 DEF KeysInv

LEMMA KeysOpening ==
  ASSUME TypeInv, KeysInv, Opening
  PROVE  KeysInv'
<1>1. CASE InitPool \/ Acquire \/ BindFails \/ \E c \in Channel : OpenBegins(c)
  BY <1>1, KeysKept DEF InitPool, Acquire, BindFails, OpenBegins, sockets
<1>2. CASE Binds
  <2>1. opening \in Channel /\ life[opening] = "none"
    BY <1>2 DEF Binds, TypeInv, OpeningInv, TypeOK
  <2> QED
    BY <1>2, <2>1, KeysKept DEF Binds, Spawned, TypeInv, TypeOK
<1>3. CASE OpenFails
  <2>1. opening \in Channel /\ life[opening] = "none"
    BY <1>3 DEF OpenFails, TypeInv, OpeningInv, TypeOK
  <2> QED
    BY <1>3, <2>1, KeysKept DEF OpenFails, TypeInv, TypeOK
<1>4. ASSUME NEW c \in Channel, OpenEphemeral(c)
      PROVE  KeysInv'
  BY <1>4, KeysKept DEF OpenEphemeral, IsNext, Spawned, TypeInv, TypeOK
<1> QED
  BY <1>1, <1>2, <1>3, <1>4 DEF Opening

LEMMA KeysRemote ==
  ASSUME TypeInv, KeysInv, NEW c \in Channel, Remote(c)
  PROVE  KeysInv'
<1> USE ConstantsAreTyped DEF Handshake, Channel
<1>1. PICK n \in Handshake :
        /\ Unstarted(n)
        /\ task' = [Abort(shaking[c]) EXCEPT ![n] = "running"]
        /\ owner' = [owner EXCEPT ![n] = c]
        /\ feed' = [feed EXCEPT ![c] = n]
        /\ shaking' = [shaking EXCEPT ![c] = n]
  BY DEF Remote
<1>2. /\ task[n] = "none" /\ owner[n] = None /\ result[n] = "none"
      /\ \A g \in Handshake : task[g] # "none" => g < n
  BY <1>1 DEF Unstarted, KeysInv, StartedInv, TypeInv, TypeOK
<1>3. /\ UNCHANGED <<result, keys, life, swept>>
      /\ Alive(c) /\ c \notin swept
  BY DEF Remote, sockets, Alive, KeysInv, StartedInv
<1>4. /\ task'[n] = "running" /\ owner'[n] = c
      /\ feed'[c] = n /\ shaking'[c] = n
      /\ \A d \in Channel : d # c => shaking'[d] = shaking[d] /\ feed'[d] = feed[d]
  BY <1>1, AbortTyped DEF TypeInv, TypeOK
<1>5. \A g \in Handshake : g # n =>
        /\ owner'[g] = owner[g]
        /\ task'[g] = IF g = shaking[c] /\ task[g] = "running" THEN "aborted" ELSE task[g]
  BY <1>1 DEF Abort, TypeInv, TypeOK
<1>6. StartedInv'
  <2>1. \A h \in Handshake : result'[h] # "none" => task'[h] = "ended"
    BY <1>2, <1>3, <1>5 DEF KeysInv, StartedInv
  <2>2. \A h \in Handshake : task'[h] = "none" <=> owner'[h] = None
    BY <1>4, <1>5 DEF KeysInv, StartedInv
  <2>3. \A h \in Handshake : task'[h] = "none" <=> h # n /\ task[h] = "none"
    BY <1>4, <1>5
  <2>4. \A g, h \in Handshake : g < h /\ task'[h] # "none" => task'[g] # "none"
    BY <1>1, <1>2, <2>3 DEF Unstarted, KeysInv, StartedInv
  <2>5. \A h \in Handshake : owner'[h] # None => life'[owner'[h]] # "none"
    BY <1>3, <1>4, <1>5 DEF KeysInv, StartedInv, Alive
  <2> QED
    BY <1>3, <2>1, <2>2, <2>4, <2>5 DEF KeysInv, StartedInv
<1>7. ShakingInv'
  <2>1. \A d \in Channel : keys[d] # 0 => keys[d] \in Handshake /\ task[keys[d]] # "none" /\ keys[d] < n
    BY <1>2 DEF KeysInv, ShakingInv
  <2>2. \A d \in Channel : keys'[d] # 0 => keys'[d] \in Handshake /\ task'[keys'[d]] # "none"
    BY <1>3, <1>4, <1>5, <2>1
  <2>3. keys[c] < n
    BY <2>1 DEF TypeInv, TypeOK
  <2>4. \A d \in Channel : shaking'[d] # None => owner'[shaking'[d]] = d /\ keys'[d] < shaking'[d]
    <3> SUFFICES ASSUME NEW d \in Channel, shaking'[d] # None
                 PROVE  owner'[shaking'[d]] = d /\ keys'[d] < shaking'[d]
      OBVIOUS
    <3>1. CASE d = c
      BY <3>1, <1>3, <1>4, <2>3
    <3>2. CASE d # c
      <4>1. shaking'[d] = shaking[d] /\ shaking[d] \in Handshake
        BY <3>2, <1>4 DEF TypeInv, TypeOK
      <4>2. owner[shaking[d]] = d /\ keys[d] < shaking[d]
        BY <4>1 DEF KeysInv, ShakingInv
      <4>3. shaking[d] # n
        BY <4>2, <1>2
      <4> QED
        BY <4>1, <4>2, <4>3, <1>3, <1>5
    <3> QED
      BY <3>1, <3>2
  <2>5. \A h \in Handshake : task'[h] = "aborted" /\ Alive(owner'[h]) =>
          \E g \in Handshake : g > h /\ owner'[g] = owner'[h]
    <3> SUFFICES ASSUME NEW h \in Handshake, task'[h] = "aborted", Alive(owner'[h])
                 PROVE  \E g \in Handshake : g > h /\ owner'[g] = owner'[h]
      OBVIOUS
    <3>1. h # n /\ owner'[h] = owner[h] /\ task[h] # "none"
      BY <1>4, <1>5
    <3>2. CASE owner[h] = c
      BY <3>1, <3>2, <1>2, <1>4
    <3>3. CASE owner[h] # c
      <4>1. task[h] = "aborted"
        BY <3>1, <3>3, <1>5 DEF KeysInv, ShakingInv
      <4>2. PICK g \in Handshake : g > h /\ owner[g] = owner[h]
        BY <3>1, <4>1, <1>3 DEF KeysInv, ShakingInv, Alive
      <4>3. g # n
        BY <3>1, <4>2, <1>2 DEF KeysInv, StartedInv
      <4> QED
        BY <3>1, <4>2, <4>3, <1>5
    <3> QED
      BY <3>2, <3>3
  <2> QED
    BY <1>3, <2>2, <2>4, <2>5 DEF ShakingInv, Alive
<1>8. OneHandshake'
  <2> SUFFICES ASSUME NEW h \in Handshake, task'[h] = "running"
               PROVE  \/ Alive(owner'[h]) /\ shaking'[owner'[h]] = h /\ feed'[owner'[h]] = h
                      \/ owner'[h] \in swept'
    BY <1>3 DEF OneHandshake, Alive
  <2>1. CASE h = n
    BY <2>1, <1>3, <1>4 DEF Alive
  <2>2. CASE h # n
    <3>1. task[h] = "running" /\ shaking[c] # h /\ owner'[h] = owner[h]
      BY <2>2, <1>5
    <3>2. \/ Alive(owner[h]) /\ shaking[owner[h]] = h /\ feed[owner[h]] = h
          \/ owner[h] \in swept
      BY <3>1 DEF KeysInv, KeysInTime, OneHandshake
    <3>3. owner[h] \in Channel
      BY <3>1 DEF KeysInv, StartedInv, TypeInv, TypeOK
    <3>4. owner[h] # c
      BY <3>1, <3>2, <1>3
    <3> QED
      BY <3>1, <3>2, <3>3, <3>4, <1>3, <1>4 DEF Alive
  <2> QED
    BY <2>1, <2>2
<1>9. KeysOfLast'
  <2> SUFFICES ASSUME NEW h \in Handshake, owner'[h] # None, Alive(owner'[h]), result'[h] = "keys"
               PROVE  \/ keys'[owner'[h]] >= h
                      \/ shaking'[owner'[h]] = h
                      \/ \E g \in Handshake : g > h /\ owner'[g] = owner'[h]
    BY <1>3 DEF KeysOfLast, Alive
  <2>1. h # n /\ owner'[h] = owner[h] /\ task[h] # "none" /\ owner[h] \in Channel
    BY <1>2, <1>3, <1>5 DEF KeysInv, StartedInv, TypeInv, TypeOK
  <2>2. CASE owner[h] = c
    BY <2>1, <2>2, <1>2, <1>4
  <2>3. CASE owner[h] # c
    <3>1. \/ keys[owner[h]] >= h
          \/ shaking[owner[h]] = h
          \/ \E g \in Handshake : g > h /\ owner[g] = owner[h]
      BY <2>1, <1>3 DEF KeysInv, KeysInTime, KeysOfLast, Alive
    <3>2. \A g \in Handshake : owner[g] = owner[h] => g # n
      BY <2>1, <1>2, ConstantsAreTyped
    <3> QED
      BY <2>1, <2>3, <3>1, <3>2, <1>3, <1>4, <1>5
  <2> QED
    BY <2>2, <2>3
<1> QED
  BY <1>6, <1>7, <1>8, <1>9 DEF KeysInv, KeysInTime

LEMMA KeysPoll ==
  ASSUME TypeInv, KeysInv, NEW c \in Channel, Poll(c)
  PROVE  KeysInv'
<1> USE ConstantsAreTyped DEF Handshake, Channel
<1> DEFINE s == shaking[c]
<1>1. /\ s \in Handshake /\ owner[s] = c /\ keys[c] < s /\ result[s] # "none" /\ task[s] = "ended"
      /\ keys[c] \in Nat
  BY DEF Poll, KeysInv, ShakingInv, StartedInv, TypeInv, TypeOK
<1>2. /\ shaking'[c] = None /\ keys'[c] = (IF result[s] = "keys" THEN s ELSE keys[c])
      /\ \A d \in Channel : d # c => shaking'[d] = shaking[d] /\ keys'[d] = keys[d]
      /\ UNCHANGED <<task, owner, result, feed, life, swept>>
  BY DEF Poll, sockets, TypeInv, TypeOK
<1>3. StartedInv'
  BY <1>2 DEF KeysInv, StartedInv
<1>4. ShakingInv'
  BY <1>1, <1>2 DEF KeysInv, ShakingInv, Alive
<1>5. OneHandshake'
  <2> SUFFICES ASSUME NEW h \in Handshake, task[h] = "running"
               PROVE  \/ Alive(owner[h]) /\ shaking'[owner[h]] = h /\ feed[owner[h]] = h
                      \/ owner[h] \in swept
    BY <1>2 DEF OneHandshake, Alive
  <2>1. \/ Alive(owner[h]) /\ shaking[owner[h]] = h /\ feed[owner[h]] = h
        \/ owner[h] \in swept
    BY DEF KeysInv, KeysInTime, OneHandshake
  <2>2. h # s /\ owner[h] \in Channel
    BY <1>1 DEF KeysInv, StartedInv, TypeInv, TypeOK
  <2> QED
    BY <1>2, <2>1, <2>2
<1>6. KeysOfLast'
  <2> SUFFICES ASSUME NEW h \in Handshake, owner[h] # None, Alive(owner[h]), result[h] = "keys"
               PROVE  \/ keys'[owner[h]] >= h
                      \/ shaking'[owner[h]] = h
                      \/ \E g \in Handshake : g > h /\ owner[g] = owner[h]
    BY <1>2 DEF KeysOfLast, Alive
  <2>1. \/ keys[owner[h]] >= h
        \/ shaking[owner[h]] = h
        \/ \E g \in Handshake : g > h /\ owner[g] = owner[h]
    BY DEF KeysInv, KeysInTime, KeysOfLast
  <2>2. owner[h] \in Channel
    BY DEF TypeInv, TypeOK
  <2> QED
    BY <1>1, <1>2, <2>1, <2>2
<1> QED
  BY <1>3, <1>4, <1>5, <1>6 DEF KeysInv, KeysInTime

LEMMA KeysTeardown ==
  ASSUME TypeInv, KeysInv, NEW c \in Channel, Teardown(c)
  PROVE  KeysInv'
<1> USE ConstantsAreTyped
<1>1. /\ life[c] = "local" /\ ~Alive(c)' /\ life'[c] = "ending"
      /\ \A d \in Channel : d # c => life'[d] = life[d] /\ feed'[d] = feed[d]
      /\ UNCHANGED <<owner, result, shaking, keys, swept>>
  BY DEF Teardown, Alive, TypeInv, TypeOK
<1>2. \A h \in Handshake :
        task'[h] = IF h = shaking[c] /\ task[h] = "running" THEN "aborted" ELSE task[h]
  BY DEF Teardown, Abort, TypeInv, TypeOK
<1>3. \A h \in Handshake : owner[h] # None => owner[h] \in Channel
  BY DEF TypeInv, TypeOK
<1>4. \A h \in Handshake : task[h] # "none" /\ life'[owner[h]] \in {"local", "mixed"} =>
        owner[h] # c /\ Alive(owner[h])
  BY <1>1, <1>3 DEF Alive, KeysInv, StartedInv
<1>5. \A h \in Handshake : h = shaking[c] => owner[h] = c
  BY DEF KeysInv, ShakingInv, Handshake
<1>6. StartedInv'
  <2>1. \A h \in Handshake : task'[h] = "none" <=> task[h] = "none"
    BY <1>2
  <2>2. \A h \in Handshake : result[h] # "none" => task'[h] = "ended"
    BY <1>2 DEF KeysInv, StartedInv
  <2>3. \A d \in swept : life'[d] = "gone"
    BY <1>1 DEF KeysInv, StartedInv, TypeInv, TypeOK
  <2> QED
    BY <1>1, <1>3, <2>1, <2>2, <2>3 DEF KeysInv, StartedInv
<1>7. ShakingInv'
  BY <1>1, <1>2, <1>4, <1>5 DEF KeysInv, ShakingInv, Alive
<1>8. OneHandshake'
  <2> SUFFICES ASSUME NEW h \in Handshake, task'[h] = "running"
               PROVE  \/ life'[owner[h]] \in {"local", "mixed"} /\ shaking[owner[h]] = h /\ feed'[owner[h]] = h
                      \/ owner[h] \in swept
    BY <1>1 DEF OneHandshake, Alive
  <2>1. task[h] = "running" /\ shaking[c] # h /\ owner[h] \in Channel
    BY <1>2, <1>3 DEF KeysInv, StartedInv
  <2>2. \/ Alive(owner[h]) /\ shaking[owner[h]] = h /\ feed[owner[h]] = h
        \/ owner[h] \in swept
    BY <2>1 DEF KeysInv, KeysInTime, OneHandshake
  <2> QED
    BY <1>1, <2>1, <2>2 DEF Alive
<1>9. KeysOfLast'
  <2>1. \A h \in Handshake : result[h] = "keys" => task[h] # "none"
    BY DEF KeysInv, StartedInv
  <2> QED
    BY <1>1, <1>4, <2>1 DEF KeysInv, KeysInTime, KeysOfLast, Alive
<1> QED
  BY <1>6, <1>7, <1>8, <1>9 DEF KeysInv, KeysInTime

\* A state that is dropped is no more waited for; the mixer remembers whom it swept.
LEMMA KeysDropped ==
  ASSUME TypeInv, KeysInv, NEW c \in Channel, DropState(c) \/ Sweep(c)
  PROVE  KeysInv'
<1> USE ConstantsAreTyped
<1>1. /\ life'[c] = "gone" /\ shaking'[c] = None /\ keys'[c] = 0
      /\ \A d \in Channel : d # c => /\ life'[d] = life[d] /\ shaking'[d] = shaking[d]
                                     /\ keys'[d] = keys[d]
      /\ UNCHANGED <<task, owner, result, feed>>
      /\ life[c] # "none" /\ swept' \subseteq swept \cup {c} /\ swept \subseteq swept'
  BY DEF DropState, Sweep, Dropped, TypeInv, TypeOK
<1>2. \A h \in Handshake : owner[h] # None => owner[h] \in Channel
  BY DEF TypeInv, TypeOK
<1>3. \A h \in Handshake : task[h] # "none" /\ life'[owner[h]] \in {"local", "mixed"} =>
        owner[h] # c /\ owner[h] \in Channel /\ Alive(owner[h])
  BY <1>1, <1>2 DEF Alive, KeysInv, StartedInv
<1>4. StartedInv'
  <2>1. \A d \in swept' : life'[d] = "gone"
    BY <1>1 DEF KeysInv, StartedInv, TypeInv, TypeOK
  <2> QED
    BY <1>1, <1>2, <2>1 DEF KeysInv, StartedInv
<1>5. ShakingInv'
  BY <1>1, <1>3 DEF KeysInv, ShakingInv, Alive
<1>6. OneHandshake'
  <2> SUFFICES ASSUME NEW h \in Handshake, task[h] = "running"
               PROVE  \/ life'[owner[h]] \in {"local", "mixed"} /\ shaking'[owner[h]] = h /\ feed[owner[h]] = h
                      \/ owner[h] \in swept'
    BY <1>1 DEF OneHandshake, Alive
  <2>1. owner[h] \in Channel
    BY <1>2 DEF KeysInv, StartedInv
  <2>2. \/ Alive(owner[h]) /\ shaking[owner[h]] = h /\ feed[owner[h]] = h
        \/ owner[h] \in swept
    BY DEF KeysInv, KeysInTime, OneHandshake
  <2>3. CASE owner[h] # c
    BY <1>1, <2>1, <2>2, <2>3 DEF Alive
  <2>4. CASE owner[h] = c
    <3>1. c \in swept \/ Alive(c)
      BY <2>2, <2>4
    <3> QED
      BY <2>4, <3>1 DEF DropState, Sweep, Alive, KeysInv, StartedInv
  <2> QED
    BY <2>3, <2>4
<1>7. KeysOfLast'
  <2>1. \A h \in Handshake : result[h] = "keys" => task[h] # "none"
    BY DEF KeysInv, StartedInv
  <2> QED
    BY <1>1, <1>3, <2>1 DEF KeysInv, KeysInTime, KeysOfLast, Alive
<1> QED
  BY <1>4, <1>5, <1>6, <1>7 DEF KeysInv, KeysInTime

LEMMA KeysHandshake ==
  ASSUME TypeInv, KeysInv, NEW h \in Handshake, HandshakeSucceeds(h) \/ HandshakeEnds(h)
  PROVE  KeysInv'
<1> USE ConstantsAreTyped
<1>1. /\ task[h] \in {"running", "aborted"} /\ task'[h] = "ended"
      /\ \A g \in Handshake : g # h => task'[g] = task[g] /\ result'[g] = result[g]
      /\ UNCHANGED <<owner, feed, shaking, keys, life, swept>>
  BY DEF HandshakeSucceeds, HandshakeEnds, sockets, TypeInv, TypeOK
<1>2. \A g \in Handshake : task'[g] = "none" <=> task[g] = "none"
  BY <1>1
<1>3. StartedInv'
  <2>1. \A g \in Handshake : result'[g] # "none" => task'[g] = "ended"
    BY <1>1 DEF KeysInv, StartedInv
  <2> QED
    BY <1>1, <1>2, <2>1 DEF KeysInv, StartedInv
<1>4. ShakingInv'
  BY <1>1, <1>2 DEF KeysInv, ShakingInv, Alive
<1>5. OneHandshake'
  BY <1>1 DEF KeysInv, KeysInTime, OneHandshake, Alive
<1>6. KeysOfLast'
  <2> SUFFICES ASSUME NEW g \in Handshake, owner[g] # None, Alive(owner[g]), result'[g] = "keys"
               PROVE  \/ keys[owner[g]] >= g
                      \/ shaking[owner[g]] = g
                      \/ \E f \in Handshake : f > g /\ owner[f] = owner[g]
    BY <1>1 DEF KeysOfLast, Alive
  <2>1. CASE g # h
    BY <1>1, <2>1 DEF KeysInv, KeysInTime, KeysOfLast
  <2>2. CASE g = h
    <3>1. CASE task[h] = "running"
      BY <2>2, <3>1 DEF KeysInv, KeysInTime, OneHandshake, StartedInv, Alive
    <3>2. CASE task[h] = "aborted"
      BY <2>2, <3>2 DEF KeysInv, ShakingInv
    <3> QED
      BY <1>1, <3>1, <3>2
  <2> QED
    BY <2>1, <2>2
<1> QED
  BY <1>3, <1>4, <1>5, <1>6 DEF KeysInv, KeysInTime

LEMMA KeysSteps == TypeInv /\ KeysInv /\ [Next]_vars => KeysInv'
<1> SUFFICES ASSUME TypeInv, KeysInv, [Next]_vars
             PROVE  KeysInv'
  OBVIOUS
<1>1. CASE UNCHANGED vars
  BY <1>1, KeysKept DEF vars, sockets
<1>2. ASSUME NEW c \in Channel, ChannelStep(c)
      PROVE  KeysInv'
  <2>1. CASE Mix(c)
    BY <2>1, KeysKept DEF Mix, Alive, TypeInv, TypeOK
  <2>2. CASE RecvLoopEnds(c)
    BY <2>2, KeysKept DEF RecvLoopEnds
  <2> QED
    BY <1>2, <2>1, <2>2, KeysRemote, KeysPoll, KeysTeardown, KeysDropped DEF ChannelStep
<1> QED
  BY <1>1, <1>2, KeysOpening, KeysHandshake DEF Next

\* However many calls of remote() there are, and however the handshakes of a channel
\* end beside it: the one that runs is the one that the channel waits for and feeds,
\* and the channel has the keys of the last that its peer completed.
THEOREM KeysComeInTime == Spec => []KeysInTime
<1>1. KeysInv => KeysInTime
  BY DEF KeysInv
<1> QED
  BY InitTyped, StepTyped, InitKeys, KeysSteps, <1>1, PTL DEF Spec

\* What one step may do to the keys.
LEMMA KeysGoOnStep ==
  ASSUME TypeInv, KeysInv, [Next]_vars, NEW c \in Channel, Alive(c), Alive(c)', keys'[c] # keys[c]
  PROVE  keys'[c] > keys[c] /\ owner[keys'[c]] = c /\ result[keys'[c]] = "keys"
<1>1. CASE \E d \in Channel : Poll(d)
  <2>1. Poll(c)
    BY <1>1 DEF Poll, TypeInv, TypeOK
  <2> QED
    BY <2>1 DEF Poll, KeysInv, ShakingInv, TypeInv, TypeOK
<1>2. CASE \E d \in Channel : DropState(d) \/ Sweep(d)
  <2>1. DropState(c) \/ Sweep(c)
    BY <1>2 DEF DropState, Sweep, Dropped, TypeInv, TypeOK
  <2> QED
    BY <2>1 DEF DropState, Sweep, Dropped, Alive, TypeInv, TypeOK
<1>3. CASE keys' = keys
  BY <1>3
<1>4. keys' = keys \/ \E d \in Channel : Poll(d) \/ DropState(d) \/ Sweep(d)
  BY DEF Next, Opening, ChannelStep, InitPool, OpenBegins, OpenEphemeral, Acquire, Binds, BindFails,
    OpenFails, Remote, Mix, Teardown, RecvLoopEnds, HandshakeSucceeds, HandshakeEnds, vars, shakes
<1> QED
  BY <1>1, <1>2, <1>3, <1>4

\* A handshake that fails, is aborted or comes late never takes from a channel the
\* keys that it has.
THEOREM KeysOnlyGoOn == Spec => KeysGoOn
<1>1. TypeInv /\ KeysInv /\ [Next]_vars =>
        [\A c \in Channel : Alive(c) /\ Alive(c)' /\ keys[c]' # keys[c] =>
           keys[c]' > keys[c] /\ owner[keys[c]'] = c /\ result[keys[c]'] = "keys"]_vars
  BY KeysGoOnStep
<1> QED
  BY InitTyped, StepTyped, InitKeys, KeysSteps, <1>1, PTL DEF Spec, KeysGoOn
=============================================================================
