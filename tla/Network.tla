------------------------------ MODULE Network ------------------------------
(***************************************************************************)
(* The sockets of channels and what holds them: the port pool of           *)
(* portpool.rs, the binding of facade.rs, the receive loop, and the DTLS   *)
(* handshakes of dtls_session.rs with the keys that a tick takes from      *)
(* them.                                                                   *)
(*                                                                         *)
(* A channel's RTP socket is shared by its state, its receive loop and     *)
(* every handshake task; it is bound until the last of them has let go.    *)
(* The port goes back to the pool when the state is dropped.  JavaScript's *)
(* thread opens channels, one at a time, while the tasks run.              *)
(*                                                                         *)
(* A port is a pair: the even one for RTP, the next for RTCP.              *)
(***************************************************************************)
EXTENDS Naturals, Sequences, FiniteSets

CONSTANTS
  MaxChannels,    \* channels are numbered as they are opened
  MaxPorts,
  Foreign,        \* ports that another process has bound
  MaxTries,       \* MAX_POOL_TRIES
  MaxInits,       \* calls of run()
  MaxHandshakes,  \* handshakes are numbered as they are started
  None

ASSUME NetworkAssumption ==
  /\ {MaxChannels, MaxPorts, MaxTries, MaxInits, MaxHandshakes} \subseteq Nat
  /\ Foreign \subseteq 1 .. MaxPorts
  /\ None \notin Nat

Channel == 1 .. MaxChannels
Port == 1 .. MaxPorts
Handshake == 1 .. MaxHandshakes

VARIABLES
  inits,
  pool,      \* POOL: the available ports
  opening,   \* the channel that is being opened, or None
  hand,      \* the port that it has acquired, or None
  tries,
  life,      \* of a channel; "ending" is torn down, and its state not yet dropped
  port,      \* that a channel has bound, or None
  reserved,  \* channels whose state holds a reservation of their port
  recving,   \* channels whose receive loop runs
  cancelled, \* and those whose loop has been told to end
  task,      \* of a handshake
  owner,     \* its channel, or None
  result,    \* what it has sent; "failed" if it ended without keys
  feed,      \* dtls_inbound_tx: the handshake that datagrams are given to, or None
  shaking,   \* dtls_result_rx and dtls_handshake_abort: a handshake, or None
  keys,      \* the handshake that the SRTP contexts are from, or 0
  swept      \* channels that the mixer dropped for being idle

ports == <<inits, pool, opening, hand, tries>>
sockets == <<life, port, reserved, recving, cancelled, swept>>
shakes == <<task, owner, result, feed, shaking, keys>>
vars == <<ports, sockets, shakes>>

TypeOK ==
  /\ inits \in 0 .. MaxInits
  /\ pool \in Seq(Port)
  /\ opening \in Channel \cup {None}
  /\ hand \in Port \cup {None}
  /\ tries \in 0 .. MaxTries
  /\ life \in [Channel -> {"none", "local", "mixed", "ending", "gone", "failed"}]
  /\ port \in [Channel -> Port \cup {None}]
  /\ {reserved, recving, cancelled, swept} \subseteq SUBSET Channel
  /\ task \in [Handshake -> {"none", "running", "aborted", "ended"}]
  /\ owner \in [Handshake -> Channel \cup {None}]
  /\ result \in [Handshake -> {"none", "keys", "failed"}]
  /\ feed \in [Channel -> Handshake \cup {None}]
  /\ shaking \in [Channel -> Handshake \cup {None}]
  /\ keys \in [Channel -> 0 .. MaxHandshakes]

Init ==
  /\ inits = 0
  /\ pool = <<>>
  /\ opening = None
  /\ hand = None
  /\ tries = 0
  /\ life = [c \in Channel |-> "none"]
  /\ port = [c \in Channel |-> None]
  /\ reserved = {}
  /\ recving = {}
  /\ cancelled = {}
  /\ swept = {}
  /\ task = [h \in Handshake |-> "none"]
  /\ owner = [h \in Handshake |-> None]
  /\ result = [h \in Handshake |-> "none"]
  /\ feed = [c \in Channel |-> None]
  /\ shaking = [c \in Channel |-> None]
  /\ keys = [c \in Channel |-> 0]

Alive(c) == life[c] \in {"local", "mixed"}

\* The tasks that still have the socket.
Held(c) ==
  \/ life[c] \in {"local", "mixed", "ending"}
  \/ c \in recving
  \/ \E h \in Handshake : owner[h] = c /\ task[h] \in {"running", "aborted"}

Bound(p) == p \in Foreign \/ \E c \in Channel : port[c] = p /\ Held(c)

-----------------------------------------------------------------------------
(* Opening, on JavaScript's thread. *)

\* run(): the pool is replaced, whatever has been given out of the one before.
InitPool ==
  /\ inits < MaxInits
  /\ opening = None
  /\ inits' = inits + 1
  /\ pool' = [i \in 1 .. MaxPorts |-> i]
  /\ UNCHANGED <<opening, hand, tries, sockets, shakes>>

IsNext(c) == life[c] = "none" /\ \A d \in Channel : d < c => life[d] # "none"

OpenBegins(c) ==
  /\ inits > 0
  /\ opening = None
  /\ IsNext(c)
  /\ opening' = c
  /\ tries' = 0
  /\ UNCHANGED <<inits, pool, hand, sockets, shakes>>

Acquire ==
  /\ opening # None
  /\ hand = None
  /\ tries < MaxTries
  /\ pool # <<>>
  /\ hand' = Head(pool)
  /\ pool' = Tail(pool)
  /\ tries' = tries + 1
  /\ UNCHANGED <<inits, opening, sockets, shakes>>

\* spawn_with_sockets: the receive loop starts with the channel.
Spawned(c, p) ==
  /\ life' = [life EXCEPT ![c] = "local"]
  /\ port' = [port EXCEPT ![c] = p]
  /\ recving' = recving \cup {c}
  /\ UNCHANGED <<cancelled, swept>>

\* Mutant of Binds: the port is taken for free because it was in the pool.
BindsAny ==
  /\ hand # None
  /\ hand \notin Foreign
  /\ Spawned(opening, hand)
  /\ reserved' = reserved \cup {opening}
  /\ opening' = None
  /\ hand' = None
  /\ UNCHANGED <<inits, pool, tries, shakes>>

Binds ==
  /\ hand # None
  /\ ~Bound(hand)
  /\ Spawned(opening, hand)
  /\ reserved' = reserved \cup {opening}
  /\ opening' = None
  /\ hand' = None
  /\ UNCHANGED <<inits, pool, tries, shakes>>

\* Mutant of BindFails: the port is not released.
BindFailsKeeps ==
  /\ hand # None
  /\ Bound(hand)
  /\ hand' = None
  /\ UNCHANGED <<inits, pool, opening, tries, sockets, shakes>>

BindFails ==
  /\ hand # None
  /\ Bound(hand)
  /\ pool' = Append(pool, hand)
  /\ hand' = None
  /\ UNCHANGED <<inits, opening, tries, sockets, shakes>>

OpenFails ==
  /\ opening # None
  /\ hand = None
  /\ pool = <<>> \/ tries = MaxTries
  /\ life' = [life EXCEPT ![opening] = "failed"]
  /\ opening' = None
  /\ UNCHANGED <<inits, pool, hand, tries, port, reserved, recving, cancelled, swept, shakes>>

\* Without a pool the system chooses a port, and may come up with odd ones only.
OpenEphemeral(c) ==
  /\ inits = 0
  /\ IsNext(c)
  /\ \/ /\ \E p \in Port : ~Bound(p) /\ Spawned(c, p)
     \/ /\ life' = [life EXCEPT ![c] = "failed"]
        /\ UNCHANGED <<port, recving, cancelled, swept>>
  /\ UNCHANGED <<ports, reserved, shakes>>

-----------------------------------------------------------------------------
(* The channel's own task, or the mixer's when the channel is mixed. *)

Unstarted(h) == task[h] = "none" /\ \A g \in Handshake : g < h => task[g] # "none"

\* An abort is a request: the task may be in the middle of its last step.
Abort(h) ==
  IF h # None /\ task[h] = "running" THEN [task EXCEPT ![h] = "aborted"] ELSE task

\* Mutant of Remote: the handshake before is left alone.
RemoteBeside(c) ==
  /\ life[c] = "local"
  /\ \E h \in Handshake :
       /\ Unstarted(h)
       /\ task' = [task EXCEPT ![h] = "running"]
       /\ owner' = [owner EXCEPT ![h] = c]
       /\ feed' = [feed EXCEPT ![c] = h]
       /\ shaking' = [shaking EXCEPT ![c] = h]
  /\ UNCHANGED <<result, keys, ports, sockets>>

\* Mutant of Remote: the result of the handshake before is still waited for.
RemoteBehind(c) ==
  /\ life[c] = "local"
  /\ \E h \in Handshake :
       /\ Unstarted(h)
       /\ task' = [Abort(shaking[c]) EXCEPT ![h] = "running"]
       /\ owner' = [owner EXCEPT ![h] = c]
       /\ feed' = [feed EXCEPT ![c] = h]
       /\ shaking' = [shaking EXCEPT ![c] = IF @ = None THEN h ELSE @]
  /\ UNCHANGED <<result, keys, ports, sockets>>

\* Command::Remote with DTLS.  A mixer takes the command for its address and
\* codec only: it starts no handshake.
Remote(c) ==
  /\ life[c] = "local"
  /\ \E h \in Handshake :
       /\ Unstarted(h)
       /\ task' = [Abort(shaking[c]) EXCEPT ![h] = "running"]
       /\ owner' = [owner EXCEPT ![h] = c]
       /\ feed' = [feed EXCEPT ![c] = h]
       /\ shaking' = [shaking EXCEPT ![c] = h]
  /\ UNCHANGED <<result, keys, ports, sockets>>

\* Mutant of Poll: a handshake that has failed is polled on.
PollKeys(c) ==
  /\ Alive(c)
  /\ shaking[c] # None
  /\ result[shaking[c]] = "keys"
  /\ keys' = [keys EXCEPT ![c] = shaking[c]]
  /\ shaking' = [shaking EXCEPT ![c] = None]
  /\ UNCHANGED <<task, owner, result, feed, ports, sockets>>

\* Mutant of Poll: a handshake that has failed takes the contexts away.
PollResets(c) ==
  /\ Alive(c)
  /\ shaking[c] # None
  /\ result[shaking[c]] # "none"
  /\ keys' = [keys EXCEPT ![c] = IF result[shaking[c]] = "keys" THEN shaking[c] ELSE 0]
  /\ shaking' = [shaking EXCEPT ![c] = None]
  /\ UNCHANGED <<task, owner, result, feed, ports, sockets>>

\* poll_dtls_handshake, by every tick, in a mix as well.
Poll(c) ==
  /\ Alive(c)
  /\ shaking[c] # None
  /\ result[shaking[c]] # "none"
  /\ keys' = [keys EXCEPT ![c] = IF result[shaking[c]] = "keys" THEN shaking[c] ELSE @]
  /\ shaking' = [shaking EXCEPT ![c] = None]
  /\ UNCHANGED <<task, owner, result, feed, ports, sockets>>

Mix(c) ==
  /\ Alive(c)
  /\ life' = [life EXCEPT ![c] = IF @ = "local" THEN "mixed" ELSE "local"]
  /\ UNCHANGED <<port, reserved, recving, cancelled, swept, ports, shakes>>

\* Mutant of Teardown: the receive loop is not cancelled.
TeardownOnly(c) ==
  /\ life[c] = "local"
  /\ life' = [life EXCEPT ![c] = "ending"]
  /\ task' = Abort(shaking[c])
  /\ feed' = [feed EXCEPT ![c] = None]
  /\ UNCHANGED <<port, reserved, recving, cancelled, swept, owner, result, shaking, keys, ports>>

Teardown(c) ==
  /\ life[c] = "local"
  /\ life' = [life EXCEPT ![c] = "ending"]
  /\ task' = Abort(shaking[c])
  /\ feed' = [feed EXCEPT ![c] = None]
  /\ cancelled' = cancelled \cup {c}
  /\ UNCHANGED <<port, reserved, recving, swept, owner, result, shaking, keys, ports>>

\* What the state owns goes with it: the reservation, the other end of a result.
Dropped(c) ==
  /\ life' = [life EXCEPT ![c] = "gone"]
  /\ reserved' = reserved \ {c}
  /\ pool' = IF c \in reserved THEN Append(pool, port[c]) ELSE pool
  /\ shaking' = [shaking EXCEPT ![c] = None]
  /\ keys' = [keys EXCEPT ![c] = 0]
  /\ UNCHANGED <<inits, opening, hand, tries, port, recving, cancelled, task, owner, result, feed>>

DropState(c) ==
  /\ life[c] = "ending"
  /\ Dropped(c)
  /\ UNCHANGED swept

\* close_idle_members drops a member without a teardown: nothing is aborted, and a
\* token that is dropped does not cancel.
Sweep(c) ==
  /\ life[c] = "mixed"
  /\ Dropped(c)
  /\ swept' = swept \cup {c}

-----------------------------------------------------------------------------
(* The tasks beside it. *)

\* Cancelled, or the socket has failed.
RecvLoopEnds(c) ==
  /\ c \in recving
  /\ recving' = recving \ {c}
  /\ UNCHANGED <<life, port, reserved, cancelled, swept, ports, shakes>>

\* The peer has answered by datagrams that the receive loop has fed to the task;
\* one that is being aborted may have had them all before.
HandshakeSucceeds(h) ==
  /\ \/ task[h] = "running" /\ feed[owner[h]] = h /\ owner[h] \in recving
     \/ task[h] = "aborted"
  /\ task' = [task EXCEPT ![h] = "ended"]
  /\ result' = [result EXCEPT ![h] = "keys"]
  /\ UNCHANGED <<owner, feed, shaking, keys, ports, sockets>>

\* Ended by the abort, an error or HANDSHAKE_TIMEOUT.
HandshakeEnds(h) ==
  /\ task[h] \in {"running", "aborted"}
  /\ task' = [task EXCEPT ![h] = "ended"]
  /\ result' = [result EXCEPT ![h] = "failed"]
  /\ UNCHANGED <<owner, feed, shaking, keys, ports, sockets>>

Opening ==
  \/ InitPool
  \/ \E c \in Channel : OpenBegins(c) \/ OpenEphemeral(c)
  \/ Acquire \/ Binds \/ BindFails \/ OpenFails

ChannelStep(c) ==
  \/ Remote(c) \/ Poll(c) \/ Mix(c) \/ Teardown(c) \/ DropState(c) \/ Sweep(c)
  \/ RecvLoopEnds(c)

Next ==
  \/ Opening
  \/ \E c \in Channel : ChannelStep(c)
  \/ \E h \in Handshake : HandshakeSucceeds(h) \/ HandshakeEnds(h)

Spec == Init /\ [][Next]_vars

\* Tasks are scheduled and ticks come; a handshake has its timeout, and a loop
\* ends once it is cancelled.  Nothing else has to happen.
FairSpec ==
  /\ Spec
  /\ WF_vars(Acquire \/ Binds \/ BindFails \/ OpenFails)
  /\ \A c \in Channel :
       /\ WF_vars(Poll(c)) /\ WF_vars(DropState(c))
       /\ WF_vars(c \in cancelled /\ RecvLoopEnds(c))
  /\ \A h \in Handshake : WF_vars(HandshakeEnds(h))

-----------------------------------------------------------------------------
(* What the channels can rely on. *)

\* Two channels never have one port bound, although a port may be twice in a pool
\* that was made anew, and comes back to it before its socket is closed.
OnePort ==
  \A c, d \in Channel : c # d /\ Held(c) /\ Held(d) => port[c] # port[d]

InPool(p) == Cardinality({i \in 1 .. Len(pool) : pool[i] = p})
Taken(p) == Cardinality({c \in reserved : port[c] = p}) + IF hand = p THEN 1 ELSE 0

\* No port of the pool is ever lost, by a bind that fails or a channel that ends in
\* any way; and none is there twice but by making the pool anew.
PoolExact == inits > 0 => \A p \in Port : InPool(p) + Taken(p) \in 1 .. inits

\* dtls_session.rs:126: a handshake does not outlive its channel, nor the Remote
\* that started it the next one; the mixer's sweep is the exception.
OneHandshake ==
  \A h \in Handshake : task[h] = "running" =>
    \/ Alive(owner[h]) /\ shaking[owner[h]] = h /\ feed[owner[h]] = h
    \/ owner[h] \in swept

\* A channel uses the keys of the last handshake that its peer has completed, or is
\* about to, if it was not aborted for the next.
KeysOfLast ==
  \A h \in Handshake : LET c == owner[h] IN
    c # None /\ Alive(c) /\ result[h] = "keys" =>
      keys[c] >= h \/ shaking[c] = h \/ \E g \in Handshake : g > h /\ owner[g] = c

\* Keys are of the channel's own handshakes, completed, and newer ones only replace
\* older ones: a handshake that fails leaves the channel with those it had.
KeysGoOn ==
  [][\A c \in Channel : Alive(c) /\ Alive(c)' /\ keys[c]' # keys[c] =>
       keys[c]' > keys[c] /\ owner[keys[c]'] = c /\ result[keys[c]'] = "keys"]_vars

\* Every handshake is settled, whatever its peer does.
HandshakesSettle ==
  \A c \in Channel : shaking[c] # None ~> shaking[c] = None

\* The port of a channel that was torn down can be bound again.
SocketsClose ==
  \A c \in Channel : life[c] = "ending" ~> ~Held(c)

\* What the port pool promises.
PortsExact == OnePort /\ PoolExact

\* What the handshakes promise.
KeysInTime == OneHandshake /\ KeysOfLast

\* Whatever the peer does, a handshake settles and a socket is closed.
TasksEnd == HandshakesSettle /\ SocketsClose
=============================================================================
