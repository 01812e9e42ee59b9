------------------------------ MODULE Control ------------------------------
(***************************************************************************)
(* The control plane: a server that opens channels on an RTP node over     *)
(* TCP, lib/server.js and lib/node.js.                                     *)
(*                                                                         *)
(* Either the node connects to the server, again whenever it loses the     *)
(* connection, and all channels go over that (mode "listen", named after   *)
(* the server's part), or the server makes a connection for a channel and  *)
(* those that are opened from it (mode "connect").  Connections break,     *)
(* which each side sees in its own time, or the program has the server     *)
(* destroy them; the node's process may die.                               *)
(*                                                                         *)
(* A program has a channel object when its open resolves, and calls its    *)
(* close once.                                                             *)
(***************************************************************************)
EXTENDS Naturals, Sequences, FiniteSets

CONSTANTS
  MaxChannels,  \* channels are numbered as they are opened
  MaxConns,     \* connections are numbered as they are made
  MaxLives,     \* processes of the node, one after the other
  MaxBreaks,    \* times that connections are lost, fail or are cut by the program
  None

ASSUME ControlAssumption ==
  /\ {MaxChannels, MaxConns, MaxLives, MaxBreaks} \subseteq Nat
  /\ MaxLives > 0
  /\ None \notin Nat

Channel == 1 .. MaxChannels
Conn == 1 .. MaxConns
Life == 1 .. MaxLives

Message == [what : {"open", "close"}, id : Channel] \cup [what : {"error", "hello"}]

VARIABLES
  mode,
  \* The server.
  link,      \* channel.connection, or None
  opens,     \* the promise of openchannel
  opentimer, \* channels that have one running
  shared,    \* channels that were opened from another
  closes,    \* the promise of close
  known,     \* the map of channels
  chans,     \* of a connection that the server made: newchannel.channels
  sock,      \* of a connection: the server's end
  named,     \* the map of nodes: the connection under an instance, or None
  unnamed,   \* and those under an id of the server's own
  nameof,    \* ournode.instance of a connection, or None for such an id
  listening, \* until rtpserver.destroy
  destroyed, \* connections that the server has destroyed
  \* The network.
  alive,     \* connections that are whole
  toNode,
  toServer,
  breaks,
  \* The node.
  life,      \* which process
  nside,     \* of a connection: the node's end
  current,   \* rtpnodeconnection.connection in mode "listen", or None
  timers,    \* how many reconnects are on their way
  garbled,   \* its messagestate in mode "listen" is out of step with the messages
  nchan,     \* a channel at the node
  ncon       \* the connection that it was asked for on

promises == <<link, opens, opentimer, shared, closes, known, chans>>
nodes == <<named, unnamed, nameof, listening>>
server == <<promises, sock, nodes, destroyed>>
net == <<alive, toNode, toServer, breaks>>
node == <<life, nside, current, timers, garbled, nchan, ncon>>
vars == <<mode, server, net, node>>

Promise == {"none", "pending", "resolved", "rejected"}

TypeOK ==
  /\ mode \in {"listen", "connect"}
  /\ link \in [Channel -> Conn \cup {None}]
  /\ opens \in [Channel -> Promise]
  /\ closes \in [Channel -> Promise]
  /\ {opentimer, shared, known} \subseteq SUBSET Channel
  /\ chans \in [Conn -> SUBSET Channel]
  /\ sock \in [Conn -> {"none", "connecting", "up", "down"}]
  /\ named \in [Life -> Conn \cup {None}]
  /\ nameof \in [Conn -> Life \cup {None}]
  /\ {unnamed, destroyed, alive} \subseteq SUBSET Conn
  /\ {listening, garbled} \subseteq BOOLEAN
  /\ toNode \in [Conn -> Seq(Message)]
  /\ toServer \in [Conn -> Seq(Message)]
  /\ breaks \in 0 .. MaxBreaks
  /\ life \in Life
  /\ nside \in [Conn -> {"none", "up", "down"}]
  /\ current \in Conn \cup {None}
  /\ timers \in 0 .. 1
  /\ nchan \in [Channel -> {"none", "opening", "open", "closing", "closed", "failed", "dead"}]
  /\ ncon \in [Channel -> Conn \cup {None}]

\* A node that connects starts with that; one that listens waits.
Init ==
  /\ mode \in {"listen", "connect"}
  /\ link = [i \in Channel |-> None]
  /\ opens = [i \in Channel |-> "none"]
  /\ closes = [i \in Channel |-> "none"]
  /\ opentimer = {} /\ shared = {} /\ known = {}
  /\ chans = [k \in Conn |-> {}]
  /\ sock = [k \in Conn |-> "none"]
  /\ named = [n \in Life |-> None]
  /\ unnamed = {}
  /\ nameof = [k \in Conn |-> None]
  /\ listening = (mode = "listen")
  /\ destroyed = {} /\ alive = {}
  /\ toNode = [k \in Conn |-> <<>>]
  /\ toServer = [k \in Conn |-> <<>>]
  /\ breaks = 0
  /\ life = 1
  /\ nside = [k \in Conn |-> "none"]
  /\ current = None
  /\ timers = IF mode = "listen" THEN 1 ELSE 0
  /\ garbled = FALSE
  /\ nchan = [i \in Channel |-> "none"]
  /\ ncon = [i \in Channel |-> None]

IsNext(k) == sock[k] = "none" /\ \A j \in Conn : j < k => sock[j] # "none"
IsNew(i) == opens[i] = "none" /\ \A j \in Channel : j < i => opens[j] # "none"

\* What is written to a connection that is broken is lost.
Sent(wire, k, msg) == IF k \in alive THEN [wire EXCEPT ![k] = Append(@, msg)] ELSE wire

-----------------------------------------------------------------------------
(* The server: what the program asks for. *)

Registered(k) == k \in unnamed \/ \E n \in Life : named[n] = k

\* A channel in the server's maps, with its promise.
Opened(i, k) ==
  /\ link' = [link EXCEPT ![i] = k]
  /\ opens' = [opens EXCEPT ![i] = "pending"]
  /\ known' = known \cup {i}

\* rtpserver.openchannel with a node that has connected: _createforlisten.  It
\* sets no timer.
OpenListen(i) ==
  /\ mode = "listen"
  /\ IsNew(i)
  /\ \E k \in Conn :
       /\ Registered(k)
       /\ Opened(i, k)
       /\ toNode' = Sent(toNode, k, [what |-> "open", id |-> i])
  /\ UNCHANGED <<mode, opentimer, shared, closes, chans, sock, nodes, destroyed, alive, toServer, breaks, node>>

\* _createforconnect: the request is written when the connection is up.
OpenConnect(i) ==
  /\ mode = "connect"
  /\ IsNew(i)
  /\ \E k \in Conn :
       /\ IsNext(k)
       /\ Opened(i, k)
       /\ sock' = [sock EXCEPT ![k] = "connecting"]
       /\ chans' = [chans EXCEPT ![k] = {i}]
  /\ opentimer' = opentimer \cup {i}
  /\ UNCHANGED <<mode, shared, closes, nodes, destroyed, net, node>>

\* Mutant of OpenShared: no timer is set.
OpenSharedUntimed(j, i) ==
  /\ opens[j] = "resolved"
  /\ IsNew(i)
  /\ Opened(i, link[j])
  /\ shared' = shared \cup {i}
  /\ chans' = IF mode = "connect" THEN [chans EXCEPT ![link[j]] = @ \cup {i}] ELSE chans
  /\ toNode' = Sent(toNode, link[j], [what |-> "open", id |-> i])
  /\ UNCHANGED <<mode, opentimer, closes, sock, nodes, destroyed, alive, toServer, breaks, node>>

\* channel.openchannel
OpenShared(j, i) ==
  /\ opens[j] = "resolved"
  /\ IsNew(i)
  /\ Opened(i, link[j])
  /\ shared' = shared \cup {i}
  /\ chans' = IF mode = "connect" THEN [chans EXCEPT ![link[j]] = @ \cup {i}] ELSE chans
  /\ opentimer' = opentimer \cup {i}
  /\ toNode' = Sent(toNode, link[j], [what |-> "open", id |-> i])
  /\ UNCHANGED <<mode, closes, sock, nodes, destroyed, alive, toServer, breaks, node>>

Close(i) ==
  /\ opens[i] = "resolved"
  /\ closes[i] = "none"
  /\ closes' = [closes EXCEPT ![i] = "pending"]
  /\ toNode' = Sent(toNode, link[i], [what |-> "close", id |-> i])
  /\ UNCHANGED <<mode, link, opens, opentimer, shared, known, chans, sock, nodes, destroyed,
                 alive, toServer, breaks, node>>

OpenTimesOut(i) ==
  /\ i \in opentimer
  /\ opentimer' = opentimer \ {i}
  /\ opens' = [opens EXCEPT ![i] = "rejected"]
  /\ UNCHANGED <<mode, link, shared, closes, known, chans, sock, nodes, destroyed, net, node>>

CloseTimesOut(i) ==
  /\ closes[i] = "pending"
  /\ closes' = [closes EXCEPT ![i] = "rejected"]
  /\ UNCHANGED <<mode, link, opens, opentimer, shared, known, chans, sock, nodes, destroyed, net, node>>

-----------------------------------------------------------------------------
(* The server: its connections. *)

\* Mutant of Renamed: the newest connection of an instance takes its place.
RenamedAlways(k, n) ==
  /\ unnamed' = unnamed \ {k}
  /\ named' = [named EXCEPT ![n] = k]
  /\ nameof' = [nameof EXCEPT ![k] = n]
  /\ UNCHANGED listening

\* A message has told the node's instance: the connection goes under it, unless
\* one before is still there.
Renamed(k, n) ==
  IF named[n] = None
    THEN /\ unnamed' = unnamed \ {k}
         /\ named' = [named EXCEPT ![n] = k]
         /\ nameof' = [nameof EXCEPT ![k] = n]
         /\ UNCHANGED listening
    ELSE UNCHANGED nodes

\* _runopen
RunOpen(i) ==
  /\ opens' = [opens EXCEPT ![i] = IF @ = "pending" THEN "resolved" ELSE @]
  /\ opentimer' = opentimer \ {i}
  /\ UNCHANGED <<closes, known, chans, sock, destroyed, alive, toNode>>

\* Mutant of LastOf: the connection goes with the first channel that closes.
LastOfAny(i, k) == mode = "connect" /\ i \in chans[k]

\* cleanupsharedchannels: the connection goes with the last channel.
LastOf(i, k) == mode = "connect" /\ chans[k] = {i}

\* Bytes on their way are lost when the server destroys its end.
RunClose(i) ==
  LET k == link[i]
      last == LastOf(i, k) IN
  /\ opens' = [opens EXCEPT ![i] = IF @ = "pending" THEN "rejected" ELSE @]
  /\ opentimer' = opentimer \ {i}
  /\ closes' = [closes EXCEPT ![i] = IF @ = "pending" THEN "resolved" ELSE @]
  /\ known' = known \ {i}
  /\ chans' = [chans EXCEPT ![k] = @ \ {i}]
  /\ destroyed' = IF last THEN destroyed \cup {k} ELSE destroyed
  /\ sock' = IF last THEN [sock EXCEPT ![k] = "down"] ELSE sock
  /\ alive' = IF last THEN alive \ {k} ELSE alive
  /\ toNode' = IF last THEN [toNode EXCEPT ![k] = <<>>] ELSE toNode

\* Messages without an id are for no channel, such as that an open has failed.
ServerGets(k) ==
  /\ sock[k] = "up"
  /\ toServer[k] # <<>>
  /\ LET msg == Head(toServer[k]) IN
     \/ /\ msg.what = "open" /\ msg.id \in known
        /\ RunOpen(msg.id)
     \/ /\ msg.what = "close" /\ msg.id \in known
        /\ RunClose(msg.id)
     \/ /\ msg.what \in {"error", "hello"}
        /\ UNCHANGED <<opens, opentimer, closes, known, chans, sock, destroyed, alive, toNode>>
     \/ /\ msg.what \in {"open", "close"} /\ msg.id \notin known
        /\ UNCHANGED <<opens, opentimer, closes, known, chans, sock, destroyed, alive, toNode>>
  /\ toServer' = [toServer EXCEPT ![k] = IF k \in alive' THEN Tail(@) ELSE <<>>]
  /\ IF mode = "listen" THEN Renamed(k, life) ELSE UNCHANGED nodes
  /\ UNCHANGED <<mode, link, shared, breaks, node>>

\* Mutant of Forgotten: the opens that wait are left to their timers, and stay known.
ForgottenNot(k) == UNCHANGED <<known, opens, opentimer>>

\* The channels of a connection that the server made are forgotten with it.
Forgotten(k) ==
  /\ known' = known \ chans[k]
  /\ opens' = [i \in Channel |-> IF i \in chans[k] /\ opens[i] = "pending" THEN "rejected"
                                 ELSE opens[i]]
  /\ opentimer' = opentimer \ {i \in chans[k] : opens[i] = "pending"}

\* The socket's close.  A listening server forgets the node and leaves its channels.
ServerSees(k) ==
  /\ sock[k] = "up"
  /\ k \notin alive
  /\ sock' = [sock EXCEPT ![k] = "down"]
  /\ unnamed' = unnamed \ {k}
  /\ named' = IF nameof[k] = None THEN named ELSE [named EXCEPT ![nameof[k]] = None]
  /\ Forgotten(k)
  /\ UNCHANGED <<mode, link, shared, closes, chans, nameof, listening, destroyed, net, node>>

-----------------------------------------------------------------------------
(* The network. *)

\* The server's connection arrives at a node that listens, and the open is written.
Connected(k) ==
  /\ sock[k] = "connecting"
  /\ sock' = [sock EXCEPT ![k] = "up"]
  /\ nside' = [nside EXCEPT ![k] = "up"]
  /\ alive' = alive \cup {k}
  /\ \E i \in chans[k] : toNode' = [toNode EXCEPT ![k] = <<[what |-> "open", id |-> i]>>]
  /\ UNCHANGED <<mode, promises, nodes, destroyed, toServer, breaks, life, current, timers, garbled, nchan, ncon>>

Refused(k) ==
  /\ breaks < MaxBreaks
  /\ sock[k] = "connecting"
  /\ sock' = [sock EXCEPT ![k] = "down"]
  /\ breaks' = breaks + 1
  /\ Forgotten(k)
  /\ UNCHANGED <<mode, link, shared, closes, chans, nodes, destroyed, alive, toNode, toServer, node>>

\* What is on its way is lost.
Broken(ks) ==
  /\ alive' = alive \ ks
  /\ toNode' = [k \in Conn |-> IF k \in ks THEN <<>> ELSE toNode[k]]
  /\ toServer' = [k \in Conn |-> IF k \in ks THEN <<>> ELSE toServer[k]]

\* Part of a message may have come, and a node that connects keeps its messagestate
\* for the next connection.
Cut(ks) ==
  garbled' \in IF mode = "listen" /\ \E k \in ks : toNode[k] # <<>> THEN BOOLEAN ELSE {garbled}

Break(k) ==
  /\ breaks < MaxBreaks
  /\ k \in alive
  /\ Broken({k})
  /\ Cut({k})
  /\ breaks' = breaks + 1
  /\ UNCHANGED <<mode, server, life, nside, current, timers, nchan, ncon>>

-----------------------------------------------------------------------------
(* The program has the server destroy its connections to nodes.  The destroy in _write
   is of a socket that has an error, which is lost already. *)

\* What becomes of connections that the server destroys and has in no map any more.
Destroyed(ks) ==
  /\ destroyed' = destroyed \cup ks
  /\ sock' = [k \in Conn |-> IF k \in ks THEN "down" ELSE sock[k]]
  /\ Broken(ks)
  /\ Cut(ks)
  /\ UNCHANGED <<mode, promises, nameof, life, nside, current, timers, nchan, ncon>>

\* closenode, when it finds no channel in the status.  That is of the message that
\* told the instance, and never brought up to date: it may say none whatever has been
\* opened since, and the model leaves it open.
CloseNode(n) ==
  /\ breaks < MaxBreaks
  /\ named[n] # None
  /\ Destroyed({named[n]})
  /\ named' = [named EXCEPT ![n] = None]
  /\ breaks' = breaks + 1
  /\ UNCHANGED <<unnamed, listening>>

\* rtpserver.destroy.  One that does not listen has no nodes in its map.
Destroy ==
  /\ listening
  /\ breaks < MaxBreaks
  /\ listening' = FALSE
  /\ Destroyed({k \in Conn : Registered(k)})
  /\ named' = [n \in Life |-> None]
  /\ unnamed' = {}
  /\ breaks' = breaks + 1

-----------------------------------------------------------------------------
(* The node. *)

\* Mutant of RunReconnect: it is not asked whether one is on its way.
RunReconnectAgain(t) == t + 1

\* _runreconnect: a timer, if there is none.
RunReconnect(t) == IF t > 0 THEN t ELSE t + 1

\* connect, at the start and by the timer.  The messagestate stays as it is.
NodeConnects ==
  /\ listening
  /\ timers > 0
  /\ timers' = timers - 1
  /\ \E k \in Conn :
       /\ IsNext(k)
       /\ sock' = [sock EXCEPT ![k] = "up"]
       /\ nside' = [nside EXCEPT ![k] = "up"]
       /\ alive' = alive \cup {k}
       /\ unnamed' = unnamed \cup {k}
       /\ current' = k
       /\ toServer' = [toServer EXCEPT ![k] = <<[what |-> "hello"]>>]
  /\ UNCHANGED <<mode, promises, named, nameof, listening, destroyed, toNode, breaks, life, garbled,
                 nchan, ncon>>

\* It fails: nobody listens, or the network is at fault.  An error comes, and a close.
NodeConnectFails ==
  /\ mode = "listen"
  /\ timers > 0
  /\ listening => breaks < MaxBreaks
  /\ timers' = RunReconnect(RunReconnect(timers - 1))
  /\ current' = None
  /\ breaks' = IF listening THEN breaks + 1 ELSE breaks
  /\ UNCHANGED <<mode, server, alive, toNode, toServer, life, nside, garbled, nchan, ncon>>

\* Mutant of NodeSees: only an error makes the node connect again.
NodeSeesError(k) ==
  /\ nside[k] = "up"
  /\ k \notin alive
  /\ nside' = [nside EXCEPT ![k] = "down"]
  /\ timers' \in IF mode = "listen" THEN {timers, RunReconnect(timers)} ELSE {timers}
  /\ UNCHANGED <<mode, server, net, life, current, garbled, nchan, ncon>>

\* The socket's close, behind an error or not.
NodeSees(k) ==
  /\ nside[k] = "up"
  /\ k \notin alive
  /\ nside' = [nside EXCEPT ![k] = "down"]
  /\ timers' \in IF mode = "listen" THEN {RunReconnect(timers), RunReconnect(RunReconnect(timers))}
                 ELSE {timers}
  /\ UNCHANGED <<mode, server, net, life, current, garbled, nchan, ncon>>

\* The connection that a channel's events are sent on.
EventConn(i) == IF mode = "listen" THEN current ELSE ncon[i]

Tell(i, msg) == toServer' = Sent(toServer, EventConn(i), msg)

\* Mutant of Lookup: the node has one channel for a connection.
LookupFirst(i, k) ==
  nchan[i] = "open" /\ \A j \in Channel : j < i /\ ncon[j] = k => nchan[j] # "open"

\* _updatechannel finds the channels of all connections.
Lookup(i, k) == nchan[i] = "open"

\* _processmessage
NodeGets(k) ==
  /\ nside[k] = "up"
  /\ toNode[k] # <<>>
  /\ ~garbled
  /\ toNode' = [toNode EXCEPT ![k] = Tail(@)]
  /\ LET msg == Head(toNode[k]) IN
     \/ /\ msg.what = "open"
        /\ nchan' = [nchan EXCEPT ![msg.id] = "opening"]
        /\ ncon' = [ncon EXCEPT ![msg.id] = k]
     \/ /\ msg.what = "close" /\ Lookup(msg.id, k)
        /\ nchan' = [nchan EXCEPT ![msg.id] = "closing"]
        /\ UNCHANGED ncon
     \/ /\ msg.what = "close" /\ ~Lookup(msg.id, k)
        /\ UNCHANGED <<nchan, ncon>>
  /\ UNCHANGED <<mode, server, alive, toServer, breaks, life, nside, current, timers, garbled>>

\* The parser takes what comes for the rest of the message that was cut, and looks for
\* the next one in the middle of another, until it happens to be in step again; one
\* that it has whole by then may wait for the next.
NodeSwallows(k) ==
  /\ nside[k] = "up"
  /\ toNode[k] # <<>>
  /\ garbled
  /\ \/ /\ garbled' \in BOOLEAN
        /\ toNode' = [toNode EXCEPT ![k] = Tail(@)]
     \/ /\ garbled' = FALSE
        /\ UNCHANGED toNode
  /\ UNCHANGED <<mode, server, alive, toServer, breaks, life, nside, current, timers, nchan, ncon>>

NodeOpens(i) ==
  /\ nchan[i] = "opening"
  /\ nchan' = [nchan EXCEPT ![i] = "open"]
  /\ Tell(i, [what |-> "open", id |-> i])
  /\ UNCHANGED <<mode, server, alive, toNode, breaks, life, nside, current, timers, garbled, ncon>>

\* Mutant of NodeOpenFails: the failure is told like an open.
NodeOpenFailsWell(i) ==
  /\ nchan[i] = "opening"
  /\ nchan' = [nchan EXCEPT ![i] = "failed"]
  /\ Tell(i, [what |-> "open", id |-> i])
  /\ UNCHANGED <<mode, server, alive, toNode, breaks, life, nside, current, timers, garbled, ncon>>

\* The message has the request in it, but no id of its own.
NodeOpenFails(i) ==
  /\ nchan[i] = "opening"
  /\ nchan' = [nchan EXCEPT ![i] = "failed"]
  /\ Tell(i, [what |-> "error"])
  /\ UNCHANGED <<mode, server, alive, toNode, breaks, life, nside, current, timers, garbled, ncon>>

\* By request or by itself.
NodeCloses(i) ==
  /\ nchan[i] \in {"open", "closing"}
  /\ nchan' = [nchan EXCEPT ![i] = "closed"]
  /\ Tell(i, [what |-> "close", id |-> i])
  /\ UNCHANGED <<mode, server, alive, toNode, breaks, life, nside, current, timers, garbled, ncon>>

\* The process ends, by its own timer for an open or otherwise, and is started anew.
Dies ==
  /\ life < MaxLives
  /\ life' = life + 1
  /\ Broken(alive)
  /\ nside' = [k \in Conn |-> IF nside[k] = "up" THEN "down" ELSE nside[k]]
  /\ nchan' = [i \in Channel |-> IF nchan[i] \in {"opening", "open", "closing"} THEN "dead"
                                 ELSE nchan[i]]
  /\ timers' = IF mode = "listen" THEN 1 ELSE 0
  /\ garbled' = FALSE
  /\ current' = None
  /\ UNCHANGED <<mode, server, breaks, ncon>>

-----------------------------------------------------------------------------
Program ==
  \E i \in Channel :
    \/ OpenListen(i) \/ OpenConnect(i) \/ Close(i)
    \/ \E j \in Channel : OpenShared(j, i)

\* What the program asks of the server itself.
Operator == Destroy \/ \E n \in Life : CloseNode(n)

Sockets(k) ==
  \/ ServerGets(k) \/ ServerSees(k) \/ Connected(k)
  \/ NodeGets(k) \/ NodeSwallows(k) \/ NodeSees(k)

Faults == Dies \/ NodeConnectFails \/ \E k \in Conn : Break(k) \/ Refused(k)

Next ==
  \/ Program
  \/ Operator
  \/ Faults
  \/ NodeConnects
  \/ \E k \in Conn : Sockets(k)
  \/ \E i \in Channel :
       OpenTimesOut(i) \/ CloseTimesOut(i) \/ NodeOpens(i) \/ NodeOpenFails(i) \/ NodeCloses(i)

Spec == Init /\ [][Next]_vars

\* Both event loops run, TCP delivers or breaks, and the node does what it is asked.
FairSpec ==
  /\ Spec
  /\ WF_vars(NodeConnects \/ \E k \in Conn : Sockets(k))
  /\ WF_vars(\E i \in Channel :
       \/ OpenTimesOut(i)
       \/ CloseTimesOut(i)
       \/ nchan[i] = "closing" /\ NodeCloses(i))

-----------------------------------------------------------------------------
(* What the program can rely on. *)

\* What the server's promises say has happened at the node, or had before it died.
PromisesTrue ==
  \A i \in Channel :
    /\ opens[i] = "resolved" => nchan[i] \in {"open", "closing", "closed", "dead"}
    /\ closes[i] = "resolved" => nchan[i] = "closed"

\* However its connection is lost, the node makes one new one, not two.
OneLive == mode = "listen" => Cardinality({k \in alive : nside[k] = "up"}) <= 1

\* A node whose connection the server has is known to it, even if it came back before
\* the server saw the old connection end, and that end is seen later.
NodesKnown == mode = "listen" => \A k \in Conn : sock[k] = "up" => Registered(k)

\* A connection that the server made it never destroys under a channel that is open on
\* it: it goes with the last one.  (One that a node made it destroys when the program
\* says so, by closenode or destroy, whatever is open on it.)
SocketShared ==
  mode = "connect" => \A i \in Channel :
    opens[i] = "resolved" /\ link[i] \in destroyed => nchan[i] \in {"closed", "dead"}

\* A channel whose own connection has gone is not in the map of a server that connects.
KnownIsReachable ==
  mode = "connect" => \A i \in known : opens[i] = "resolved" => sock[link[i]] = "up"

\* An open settles whatever becomes of the node, if it has a timer.  The first open on a
\* node that connects has none: if the node loses it, swallows it as the rest of a
\* message that was cut, or tells that it failed, without an id, the program waits for
\* ever.
OpensSettle ==
  \A i \in Channel :
    opens[i] = "pending" /\ (mode = "connect" \/ i \in shared) ~> opens[i] # "pending"

\* A close reaches the channel, on whichever connection it is asked, unless that
\* breaks.  The node never swallows it: the channel is there because an open has come
\* through on that connection, with which the messagestate is in step.
CloseReaches ==
  \A i \in Channel :
    closes[i] = "pending" ~> nchan[i] \in {"closed", "dead"} \/ link[i] \notin alive

\* A node that lost its connection is one that the server can open channels on again,
\* while it listens.
Reconnects == alive = {} /\ listening ~> ~listening \/ \E k \in alive : Registered(k)

\* The server can rely on a node being connected.
NodeIsThere == OneLive /\ NodesKnown

\* A connection that the server made lasts as long as a channel on it, and no longer than
\* the server takes the channel to be there.
ConnectionKept == SocketShared /\ KnownIsReachable

\* Neither the program nor the server waits for ever, but for an open without a timer
\* and a server that has been destroyed.
GoesOn == OpensSettle /\ CloseReaches /\ Reconnects
=============================================================================
