--------------------------- MODULE ControlProofs ---------------------------
(***************************************************************************)
(* Proofs about Control, for any numbers of channels, connections and      *)
(* breaks, and however often the node dies.                                *)
(***************************************************************************)
EXTENDS Control, FiniteSetTheorems, TLAPS

LEMMA ConstantsAreTyped ==
  /\ MaxChannels \in Nat /\ MaxConns \in Nat /\ MaxLives \in Nat \ {0} /\ MaxBreaks \in Nat
  /\ None \notin Channel /\ None \notin Conn /\ None \notin Life
  BY ControlAssumption DEF ControlAssumption, Channel, Conn, Life

LEMMA MessageFacts ==
  /\ \A i \in Channel : [what |-> "open", id |-> i] \in Message /\ [what |-> "close", id |-> i] \in Message
  /\ [what |-> "error"] \in Message /\ [what |-> "hello"] \in Message
  /\ \A msg \in Message :
       /\ msg.what \in {"open", "close", "error", "hello"}
       /\ msg.what \in {"open", "close"} => msg.id \in Channel /\ msg = [what |-> msg.what, id |-> msg.id]
  BY DEF Message

LEMMA AppendFacts ==
  ASSUME NEW S, NEW s \in Seq(S), NEW e \in S
  PROVE  /\ Append(s, e) \in Seq(S)
         /\ Len(Append(s, e)) = Len(s) + 1 /\ Len(s) \in Nat
         /\ \A i \in 1 .. Len(s) : Append(s, e)[i] = s[i]
         /\ Append(s, e)[Len(s) + 1] = e
  OBVIOUS

LEMMA TailFacts ==
  ASSUME NEW S, NEW s \in Seq(S), s # <<>>
  PROVE  /\ Tail(s) \in Seq(S)
         /\ Len(s) \in Nat \ {0} /\ 1 \in 1 .. Len(s)
         /\ Len(Tail(s)) = Len(s) - 1
         /\ Head(s) \in S /\ Head(s) = s[1]
         /\ \A i \in 1 .. Len(Tail(s)) : Tail(s)[i] = s[i + 1] /\ i + 1 \in 2 .. Len(s)
  OBVIOUS

-----------------------------------------------------------------------------
(* Types. *)

Wires == [Conn -> Seq(Message)]

\* A channel has its connection from the moment that it is opened.
Linked ==
  /\ \A i \in Channel : link[i] = None <=> opens[i] = "none"
  /\ \A i \in known \cup opentimer : opens[i] # "none"

TypeInv == TypeOK /\ Linked

LEMMA SentTyped ==
  ASSUME TypeOK, NEW wire \in Wires, NEW k \in Conn \cup {None}, NEW msg \in Message
  PROVE  Sent(wire, k, msg) \in Wires
<1>1. CASE k \in alive
  <2>1. k \in Conn
    BY <1>1 DEF TypeOK
  <2>2. Append(wire[k], msg) \in Seq(Message)
    BY <2>1, AppendFacts DEF Wires
  <2> QED
    BY <1>1, <2>1, <2>2 DEF Sent, Wires
<1>2. CASE k \notin alive
  BY <1>2 DEF Sent
<1> QED
  BY <1>1, <1>2

\* The first message on a wire.
LEMMA FirstMessage ==
  ASSUME NEW wire \in Wires, NEW k \in Conn, wire[k] # <<>>
  PROVE  /\ Head(wire[k]) \in Message /\ Tail(wire[k]) \in Seq(Message)
         /\ Head(wire[k]) = wire[k][1] /\ 1 \in 1 .. Len(wire[k])
         /\ Head(wire[k]).what \in {"open", "close", "error", "hello"}
         /\ Head(wire[k]).what \in {"open", "close"} =>
              /\ Head(wire[k]).id \in Channel
              /\ Head(wire[k]) = [what |-> Head(wire[k]).what, id |-> Head(wire[k]).id]
<1>1. wire[k] \in Seq(Message)
  BY DEF Wires
<1>2. /\ Head(wire[k]) \in Message /\ Tail(wire[k]) \in Seq(Message)
      /\ Head(wire[k]) = wire[k][1] /\ 1 \in 1 .. Len(wire[k])
  BY <1>1, TailFacts
<1> QED
  BY <1>2, MessageFacts

LEMMA InitTyped == Init => TypeInv
<1> SUFFICES ASSUME Init
             PROVE  TypeInv
  OBVIOUS
<1>1. listening \in BOOLEAN /\ garbled \in BOOLEAN
  BY Zenon DEF Init
<1>2. Linked
  BY DEF Init, Linked
<1> QED
  BY <1>1, <1>2, ConstantsAreTyped DEF Init, TypeInv, TypeOK, Promise, Life

\* What opening a channel leaves.
LEMMA OpenedTyped ==
  ASSUME TypeInv, NEW i \in Channel, NEW k \in Conn, Opened(i, k), opentimer' \in {opentimer, opentimer \cup {i}}
  PROVE  /\ link' \in [Channel -> Conn \cup {None}] /\ opens' \in [Channel -> Promise]
         /\ known' \subseteq Channel /\ opentimer' \subseteq Channel
         /\ Linked'
<1>1. /\ link' = [link EXCEPT ![i] = k] /\ opens' = [opens EXCEPT ![i] = "pending"]
      /\ known' = known \cup {i} /\ opentimer' \subseteq opentimer \cup {i}
  BY DEF Opened
<1>2. k # None
  BY ConstantsAreTyped
<1>3. link' \in [Channel -> Conn \cup {None}] /\ opens' \in [Channel -> Promise]
      /\ known' \subseteq Channel /\ opentimer' \subseteq Channel
  BY <1>1 DEF TypeInv, TypeOK, Promise
<1>4. link'[i] = k /\ opens'[i] = "pending" /\ \A j \in Channel \ {i} : link'[j] = link[j] /\ opens'[j] = opens[j]
  BY <1>1 DEF TypeInv, TypeOK
<1>5. Linked'
  BY <1>1, <1>2, <1>3, <1>4 DEF TypeInv, Linked
<1> QED
  BY <1>3, <1>5

LEMMA ProgramTyped ==
  ASSUME TypeInv, Program
  PROVE  TypeInv'
<1> USE DEF Wires, TypeInv
<1>1. ASSUME NEW i \in Channel, OpenListen(i)
      PROVE  TypeInv'
  <2>1. PICK k \in Conn : Opened(i, k) /\ toNode' = Sent(toNode, k, [what |-> "open", id |-> i])
    BY <1>1 DEF OpenListen
  <2>2. toNode' \in Wires
    BY <2>1, SentTyped, MessageFacts DEF TypeOK
  <2>3. opentimer' = opentimer
    BY <1>1 DEF OpenListen
  <2> QED
    BY <1>1, <2>1, <2>2, <2>3, OpenedTyped DEF OpenListen, nodes, node, TypeOK
<1>2. ASSUME NEW i \in Channel, OpenConnect(i)
      PROVE  TypeInv'
  <2>1. PICK k \in Conn :
          Opened(i, k) /\ sock' = [sock EXCEPT ![k] = "connecting"] /\ chans' = [chans EXCEPT ![k] = {i}]
    BY <1>2 DEF OpenConnect
  <2>2. opentimer' = opentimer \cup {i}
    BY <1>2 DEF OpenConnect
  <2> QED
    BY <1>2, <2>1, <2>2, OpenedTyped DEF OpenConnect, nodes, net, node, TypeOK
<1>3. ASSUME NEW i \in Channel, NEW j \in Channel, OpenShared(j, i)
      PROVE  TypeInv'
  <2> DEFINE k == link[j]
  <2>1. k \in Conn
    BY <1>3 DEF OpenShared, TypeOK, Linked
  <2>2. toNode' \in Wires
    BY <1>3, <2>1, SentTyped, MessageFacts DEF OpenShared, TypeOK
  <2>3. Opened(i, k) /\ opentimer' = opentimer \cup {i}
    BY <1>3 DEF OpenShared
  <2>4. chans' \in [Conn -> SUBSET Channel]
    BY <1>3 DEF OpenShared, TypeOK
  <2> QED
    BY <1>3, <2>1, <2>2, <2>3, <2>4, OpenedTyped DEF OpenShared, nodes, node, TypeOK
<1>4. ASSUME NEW i \in Channel, Close(i)
      PROVE  TypeInv'
  <2>1. link[i] \in Conn \cup {None}
    BY DEF TypeOK
  <2>2. toNode' \in Wires
    BY <1>4, <2>1, SentTyped, MessageFacts DEF Close, TypeOK
  <2>3. Linked'
    BY <1>4 DEF Close, Linked
  <2>4. closes' \in [Channel -> Promise]
    BY <1>4 DEF Close, TypeOK, Promise
  <2> QED
    BY <1>4, <2>2, <2>3, <2>4 DEF Close, nodes, node, TypeOK
<1> QED
  BY <1>1, <1>2, <1>3, <1>4 DEF Program

LEMMA ForgottenTyped ==
  ASSUME TypeInv, NEW k \in Conn, Forgotten(k), link' = link
  PROVE  opens' \in [Channel -> Promise] /\ known' \subseteq Channel /\ opentimer' \subseteq Channel /\ Linked'
<1>1. opens' \in [Channel -> Promise] /\ known' \subseteq known /\ opentimer' \subseteq opentimer
  BY DEF Forgotten, TypeInv, TypeOK, Promise
<1>2. \A i \in Channel : opens'[i] = "none" <=> opens[i] = "none"
  BY DEF Forgotten
<1> QED
  BY <1>1, <1>2 DEF TypeInv, TypeOK, Linked

LEMMA BrokenTyped ==
  ASSUME TypeInv, NEW ks, Broken(ks)
  PROVE  toNode' \in Wires /\ toServer' \in Wires /\ alive' \subseteq Conn
<1>1. <<>> \in Seq(Message)
  OBVIOUS
<1> QED
  BY <1>1 DEF Broken, TypeInv, TypeOK, Wires

\* What the server does with a message, and what it is about.
LEMMA GotFacts ==
  ASSUME TypeInv, NEW k \in Conn, ServerGets(k)
  PROVE  /\ sock[k] = "up" /\ toServer[k] # <<>> /\ 1 \in 1 .. Len(toServer[k])
         /\ toServer' = [toServer EXCEPT ![k] = IF k \in alive' THEN Tail(toServer[k]) ELSE <<>>]
         /\ Tail(toServer[k]) \in Seq(Message)
         /\ UNCHANGED <<mode, link, shared, breaks, node>>
         /\ IF mode = "listen" THEN Renamed(k, life) ELSE UNCHANGED nodes
         /\ \/ \E i \in Channel : i \in known /\ toServer[k][1] = [what |-> "open", id |-> i] /\ RunOpen(i)
            \/ \E i \in Channel : i \in known /\ toServer[k][1] = [what |-> "close", id |-> i] /\ RunClose(i)
            \/ UNCHANGED <<opens, opentimer, closes, known, chans, sock, destroyed, alive, toNode>>
<1> DEFINE msg == Head(toServer[k])
<1>1. toServer[k] # <<>> /\ toServer \in Wires
  BY DEF ServerGets, TypeInv, TypeOK, Wires
<1>2. /\ msg = toServer[k][1] /\ Tail(toServer[k]) \in Seq(Message) /\ 1 \in 1 .. Len(toServer[k])
      /\ msg.what \in {"open", "close"} => msg.id \in Channel /\ msg = [what |-> msg.what, id |-> msg.id]
  BY <1>1, FirstMessage
<1>3. \/ msg.what = "open" /\ msg.id \in known /\ RunOpen(msg.id)
      \/ msg.what = "close" /\ msg.id \in known /\ RunClose(msg.id)
      \/ UNCHANGED <<opens, opentimer, closes, known, chans, sock, destroyed, alive, toNode>>
  BY DEF ServerGets
<1>4. /\ sock[k] = "up"
      /\ toServer' = [toServer EXCEPT ![k] = IF k \in alive' THEN Tail(toServer[k]) ELSE <<>>]
      /\ UNCHANGED <<mode, link, shared, breaks, node>>
      /\ IF mode = "listen" THEN Renamed(k, life) ELSE UNCHANGED nodes
  BY DEF ServerGets
<1>5. CASE msg.what = "open" /\ msg.id \in known /\ RunOpen(msg.id)
  BY <1>1, <1>2, <1>4, <1>5
<1>6. CASE msg.what = "close" /\ msg.id \in known /\ RunClose(msg.id)
  BY <1>1, <1>2, <1>4, <1>6
<1>7. CASE UNCHANGED <<opens, opentimer, closes, known, chans, sock, destroyed, alive, toNode>>
  BY <1>1, <1>2, <1>4, <1>7
<1> QED
  BY <1>3, <1>5, <1>6, <1>7

\* What a close leaves, whether or not the connection goes with it.
LEMMA RunCloseFacts ==
  ASSUME TypeInv, NEW i \in Channel, i \in known, RunClose(i)
  PROVE  /\ link[i] \in Conn
         /\ opens' = [opens EXCEPT ![i] = IF opens[i] = "pending" THEN "rejected" ELSE opens[i]]
         /\ closes' = [closes EXCEPT ![i] = IF closes[i] = "pending" THEN "resolved" ELSE closes[i]]
         /\ opentimer' = opentimer \ {i} /\ known' = known \ {i}
         /\ chans' = [chans EXCEPT ![link[i]] = chans[link[i]] \ {i}]
         /\ \/ UNCHANGED <<destroyed, sock, alive, toNode>>
            \/ /\ mode = "connect" /\ chans[link[i]] = {i}
               /\ destroyed' = destroyed \cup {link[i]} /\ sock' = [sock EXCEPT ![link[i]] = "down"]
               /\ alive' = alive \ {link[i]} /\ toNode' = [toNode EXCEPT ![link[i]] = <<>>]
<1>1. link[i] \in Conn
  BY DEF TypeInv, TypeOK, Linked
<1> QED
  BY <1>1 DEF RunClose, LastOf

LEMMA GetsTyped ==
  ASSUME TypeInv, NEW k \in Conn, ServerGets(k)
  PROVE  TypeInv'
<1>1. toServer' \in [Conn -> Seq(Message)]
  <2> DEFINE rest == IF k \in alive' THEN Tail(toServer[k]) ELSE <<>>
  <2>1. <<>> \in Seq(Message) /\ Tail(toServer[k]) \in Seq(Message)
    BY GotFacts
  <2>2. rest \in Seq(Message)
    BY <2>1
  <2>3. toServer' = [toServer EXCEPT ![k] = rest]
    BY GotFacts
  <2>4. toServer \in [Conn -> Seq(Message)]
    BY DEF TypeInv, TypeOK
  <2> HIDE DEF rest
  <2> QED
    BY <2>2, <2>3, <2>4
<1>2. /\ unnamed' \subseteq Conn /\ named' \in [Life -> Conn \cup {None}] /\ nameof' \in [Conn -> Life \cup {None}]
      /\ listening' = listening
  <2>1. UNCHANGED nodes \/ Renamed(k, life)
    BY GotFacts
  <2>2. CASE UNCHANGED nodes
    BY <2>2 DEF nodes, TypeInv, TypeOK
  <2>3. CASE Renamed(k, life)
    <3>1. life \in Life /\ named \in [Life -> Conn \cup {None}] /\ nameof \in [Conn -> Life \cup {None}] /\ unnamed \subseteq Conn
      BY DEF TypeInv, TypeOK
    <3> QED
      BY <2>3, <3>1 DEF Renamed, nodes
  <2> QED
    BY <2>1, <2>2, <2>3
<1> DEFINE Served ==
      /\ opens' \in [Channel -> Promise] /\ closes' \in [Channel -> Promise]
      /\ opentimer' \subseteq Channel /\ known' \subseteq Channel /\ chans' \in [Conn -> SUBSET Channel]
      /\ sock' \in [Conn -> {"none", "connecting", "up", "down"}]
      /\ destroyed' \subseteq Conn /\ alive' \subseteq Conn /\ toNode' \in [Conn -> Seq(Message)]
      /\ Linked'
<1>3. Served
  <2> USE DEF Promise
  <2>0. link' = link
    BY GotFacts
  <2>1. ASSUME NEW i \in Channel, RunOpen(i)
        PROVE  Served
    BY <2>0, <2>1 DEF RunOpen, TypeInv, TypeOK, Linked
  <2>2. ASSUME NEW i \in Channel, i \in known, RunClose(i)
        PROVE  Served
    <3>1. <<>> \in Seq(Message)
      OBVIOUS
    <3>2. Linked'
      <4>1. /\ opens' = [opens EXCEPT ![i] = IF opens[i] = "pending" THEN "rejected" ELSE opens[i]]
            /\ known' \subseteq known /\ opentimer' \subseteq opentimer
        BY <2>2, RunCloseFacts
      <4>2. \A j \in Channel : opens'[j] = "none" <=> opens[j] = "none"
        BY <4>1 DEF TypeInv, TypeOK
      <4> QED
        BY <2>0, <4>1, <4>2 DEF TypeInv, TypeOK, Linked
    <3> DEFINE l == link[i]
    <3>3. /\ l \in Conn
          /\ opens' = [opens EXCEPT ![i] = IF opens[i] = "pending" THEN "rejected" ELSE opens[i]]
          /\ closes' = [closes EXCEPT ![i] = IF closes[i] = "pending" THEN "resolved" ELSE closes[i]]
          /\ opentimer' = opentimer \ {i} /\ known' = known \ {i}
          /\ chans' = [chans EXCEPT ![l] = chans[l] \ {i}]
      BY <2>2, RunCloseFacts
    <3>8. \/ UNCHANGED <<destroyed, sock, alive, toNode>>
          \/ /\ destroyed' = destroyed \cup {l} /\ sock' = [sock EXCEPT ![l] = "down"]
             /\ alive' = alive \ {l} /\ toNode' = [toNode EXCEPT ![l] = <<>>]
      BY <2>2, RunCloseFacts
    <3> HIDE DEF l
    <3>4. /\ opens' \in [Channel -> Promise] /\ closes' \in [Channel -> Promise]
          /\ opentimer' \subseteq Channel /\ known' \subseteq Channel
      BY <3>3 DEF TypeInv, TypeOK
    <3>5. chans' \in [Conn -> SUBSET Channel]
      BY <3>3 DEF TypeInv, TypeOK
    <3>6. /\ sock' \in [Conn -> {"none", "connecting", "up", "down"}]
          /\ destroyed' \subseteq Conn /\ alive' \subseteq Conn
      BY <3>3, <3>8 DEF TypeInv, TypeOK
    <3>7. toNode' \in [Conn -> Seq(Message)]
      <4>1. toNode \in [Conn -> Seq(Message)]
        BY DEF TypeInv, TypeOK
      <4>2. toNode' = toNode \/ toNode' = [toNode EXCEPT ![l] = <<>>]
        BY <3>8
      <4> QED
        BY <3>1, <3>3, <4>1, <4>2
    <3> QED
      BY <3>2, <3>4, <3>5, <3>6, <3>7
  <2>3. CASE UNCHANGED <<opens, opentimer, closes, known, chans, sock, destroyed, alive, toNode>>
    BY <2>0, <2>3 DEF TypeInv, TypeOK, Linked
  <2> QED
    <3> HIDE DEF Served
    <3> QED
      BY <2>1, <2>2, <2>3, GotFacts
<1>4. UNCHANGED <<mode, link, shared, breaks, node>>
  BY GotFacts
<1> QED
  BY <1>1, <1>2, <1>3, <1>4 DEF node, TypeInv, TypeOK

LEMMA SocketsTyped ==
  ASSUME TypeInv, NEW k \in Conn, Sockets(k)
  PROVE  TypeInv'
<1>1. CASE ServerGets(k)
  BY <1>1, GetsTyped
<1>2. CASE ServerSees(k)
  <2>1. Forgotten(k) /\ link' = link
    BY <1>2 DEF ServerSees
  <2>2. opens' \in [Channel -> Promise] /\ known' \subseteq Channel /\ opentimer' \subseteq Channel /\ Linked'
    BY <2>1, ForgottenTyped
  <2>3. sock' \in [Conn -> {"none", "connecting", "up", "down"}]
    BY <1>2 DEF ServerSees, TypeInv, TypeOK
  <2>4. named' \in [Life -> Conn \cup {None}] /\ unnamed' \subseteq Conn
    BY <1>2 DEF ServerSees, TypeInv, TypeOK
  <2> QED
    BY <1>2, <2>2, <2>3, <2>4 DEF ServerSees, net, node, TypeInv, TypeOK
<1>3. CASE Connected(k)
  <2>1. PICK i \in chans[k] : toNode' = [toNode EXCEPT ![k] = <<[what |-> "open", id |-> i]>>]
    BY <1>3 DEF Connected
  <2>2. i \in Channel
    BY <2>1 DEF TypeInv, TypeOK
  <2>3. [what |-> "open", id |-> i] \in Message
    BY <2>2, MessageFacts
  <2>4. <<[what |-> "open", id |-> i]>> \in Seq(Message)
    BY <2>3
  <2>5. toNode' \in [Conn -> Seq(Message)]
    BY <2>1, <2>4 DEF TypeInv, TypeOK
  <2>6. /\ sock' \in [Conn -> {"none", "connecting", "up", "down"}]
        /\ nside' \in [Conn -> {"none", "up", "down"}] /\ alive' \subseteq Conn
    BY <1>3 DEF Connected, TypeInv, TypeOK
  <2> QED
    BY <1>3, <2>5, <2>6 DEF Connected, promises, nodes, TypeInv, TypeOK, Linked
<1>4. CASE NodeGets(k)
  <2> DEFINE msg == Head(toNode[k])
  <2>1. toNode[k] # <<>> /\ toNode \in Wires
    BY <1>4 DEF NodeGets, TypeInv, TypeOK, Wires
  <2>2. Tail(toNode[k]) \in Seq(Message) /\ (msg.what \in {"open", "close"} => msg.id \in Channel)
    BY <2>1, FirstMessage
  <2>3. toNode' \in [Conn -> Seq(Message)]
    BY <1>4, <2>2 DEF NodeGets, TypeInv, TypeOK
  <2>4. \/ \E i \in Channel : nchan' = [nchan EXCEPT ![i] = "opening"] /\ ncon' = [ncon EXCEPT ![i] = k]
        \/ \E i \in Channel : nchan' = [nchan EXCEPT ![i] = "closing"] /\ ncon' = ncon
        \/ nchan' = nchan /\ ncon' = ncon
    BY <1>4, <2>2 DEF NodeGets
  <2>5. nchan' \in [Channel -> {"none", "opening", "open", "closing", "closed", "failed", "dead"}]
    BY <2>4 DEF TypeInv, TypeOK
  <2>6. ncon' \in [Channel -> Conn \cup {None}]
    BY <2>4 DEF TypeInv, TypeOK
  <2> QED
    BY <1>4, <2>3, <2>5, <2>6 DEF NodeGets, server, promises, nodes, TypeInv, TypeOK, Linked
<1>6. CASE NodeSwallows(k)
  <2>1. toNode[k] # <<>> /\ toNode \in Wires
    BY <1>6 DEF NodeSwallows, TypeInv, TypeOK, Wires
  <2>2. Tail(toNode[k]) \in Seq(Message)
    BY <2>1, FirstMessage
  <2>3. toNode' \in [Conn -> Seq(Message)]
    BY <1>6, <2>2 DEF NodeSwallows, TypeInv, TypeOK
  <2>4. garbled' \in BOOLEAN
    BY <1>6 DEF NodeSwallows
  <2> QED
    BY <1>6, <2>3, <2>4 DEF NodeSwallows, server, promises, nodes, TypeInv, TypeOK, Linked
<1>5. CASE NodeSees(k)
  <2>1. timers' \in 0 .. 1 /\ nside' \in [Conn -> {"none", "up", "down"}]
    BY <1>5 DEF NodeSees, RunReconnect, TypeInv, TypeOK
  <2> QED
    BY <1>5, <2>1 DEF NodeSees, server, promises, nodes, net, TypeInv, TypeOK, Linked
<1> QED
  BY <1>1, <1>2, <1>3, <1>4, <1>5, <1>6 DEF Sockets

LEMMA TellTyped ==
  ASSUME TypeInv, NEW i \in Channel, NEW msg \in Message, Tell(i, msg)
  PROVE  toServer' \in [Conn -> Seq(Message)]
<1>1. EventConn(i) \in Conn \cup {None} /\ toServer \in Wires
  BY DEF EventConn, TypeInv, TypeOK, Wires
<1> QED
  BY <1>1, SentTyped DEF Tell, Wires, TypeInv

LEMMA OthersTyped ==
  ASSUME TypeInv,
         Faults \/ Operator \/ NodeConnects \/ \E i \in Channel :
           OpenTimesOut(i) \/ CloseTimesOut(i) \/ NodeOpens(i) \/ NodeOpenFails(i) \/ NodeCloses(i)
  PROVE  TypeInv'
<1>1. CASE Dies
  <2>1. Broken(alive)
    BY <1>1 DEF Dies
  <2>2. toNode' \in Wires /\ toServer' \in Wires /\ alive' \subseteq Conn
    BY <2>1, BrokenTyped
  <2>3. life' \in Life
    BY <1>1, ConstantsAreTyped DEF Dies, TypeInv, TypeOK, Life
  <2>4. /\ nside' \in [Conn -> {"none", "up", "down"}] /\ timers' \in 0 .. 1 /\ current' \in Conn \cup {None}
        /\ nchan' \in [Channel -> {"none", "opening", "open", "closing", "closed", "failed", "dead"}]
    BY <1>1 DEF Dies, TypeInv, TypeOK
  <2>5. garbled' \in BOOLEAN
    BY <1>1 DEF Dies
  <2> QED
    BY <1>1, <2>2, <2>3, <2>4, <2>5 DEF Dies, server, promises, nodes, TypeInv, TypeOK, Linked, Wires
<1>2. ASSUME NEW k \in Conn, Break(k)
      PROVE  TypeInv'
  <2>1. Broken({k})
    BY <1>2 DEF Break
  <2>2. toNode' \in Wires /\ toServer' \in Wires /\ alive' \subseteq Conn
    BY <2>1, BrokenTyped
  <2>3. breaks' \in 0 .. MaxBreaks
    BY <1>2, ConstantsAreTyped DEF Break, TypeInv, TypeOK
  <2>4. garbled' \in BOOLEAN
    BY <1>2 DEF Break, Cut, TypeInv, TypeOK
  <2> QED
    BY <1>2, <2>2, <2>3, <2>4 DEF Break, server, promises, nodes, TypeInv, TypeOK, Linked, Wires
<1>3. ASSUME NEW k \in Conn, Refused(k)
      PROVE  TypeInv'
  <2>1. Forgotten(k) /\ link' = link
    BY <1>3 DEF Refused
  <2>2. opens' \in [Channel -> Promise] /\ known' \subseteq Channel /\ opentimer' \subseteq Channel /\ Linked'
    BY <2>1, ForgottenTyped
  <2>3. sock' \in [Conn -> {"none", "connecting", "up", "down"}]
    BY <1>3 DEF Refused, TypeInv, TypeOK
  <2>4. breaks' \in 0 .. MaxBreaks
    BY <1>3, ConstantsAreTyped DEF Refused, TypeInv, TypeOK
  <2> QED
    BY <1>3, <2>2, <2>3, <2>4 DEF Refused, nodes, node, TypeInv, TypeOK
<1>4. CASE NodeConnects
  <2>1. PICK k \in Conn :
       /\ sock' = [sock EXCEPT ![k] = "up"] /\ nside' = [nside EXCEPT ![k] = "up"]
       /\ alive' = alive \cup {k} /\ unnamed' = unnamed \cup {k} /\ current' = k
       /\ toServer' = [toServer EXCEPT ![k] = <<[what |-> "hello"]>>]
    BY <1>4 DEF NodeConnects
  <2>2. <<[what |-> "hello"]>> \in Seq(Message)
    BY MessageFacts
  <2>3. toServer' \in [Conn -> Seq(Message)]
    BY <2>1, <2>2 DEF TypeInv, TypeOK
  <2>4. timers' \in 0 .. 1
    BY <1>4 DEF NodeConnects, TypeInv, TypeOK
  <2>5. /\ sock' \in [Conn -> {"none", "connecting", "up", "down"}] /\ nside' \in [Conn -> {"none", "up", "down"}]
        /\ alive' \subseteq Conn /\ unnamed' \subseteq Conn /\ current' \in Conn \cup {None}
    BY <2>1 DEF TypeInv, TypeOK
  <2> QED
    BY <1>4, <2>3, <2>4, <2>5 DEF NodeConnects, promises, TypeInv, TypeOK, Linked
<1>5. ASSUME NEW i \in Channel, OpenTimesOut(i)
      PROVE  TypeInv'
  <2>1. opens' \in [Channel -> Promise] /\ opentimer' \subseteq Channel
    BY <1>5 DEF OpenTimesOut, TypeInv, TypeOK, Promise
  <2>2. Linked'
    BY <1>5 DEF OpenTimesOut, TypeInv, TypeOK, Linked
  <2> QED
    BY <1>5, <2>1, <2>2 DEF OpenTimesOut, nodes, net, node, TypeInv, TypeOK
<1>6. ASSUME NEW i \in Channel, CloseTimesOut(i)
      PROVE  TypeInv'
  <2>1. closes' \in [Channel -> Promise]
    BY <1>6 DEF CloseTimesOut, TypeInv, TypeOK, Promise
  <2> QED
    BY <1>6, <2>1 DEF CloseTimesOut, nodes, net, node, TypeInv, TypeOK, Linked
<1>7. ASSUME NEW i \in Channel, NodeOpens(i) \/ NodeOpenFails(i) \/ NodeCloses(i)
      PROVE  TypeInv'
  <2>1. \E msg \in Message : Tell(i, msg)
    BY <1>7, MessageFacts DEF NodeOpens, NodeOpenFails, NodeCloses
  <2>2. toServer' \in [Conn -> Seq(Message)]
    BY <2>1, TellTyped
  <2>3. nchan' \in [Channel -> {"none", "opening", "open", "closing", "closed", "failed", "dead"}]
    <3>1. \E what \in {"open", "failed", "closed"} : nchan' = [nchan EXCEPT ![i] = what]
      BY <1>7 DEF NodeOpens, NodeOpenFails, NodeCloses
    <3> QED
      BY <3>1 DEF TypeInv, TypeOK
  <2>4. UNCHANGED <<mode, server, alive, toNode, breaks, life, nside, current, timers, garbled, ncon>>
    BY <1>7 DEF NodeOpens, NodeOpenFails, NodeCloses
  <2> QED
    BY <2>2, <2>3, <2>4 DEF server, promises, nodes, TypeInv, TypeOK, Linked
<1>8. CASE NodeConnectFails
  <2>1. timers' \in 0 .. 1
    BY <1>8 DEF NodeConnectFails, RunReconnect, TypeInv, TypeOK
  <2>2. breaks' \in 0 .. MaxBreaks
    BY <1>8, ConstantsAreTyped DEF NodeConnectFails, TypeInv, TypeOK
  <2> QED
    BY <1>8, <2>1, <2>2 DEF NodeConnectFails, server, promises, nodes, TypeInv, TypeOK, Linked
<1>9. CASE Operator
  <2>1. PICK ks \in SUBSET Conn : Destroyed(ks)
    <3>1. {k \in Conn : Registered(k)} \in SUBSET Conn
      OBVIOUS
    <3>2. ASSUME NEW n \in Life, CloseNode(n)
          PROVE  {named[n]} \in SUBSET Conn /\ Destroyed({named[n]})
      BY <3>2 DEF CloseNode, TypeInv, TypeOK
    <3> QED
      BY <1>9, <3>1, <3>2 DEF Operator, Destroy
  <2>2. toNode' \in Wires /\ toServer' \in Wires /\ alive' \subseteq Conn
    BY <2>1, BrokenTyped DEF Destroyed
  <2>3. sock' \in [Conn -> {"none", "connecting", "up", "down"}] /\ destroyed' \subseteq Conn
    BY <2>1 DEF Destroyed, TypeInv, TypeOK
  <2>4. garbled' \in BOOLEAN
    BY <2>1 DEF Destroyed, Cut, TypeInv, TypeOK
  <2>5. breaks' \in 0 .. MaxBreaks /\ unnamed' \subseteq Conn /\ named' \in [Life -> Conn \cup {None}]
    <3>1. breaks < MaxBreaks /\ breaks' = breaks + 1
      BY <1>9 DEF Operator, Destroy, CloseNode
    <3>2. \/ unnamed' = {} /\ named' = [n \in Life |-> None]
          \/ unnamed' = unnamed /\ \E n \in Life : named' = [named EXCEPT ![n] = None]
      BY <1>9 DEF Operator, Destroy, CloseNode
    <3>3. breaks' \in 0 .. MaxBreaks
      BY <3>1, ConstantsAreTyped DEF TypeInv, TypeOK
    <3>4. unnamed' \subseteq Conn /\ named' \in [Life -> Conn \cup {None}]
      BY <3>2 DEF TypeInv, TypeOK
    <3> QED
      BY <3>3, <3>4
  <2>7. listening' \in BOOLEAN
    BY <1>9 DEF Operator, Destroy, CloseNode, TypeInv, TypeOK
  <2>6. UNCHANGED <<mode, promises, nameof, life, nside, current, timers, nchan, ncon>>
    BY <2>1 DEF Destroyed
  <2> QED
    BY <2>2, <2>3, <2>4, <2>5, <2>6, <2>7 DEF promises, TypeInv, TypeOK, Linked, Wires
<1> QED
  BY <1>1, <1>2, <1>3, <1>4, <1>5, <1>6, <1>7, <1>8, <1>9 DEF Faults

LEMMA NextTyped ==
  ASSUME TypeInv, [Next]_vars
  PROVE  TypeInv'
<1>1. CASE UNCHANGED vars
  BY <1>1 DEF vars, server, promises, nodes, net, node, TypeInv, TypeOK, Linked
<1>2. CASE Next
  BY <1>2, ProgramTyped, SocketsTyped, OthersTyped DEF Next
<1> QED
  BY <1>1, <1>2

\* Every variable has its type, for any numbers of channels, connections and lives.
THEOREM TypeCorrect == Spec => []TypeOK
<1>1. TypeInv /\ [Next]_vars => TypeInv'
  BY NextTyped
<1>2. TypeInv => TypeOK
  BY DEF TypeInv
<1> QED
  BY <1>1, <1>2, InitTyped, PTL DEF Spec

-----------------------------------------------------------------------------
(* What is on a wire. *)

OnWire(wire, k, msg) == \E p \in 1 .. Len(wire[k]) : wire[k][p] = msg

\* A message is on a wire at most once.
Once(wire, k, msg) == \A p, q \in 1 .. Len(wire[k]) : wire[k][p] = msg /\ wire[k][q] = msg => p = q

OpenMsg(i) == [what |-> "open", id |-> i]
CloseMsg(i) == [what |-> "close", id |-> i]

LEMMA MessagesDiffer ==
  /\ \A i, j : (OpenMsg(i) = OpenMsg(j) => i = j) /\ (CloseMsg(i) = CloseMsg(j) => i = j) /\ OpenMsg(i) # CloseMsg(j)
  /\ \A i : /\ OpenMsg(i) # [what |-> "error"] /\ CloseMsg(i) # [what |-> "error"]
            /\ OpenMsg(i) # [what |-> "hello"] /\ CloseMsg(i) # [what |-> "hello"]
<1>1. \A i : OpenMsg(i).what = "open" /\ OpenMsg(i).id = i /\ CloseMsg(i).what = "close" /\ CloseMsg(i).id = i
  BY DEF OpenMsg, CloseMsg
<1>2. [what |-> "error"].what = "error" /\ [what |-> "hello"].what = "hello"
  OBVIOUS
<1> QED
  BY <1>1, <1>2

\* Sending puts the message behind those on the wire.
LEMMA SentOn ==
  ASSUME TypeInv, NEW wire \in Wires, NEW k \in Conn \cup {None}, NEW msg \in Message, NEW l \in Conn, NEW x
  PROVE  /\ OnWire(Sent(wire, k, msg), l, x) => OnWire(wire, l, x) \/ (l = k /\ k \in alive /\ x = msg)
         /\ Once(wire, l, x) /\ (x = msg => ~OnWire(wire, l, x)) => Once(Sent(wire, k, msg), l, x)
<1> DEFINE new == Sent(wire, k, msg)
<1>1. CASE k \in alive /\ l = k
  <2> DEFINE old == wire[l]
  <2>1. old \in Seq(Message) /\ wire \in [Conn -> Seq(Message)]
    BY DEF Wires
  <2>2. new[l] = Append(old, msg)
    BY <1>1, <2>1 DEF Sent
  <2>3. /\ Len(new[l]) = Len(old) + 1 /\ Len(old) \in Nat
        /\ \A p \in 1 .. Len(old) : new[l][p] = old[p]
        /\ new[l][Len(old) + 1] = msg
    BY <2>1, <2>2, AppendFacts
  <2>4. \A p \in 1 .. Len(new[l]) : p \in 1 .. Len(old) \/ p = Len(old) + 1
    BY <2>3
  <2> HIDE DEF new, old
  <2>5. OnWire(new, l, x) => OnWire(wire, l, x) \/ x = msg
    BY <2>3, <2>4 DEF OnWire, old
  <2>6. ASSUME Once(wire, l, x), x = msg => ~OnWire(wire, l, x)
        PROVE  Once(new, l, x)
    <3>1. ASSUME NEW p \in 1 .. Len(new[l]), NEW q \in 1 .. Len(new[l]), new[l][p] = x, new[l][q] = x
          PROVE  p = q
      <4>1. (p \in 1 .. Len(old) \/ p = Len(old) + 1) /\ (q \in 1 .. Len(old) \/ q = Len(old) + 1)
        BY <2>4
      <4>2. CASE x = msg
        BY <2>3, <2>6, <3>1, <4>1, <4>2 DEF OnWire, old
      <4>3. CASE x # msg
        BY <2>3, <2>6, <3>1, <4>1, <4>3 DEF Once, old
      <4> QED
        BY <4>2, <4>3
    <3> QED
      BY <3>1 DEF Once
  <2> QED
    BY <1>1, <2>5, <2>6 DEF new
<1>2. CASE ~(k \in alive /\ l = k)
  <2>1. new[l] = wire[l]
    BY <1>2 DEF Sent, Wires
  <2> QED
    BY <2>1 DEF OnWire, Once
<1> QED
  BY <1>1, <1>2

\* Wires on which messages are taken or lost.
Shrunk(new, old) ==
  \A k \in Conn : new[k] = old[k] \/ new[k] = <<>> \/ (old[k] # <<>> /\ new[k] = Tail(old[k]))

LEMMA ShrunkOn ==
  ASSUME NEW old \in Wires, NEW new, Shrunk(new, old), NEW k \in Conn, NEW x
  PROVE  /\ OnWire(new, k, x) => OnWire(old, k, x)
         /\ Once(old, k, x) => Once(new, k, x)
<1>0. old[k] \in Seq(Message)
  BY DEF Wires
<1>1. CASE new[k] = old[k]
  BY <1>1 DEF OnWire, Once
<1>2. CASE new[k] = <<>>
  BY <1>2 DEF OnWire, Once
<1>3. CASE old[k] # <<>> /\ new[k] = Tail(old[k])
  <2>1. /\ \A i \in 1 .. Len(new[k]) : new[k][i] = old[k][i + 1] /\ i + 1 \in 2 .. Len(old[k])
        /\ Len(old[k]) \in Nat
    BY <1>0, <1>3, TailFacts
  <2>2. \A i \in 1 .. Len(new[k]) : new[k][i] = old[k][i + 1] /\ i + 1 \in 1 .. Len(old[k])
    BY <2>1
  <2>3. OnWire(new, k, x) => OnWire(old, k, x)
    BY <2>2 DEF OnWire
  <2>4. ASSUME Once(old, k, x), NEW p \in 1 .. Len(new[k]), NEW q \in 1 .. Len(new[k]), new[k][p] = x, new[k][q] = x
        PROVE  p = q
    <3>1. p + 1 = q + 1
      BY <2>2, <2>4 DEF Once
    <3> QED
      BY <3>1
  <2> QED
    BY <2>3, <2>4 DEF Once
<1> QED
  BY <1>1, <1>2, <1>3 DEF Shrunk

\* A message that was there once has left with the first.
LEMMA TakenOnce ==
  ASSUME NEW old \in Wires, NEW k \in Conn, old[k] # <<>>, Once(old, k, old[k][1])
  PROVE  ~OnWire([old EXCEPT ![k] = Tail(old[k])], k, old[k][1])
<1> DEFINE new == [old EXCEPT ![k] = Tail(old[k])]
<1>1. old[k] \in Seq(Message) /\ new[k] = Tail(old[k])
  BY DEF Wires
<1>2. /\ \A i \in 1 .. Len(new[k]) : new[k][i] = old[k][i + 1] /\ i + 1 \in 2 .. Len(old[k])
      /\ Len(old[k]) \in Nat /\ 1 \in 1 .. Len(old[k])
  BY <1>1, TailFacts
<1> HIDE DEF new
<1>3. ASSUME NEW p \in 1 .. Len(new[k]), new[k][p] = old[k][1]
      PROVE  FALSE
  <2>1. p + 1 \in 1 .. Len(old[k]) /\ old[k][p + 1] = old[k][1] /\ p + 1 # 1
    BY <1>2, <1>3
  <2> QED
    BY <1>2, <2>1 DEF Once
<1> QED
  BY <1>3 DEF OnWire, new

-----------------------------------------------------------------------------
(* The inductive invariant. *)

\* Only a whole connection carries messages, and only while the server has its end.
WiresInv ==
  /\ \A k \in alive : sock[k] = "up"
  /\ \A k \in Conn : k \notin alive => toNode[k] = <<>> /\ toServer[k] = <<>>

\* The server's map of nodes: a connection is in it from its beginning to its end,
\* under one name, which is the node's as long as the connection is whole.
NodesInv ==
  /\ \A k \in unnamed : mode = "listen" /\ sock[k] = "up" /\ nameof[k] = None
  /\ \A n \in Life : named[n] # None =>
       mode = "listen" /\ sock[named[n]] = "up" /\ nameof[named[n]] = n
  /\ mode = "listen" =>
       \A k \in Conn : sock[k] = "up" => k \in unnamed \/ (nameof[k] # None /\ named[nameof[k]] = k)
  /\ \A k \in Conn : nameof[k] # None => sock[k] \in {"up", "down"} /\ (k \in alive => nameof[k] = life)
  /\ mode = "listen" => \A k \in Conn : sock[k] # "connecting"
  /\ listening => mode = "listen"

\* The node that connects has one connection, or a timer.
LiveInv ==
  mode = "listen" =>
    /\ \A j, k \in Conn : nside[j] = "up" /\ nside[k] = "up" => j = k
    /\ timers > 0 => \A k \in Conn : nside[k] # "up"

\* The node hears of a channel once, on the channel's connection, and before anything else.
AskInv ==
  /\ \A k \in Conn, i \in Channel : OnWire(toNode, k, OpenMsg(i)) => link[i] = k /\ nchan[i] = "none"
  /\ \A k \in Conn, i \in Channel : Once(toNode, k, OpenMsg(i))
  /\ \A i \in Channel : opens[i] = "none" => nchan[i] = "none"
  /\ \A i \in Channel : link[i] # None =>
       sock[link[i]] # "none" /\ (sock[link[i]] = "connecting" => nchan[i] = "none")
  /\ \A i \in Channel : nchan[i] # "none" => ncon[i] = link[i]
  /\ \A k \in Conn : \A i \in chans[k] : link[i] = k

Reached == {"open", "closing", "closed", "dead"}

\* What is on its way to the server is true, and has been sent on the channel's connection.
ToldInv ==
  /\ \A k \in Conn, i \in Channel : OnWire(toServer, k, OpenMsg(i)) => nchan[i] \in Reached
  /\ \A k \in Conn, i \in Channel : OnWire(toServer, k, CloseMsg(i)) => nchan[i] = "closed"
  /\ mode = "connect" =>
       \A k \in Conn, i \in Channel :
         OnWire(toServer, k, OpenMsg(i)) \/ OnWire(toServer, k, CloseMsg(i)) => link[i] = k
  /\ PromisesTrue

\* Every channel that is not closed is among those of its connection.
SharedInv ==
  /\ mode = "connect" =>
       /\ \A i \in known : i \in chans[link[i]]
       /\ \A i \in Channel : opens[i] # "none" => i \in chans[link[i]] \/ nchan[i] = "closed"
  /\ \A k \in destroyed : sock[k] = "down"
  /\ mode = "connect" => \A i \in Channel : link[i] \in destroyed => nchan[i] \in {"none", "closed"}
  /\ KnownIsReachable

Inv == TypeInv /\ WiresInv /\ NodesInv /\ LiveInv /\ AskInv /\ ToldInv /\ SharedInv

LEMMA InitHolds == Init => Inv
<1> SUFFICES ASSUME Init
             PROVE  Inv
  OBVIOUS
<1>1. TypeInv
  BY InitTyped
<1>2. \A k \in Conn : \A x : ~OnWire(toNode, k, x) /\ ~OnWire(toServer, k, x) /\ Once(toNode, k, x)
  BY DEF Init, OnWire, Once
<1>3. WiresInv /\ NodesInv /\ LiveInv
  BY DEF Init, WiresInv, NodesInv, LiveInv
<1>4. AskInv
  BY <1>2, ConstantsAreTyped DEF Init, AskInv
<1>5. ToldInv
  BY <1>2 DEF Init, ToldInv, PromisesTrue
<1>6. SharedInv
  BY ConstantsAreTyped DEF Init, SharedInv, KnownIsReachable
<1> QED
  BY <1>1, <1>3, <1>4, <1>5, <1>6 DEF Inv

-----------------------------------------------------------------------------
(* Wires, and what each step makes of them. *)

LEMMA BrokenShrinks ==
  ASSUME NEW ks, Broken(ks)
  PROVE  Shrunk(toNode', toNode) /\ Shrunk(toServer', toServer)
  BY DEF Broken, Shrunk

\* What the program has the server destroy: connections of nodes, that have their names
\* in the map no more.
LEMMA OperatorFacts ==
  ASSUME Inv, Operator
  PROVE  /\ mode = "listen" /\ (listening' => listening)
         /\ \E ks \in SUBSET Conn :
              /\ Destroyed(ks)
              /\ \A k \in ks : sock[k] = "up"
              /\ unnamed' = unnamed \ ks
              /\ \A n \in Life : named'[n] = IF named[n] \in ks THEN None ELSE named[n]
<1>0. TypeOK /\ NodesInv
  BY DEF Inv, TypeInv
<1>1. ASSUME NEW n \in Life, CloseNode(n)
      PROVE  /\ mode = "listen" /\ listening' = listening
             /\ \E ks \in SUBSET Conn :
                  /\ Destroyed(ks)
                  /\ \A k \in ks : sock[k] = "up"
                  /\ unnamed' = unnamed \ ks
                  /\ \A m \in Life : named'[m] = IF named[m] \in ks THEN None ELSE named[m]
  <2> DEFINE k == named[n]
  <2>1. k \in Conn /\ Destroyed({k}) /\ k # None
    BY <1>0, <1>1 DEF CloseNode, TypeOK
  <2>2. mode = "listen" /\ sock[k] = "up" /\ nameof[k] = n
    BY <1>0, <2>1 DEF NodesInv
  <2>3. unnamed' = unnamed /\ listening' = listening /\ named' = [named EXCEPT ![n] = None]
    BY <1>1 DEF CloseNode
  <2>4. k \notin unnamed
    BY <1>0, <2>2, ConstantsAreTyped DEF NodesInv
  <2>5. \A m \in Life : named[m] = k => m = n
    BY <1>0, <2>1, <2>2 DEF NodesInv
  <2>6. named[n] = k
    OBVIOUS
  <2> HIDE DEF k
  <2>7. \A m \in Life : named'[m] = IF named[m] \in {k} THEN None ELSE named[m]
    BY <1>0, <2>3, <2>5, <2>6 DEF TypeOK
  <2>8. unnamed' = unnamed \ {k}
    BY <2>3, <2>4
  <2> QED
    BY <2>1, <2>2, <2>3, <2>7, <2>8
<1>2. CASE Destroy
  <2> DEFINE ks == {k \in Conn : Registered(k)}
  <2>1. listening /\ Destroyed(ks) /\ unnamed' = {} /\ named' = [n \in Life |-> None] /\ listening' = FALSE
    BY <1>2 DEF Destroy
  <2>2. \A k \in ks : sock[k] = "up"
    BY <1>0, ConstantsAreTyped DEF Registered, NodesInv
  <2>3. unnamed \ ks = {} /\ \A n \in Life : named[n] \in ks \/ named[n] = None
    BY <1>0 DEF Registered, TypeOK
  <2>4. ks \in SUBSET Conn
    OBVIOUS
  <2> HIDE DEF ks
  <2>5. \A n \in Life : named'[n] = IF named[n] \in ks THEN None ELSE named[n]
    BY <2>1, <2>3
  <2>6. mode = "listen"
    BY <1>0, <2>1 DEF NodesInv
  <2> QED
    BY <2>1, <2>2, <2>3, <2>4, <2>5, <2>6
<1> QED
  BY <1>1, <1>2 DEF Operator

\* What the server takes from a wire.
LEMMA GetsShrinks ==
  ASSUME TypeInv, NEW k \in Conn, ServerGets(k)
  PROVE  Shrunk(toServer', toServer)
<1>1. toServer[k] # <<>> /\ toServer' = [toServer EXCEPT ![k] = IF k \in alive' THEN Tail(toServer[k]) ELSE <<>>]
  BY GotFacts
<1> QED
  BY <1>1 DEF Shrunk, TypeInv, TypeOK

\* How toServer changes: it shrinks, but for what the node sends.
LEMMA ToServerSteps ==
  ASSUME Inv, Next
  PROVE  \/ Shrunk(toServer', toServer)
         \/ \E k \in Conn : sock[k] = "none" /\ toServer' = [toServer EXCEPT ![k] = <<[what |-> "hello"]>>]
         \/ \E i \in Channel : NodeOpens(i) \/ NodeOpenFails(i) \/ NodeCloses(i)
<1>1. toServer' = toServer => Shrunk(toServer', toServer)
  BY DEF Shrunk
<1>2. CASE Program
  BY <1>1, <1>2 DEF Program, OpenListen, OpenConnect, OpenShared, Close, net
<1>3. CASE Dies
  BY <1>3 DEF Dies, Broken, Shrunk
<1>4. ASSUME NEW k \in Conn, Break(k)
      PROVE  Shrunk(toServer', toServer)
  BY <1>4 DEF Break, Broken, Shrunk
<1>5. ASSUME NEW k \in Conn, Sockets(k)
      PROVE  Shrunk(toServer', toServer)
  <2>1. CASE ServerGets(k)
    BY <2>1, GetsShrinks DEF Inv
  <2>2. ASSUME ServerSees(k) \/ Connected(k) \/ NodeGets(k) \/ NodeSwallows(k) \/ NodeSees(k)
        PROVE  toServer' = toServer
    BY <2>2 DEF ServerSees, Connected, NodeGets, NodeSwallows, NodeSees, net
  <2> QED
    BY <1>1, <1>5, <2>1, <2>2 DEF Sockets
<1>6. ASSUME NEW k \in Conn, Refused(k)
      PROVE  toServer' = toServer
  BY <1>6 DEF Refused
<1>7. CASE NodeConnects
  BY <1>7 DEF NodeConnects, IsNext
<1>8. ASSUME NEW i \in Channel, OpenTimesOut(i) \/ CloseTimesOut(i)
      PROVE  toServer' = toServer
  BY <1>8 DEF OpenTimesOut, CloseTimesOut, net
<1>9. CASE Operator
  BY <1>9, OperatorFacts, BrokenShrinks DEF Destroyed
<1>10. CASE NodeConnectFails
  BY <1>1, <1>10 DEF NodeConnectFails
<1> QED
  BY <1>1, <1>2, <1>3, <1>4, <1>5, <1>6, <1>7, <1>8, <1>9, <1>10 DEF Next, Faults

LEMMA WiresStep ==
  ASSUME Inv, [Next]_vars
  PROVE  WiresInv'
<1> USE DEF WiresInv
<1>0. TypeOK /\ WiresInv
  BY DEF Inv, TypeInv
<1>1. CASE UNCHANGED <<sock, alive, toNode, toServer>>
  BY <1>0, <1>1
<1>2. CASE Program
  <2>1. ASSUME NEW k \in Conn \cup {None}, NEW msg, toNode' = Sent(toNode, k, msg), UNCHANGED <<sock, alive, toServer>>
        PROVE  WiresInv'
    BY <1>0, <2>1 DEF Sent, TypeOK
  <2>2. ASSUME NEW i \in Channel, OpenListen(i)
        PROVE  WiresInv'
    BY <2>1, <2>2 DEF OpenListen
  <2>3. ASSUME NEW i \in Channel, OpenConnect(i)
        PROVE  WiresInv'
    BY <1>0, <2>3 DEF OpenConnect, IsNext, net, TypeOK
  <2>4. ASSUME NEW i \in Channel, NEW j \in Channel, OpenShared(j, i)
        PROVE  WiresInv'
    <3>1. link[j] \in Conn \cup {None}
      BY <1>0 DEF TypeOK
    <3> QED
      BY <2>1, <2>4, <3>1 DEF OpenShared
  <2>5. ASSUME NEW i \in Channel, Close(i)
        PROVE  WiresInv'
    <3>1. link[i] \in Conn \cup {None}
      BY <1>0 DEF TypeOK
    <3> QED
      BY <2>1, <2>5, <3>1 DEF Close
  <2> QED
    BY <1>2, <2>2, <2>3, <2>4, <2>5 DEF Program
<1>3. CASE Dies
  BY <1>0, <1>3 DEF Dies, Broken, server, TypeOK
<1>4. ASSUME NEW k \in Conn, Break(k)
      PROVE  WiresInv'
  BY <1>0, <1>4 DEF Break, Broken, server, TypeOK
<1>5. ASSUME NEW k \in Conn, ServerGets(k)
      PROVE  WiresInv'
  <2>1. toServer' = [toServer EXCEPT ![k] = IF k \in alive' THEN Tail(toServer[k]) ELSE <<>>]
    BY <1>5, GotFacts DEF Inv
  <2>2. \/ UNCHANGED <<sock, alive, toNode>>
        \/ /\ sock' = [sock EXCEPT ![k] = "down"]
           /\ alive' = alive \ {k} /\ toNode' = [toNode EXCEPT ![k] = <<>>]
    <3>1. ASSUME NEW i \in Channel, i \in known, toServer[k][1] = [what |-> "close", id |-> i], RunClose(i)
          PROVE  <2>2
      <4>1. OnWire(toServer, k, CloseMsg(i))
        BY <1>5, <3>1, GotFacts DEF OnWire, CloseMsg, Inv
      <4>2. mode = "connect" => link[i] = k
        BY <4>1 DEF Inv, ToldInv
      <4> QED
        BY <3>1, <4>2, RunCloseFacts DEF Inv
    <3>2. ASSUME NEW i \in Channel, RunOpen(i)
          PROVE  UNCHANGED <<sock, alive, toNode>>
      BY <3>2 DEF RunOpen
    <3> QED
      BY <1>5, <3>1, <3>2, GotFacts DEF Inv
  <2>3. k \in alive
    BY <1>0, <1>5 DEF ServerGets
  <2> QED
    BY <1>0, <2>1, <2>2, <2>3 DEF TypeOK
<1>6. ASSUME NEW k \in Conn, ServerSees(k)
      PROVE  WiresInv'
  BY <1>0, <1>6 DEF ServerSees, net, TypeOK
<1>7. ASSUME NEW k \in Conn, Connected(k)
      PROVE  WiresInv'
  BY <1>0, <1>7 DEF Connected, TypeOK
<1>8. ASSUME NEW k \in Conn, NodeGets(k)
      PROVE  WiresInv'
  BY <1>0, <1>8 DEF NodeGets, server, TypeOK
<1>9. ASSUME NEW k \in Conn, Refused(k)
      PROVE  WiresInv'
  BY <1>0, <1>9 DEF Refused, TypeOK
<1>10. CASE NodeConnects
  BY <1>0, <1>10 DEF NodeConnects, IsNext, TypeOK
<1>11. ASSUME NEW i \in Channel, NodeOpens(i) \/ NodeOpenFails(i) \/ NodeCloses(i)
       PROVE  WiresInv'
  <2>1. \E msg : toServer' = Sent(toServer, EventConn(i), msg)
    BY <1>11 DEF NodeOpens, NodeOpenFails, NodeCloses, Tell
  <2>2. UNCHANGED <<sock, alive, toNode>>
    BY <1>11 DEF NodeOpens, NodeOpenFails, NodeCloses, server
  <2> QED
    BY <1>0, <2>1, <2>2 DEF Sent, TypeOK
<1>12. ASSUME NEW k \in Conn, NodeSees(k)
       PROVE  UNCHANGED <<sock, alive, toNode, toServer>>
  BY <1>12 DEF NodeSees, server, net
<1>13. ASSUME NEW i \in Channel, OpenTimesOut(i) \/ CloseTimesOut(i)
       PROVE  UNCHANGED <<sock, alive, toNode, toServer>>
  BY <1>13 DEF OpenTimesOut, CloseTimesOut, net
<1>14. CASE UNCHANGED vars
  BY <1>1, <1>14 DEF vars, server, net
<1>15. CASE Operator
  BY <1>0, <1>15, OperatorFacts DEF Destroyed, Broken, TypeOK
<1>16. CASE NodeConnectFails
  BY <1>1, <1>16 DEF NodeConnectFails, server
<1>17. ASSUME NEW k \in Conn, NodeSwallows(k)
       PROVE  WiresInv'
  BY <1>0, <1>17 DEF NodeSwallows, server, TypeOK
<1> QED
  BY <1>1, <1>2, <1>3, <1>4, <1>5, <1>6, <1>7, <1>8, <1>9, <1>10, <1>11, <1>12, <1>13, <1>14,
     <1>15, <1>16, <1>17
  DEF Next, Faults, Sockets

-----------------------------------------------------------------------------
(* The node's connections. *)

\* Only these steps change what NodesInv is about.
LEMMA NodesTouched ==
  ASSUME Next
  PROVE  \/ UNCHANGED <<mode, sock, nodes, alive, life>>
         \/ \E i \in Channel : OpenConnect(i)
         \/ Dies
         \/ NodeConnects
         \/ Operator
         \/ \E k \in Conn : Break(k) \/ Refused(k) \/ ServerGets(k) \/ ServerSees(k) \/ Connected(k)
<1> DEFINE Same == UNCHANGED <<mode, sock, nodes, alive, life>>
<1>1. ASSUME NEW i \in Channel, OpenListen(i) \/ Close(i) \/ OpenTimesOut(i) \/ CloseTimesOut(i)
      PROVE  Same
  BY <1>1 DEF OpenListen, Close, OpenTimesOut, CloseTimesOut, net, node
<1>2. ASSUME NEW i \in Channel, NEW j \in Channel, OpenShared(j, i)
      PROVE  Same
  BY <1>2 DEF OpenShared, node
<1>3. ASSUME NodeConnectFails \/ \E k \in Conn : NodeGets(k) \/ NodeSwallows(k) \/ NodeSees(k)
      PROVE  Same
  BY <1>3 DEF NodeConnectFails, NodeGets, NodeSwallows, NodeSees, server, net
<1>4. ASSUME NEW i \in Channel, NodeOpens(i) \/ NodeOpenFails(i) \/ NodeCloses(i)
      PROVE  Same
  BY <1>4 DEF NodeOpens, NodeOpenFails, NodeCloses, server
<1> HIDE DEF Same
<1> QED
  BY <1>1, <1>2, <1>3, <1>4 DEF Next, Program, Faults, Sockets, Same

LEMMA NodesStep ==
  ASSUME Inv, [Next]_vars
  PROVE  NodesInv'
<1> USE DEF NodesInv
<1>0. TypeOK /\ NodesInv /\ WiresInv
  BY DEF Inv, TypeInv
<1>1. CASE UNCHANGED <<mode, sock, nodes, alive, life>>
  BY <1>0, <1>1 DEF nodes
<1>2. ASSUME NEW i \in Channel, OpenConnect(i)
      PROVE  NodesInv'
  <2>1. PICK k \in Conn : sock[k] = "none" /\ sock' = [sock EXCEPT ![k] = "connecting"]
    BY <1>2 DEF OpenConnect, IsNext
  <2>2. mode = "connect" /\ UNCHANGED <<mode, nodes, alive, life>>
    BY <1>2 DEF OpenConnect, net, node
  <2> QED
    BY <1>0, <2>1, <2>2 DEF nodes, TypeOK
<1>3. CASE Dies
  BY <1>0, <1>3 DEF Dies, Broken, server, nodes, TypeOK
<1>4. CASE NodeConnects
  <2>1. PICK k \in Conn : /\ sock[k] = "none" /\ sock' = [sock EXCEPT ![k] = "up"]
                          /\ alive' = alive \cup {k} /\ unnamed' = unnamed \cup {k}
    BY <1>4 DEF NodeConnects, IsNext
  <2>2. mode = "listen" /\ UNCHANGED <<mode, named, nameof, listening, life>>
    BY <1>0, <1>4 DEF NodeConnects
  <2> QED
    BY <1>0, <2>1, <2>2 DEF TypeOK
<1>5. ASSUME NEW k \in Conn, Break(k)
      PROVE  NodesInv'
  BY <1>0, <1>5 DEF Break, Broken, server, nodes, node, TypeOK
<1>6. ASSUME NEW k \in Conn, Refused(k)
      PROVE  NodesInv'
  BY <1>0, <1>6 DEF Refused, nodes, node, TypeOK
<1>7. ASSUME NEW k \in Conn, ServerGets(k)
      PROVE  NodesInv'
  <2>1. sock[k] = "up" /\ k \in alive
    BY <1>0, <1>7 DEF ServerGets, WiresInv
  <2>2. UNCHANGED <<mode, life>>
    BY <1>7, GotFacts DEF Inv, node
  <2>3. CASE mode = "connect"
    <3>1. UNCHANGED nodes
      BY <1>7, <2>3, GotFacts DEF Inv
    <3>2. unnamed = {} /\ \A n \in Life : named[n] = None
      BY <1>0, <2>3 DEF TypeOK
    <3>3. alive' \subseteq alive /\ \A j \in Conn : sock[j] \in {"up", "down"} => sock'[j] \in {"up", "down"}
      <4>1. ASSUME NEW i \in Channel, i \in known, RunClose(i)
            PROVE  <3>3
        <5>1. \/ UNCHANGED <<sock, alive>>
              \/ alive' \subseteq alive /\ \E l \in Conn : sock' = [sock EXCEPT ![l] = "down"]
          BY <4>1, RunCloseFacts DEF Inv
        <5>2. ASSUME NEW j \in Conn, sock[j] \in {"up", "down"}
              PROVE  sock'[j] \in {"up", "down"}
          BY <1>0, <5>1, <5>2 DEF TypeOK
        <5> QED
          BY <5>1, <5>2
      <4>2. ASSUME NEW i \in Channel, RunOpen(i)
            PROVE  <3>3
        BY <4>2 DEF RunOpen
      <4> QED
        BY <1>7, <4>1, <4>2, GotFacts DEF Inv
    <3> QED
      BY <1>0, <2>2, <2>3, <3>1, <3>2, <3>3 DEF nodes, TypeOK
  <2>4. CASE mode = "listen"
    <3>1. UNCHANGED <<sock, alive>>
      <4>1. ASSUME NEW i \in Channel, i \in known, RunClose(i)
            PROVE  UNCHANGED <<sock, alive>>
        BY <2>4, <4>1, RunCloseFacts DEF Inv
      <4>2. ASSUME NEW i \in Channel, RunOpen(i)
            PROVE  UNCHANGED <<sock, alive>>
        BY <4>2 DEF RunOpen
      <4> QED
        BY <1>7, <4>1, <4>2, GotFacts DEF Inv
    <3>2. Renamed(k, life)
      BY <1>7, <2>4, GotFacts DEF Inv
    <3>3. CASE named[life] = None
      <4>1. /\ unnamed' = unnamed \ {k} /\ named' = [named EXCEPT ![life] = k]
            /\ nameof' = [nameof EXCEPT ![k] = life] /\ listening' = listening
        BY <3>2, <3>3 DEF Renamed
      <4>2. life \in Life /\ k # None /\ life # None
        BY <1>0, ConstantsAreTyped DEF TypeOK
      <4>3. nameof[k] = None
        BY <1>0, <2>1, <2>4, <3>3, <4>2 DEF TypeOK
      <4>4. \A n \in Life : named[n] # k
        BY <1>0, <4>2, <4>3, ConstantsAreTyped DEF TypeOK
      <4>5. /\ named'[life] = k /\ \A n \in Life \ {life} : named'[n] = named[n]
            /\ nameof'[k] = life /\ \A j \in Conn \ {k} : nameof'[j] = nameof[j]
        BY <1>0, <4>1, <4>2 DEF TypeOK
      <4>6. \A n \in Life : named[n] \in Conn \cup {None}
        BY <1>0 DEF TypeOK
      <4>7. \A j \in unnamed' : mode' = "listen" /\ sock'[j] = "up" /\ nameof'[j] = None
        BY <1>0, <2>2, <2>4, <3>1, <4>1, <4>5 DEF TypeOK
      <4>8. \A n \in Life : named'[n] # None =>
              mode' = "listen" /\ sock'[named'[n]] = "up" /\ nameof'[named'[n]] = n
        <5>1. ASSUME NEW n \in Life \ {life}, named[n] # None
              PROVE  sock[named[n]] = "up" /\ nameof'[named[n]] = n
          BY <1>0, <4>4, <4>5, <4>6, <5>1
        <5> QED
          BY <2>1, <2>2, <2>4, <3>1, <4>5, <5>1
      <4>9. \A j \in Conn : sock'[j] = "up" => j \in unnamed' \/ (nameof'[j] # None /\ named'[nameof'[j]] = j)
        <5>1. ASSUME NEW j \in Conn \ {k}, sock[j] = "up", j \notin unnamed
              PROVE  nameof[j] # None /\ named[nameof[j]] = j /\ nameof[j] \in Life \ {life}
          BY <1>0, <2>4, <3>3, <5>1, ConstantsAreTyped DEF TypeOK
        <5> QED
          BY <3>1, <4>1, <4>2, <4>5, <5>1
      <4>10. \A j \in Conn : nameof'[j] # None => sock'[j] \in {"up", "down"} /\ (j \in alive' => nameof'[j] = life')
        BY <1>0, <2>1, <2>2, <3>1, <4>5
      <4> QED
        BY <1>0, <2>2, <3>1, <4>1, <4>7, <4>8, <4>9, <4>10
    <3>4. CASE named[life] # None
      BY <1>0, <2>2, <3>1, <3>2, <3>4 DEF Renamed, nodes
    <3> QED
      BY <3>3, <3>4
  <2> QED
    BY <1>0, <2>3, <2>4 DEF TypeOK
<1>8. ASSUME NEW k \in Conn, ServerSees(k)
      PROVE  NodesInv'
  <2>1. /\ sock[k] = "up" /\ k \notin alive /\ sock' = [sock EXCEPT ![k] = "down"]
        /\ unnamed' = unnamed \ {k}
        /\ named' = IF nameof[k] = None THEN named ELSE [named EXCEPT ![nameof[k]] = None]
        /\ UNCHANGED <<mode, nameof, listening, alive, life>>
    BY <1>8 DEF ServerSees, net, node
  <2>2. ASSUME NEW n \in Life, named'[n] # None
        PROVE  named'[n] = named[n] /\ named[n] # k /\ named[n] \in Conn
    BY <1>0, <2>1, <2>2, ConstantsAreTyped DEF TypeOK
  <2>3. ASSUME NEW n \in Life, named[n] # None, named[n] # k
        PROVE  named'[n] = named[n]
    BY <1>0, <2>1, <2>3, ConstantsAreTyped DEF TypeOK
  <2> QED
    BY <1>0, <2>1, <2>2, <2>3, ConstantsAreTyped DEF TypeOK
<1>9. ASSUME NEW k \in Conn, Connected(k)
      PROVE  NodesInv'
  BY <1>0, <1>9 DEF Connected, nodes, TypeOK
<1>10. CASE UNCHANGED vars
  BY <1>1, <1>10 DEF vars, server, net, node
<1>11. CASE Operator
  <2>1. PICK ks \in SUBSET Conn :
          /\ Destroyed(ks)
          /\ \A k \in ks : sock[k] = "up"
          /\ unnamed' = unnamed \ ks
          /\ \A n \in Life : named'[n] = IF named[n] \in ks THEN None ELSE named[n]
    BY <1>11, OperatorFacts
  <2>2. mode = "listen" /\ (listening' => listening)
    BY <1>11, OperatorFacts
  <2>3. /\ \A k \in Conn : sock'[k] = IF k \in ks THEN "down" ELSE sock[k]
        /\ alive' = alive \ ks /\ UNCHANGED <<mode, nameof, life>>
    BY <2>1 DEF Destroyed, Broken
  <2>4. \A n \in Life : named[n] \in Conn \cup {None}
    BY <1>0 DEF TypeOK
  <2>5. \A k \in unnamed' : mode' = "listen" /\ sock'[k] = "up" /\ nameof'[k] = None
    BY <1>0, <2>1, <2>2, <2>3 DEF TypeOK
  <2>6. \A n \in Life : named'[n] # None =>
          mode' = "listen" /\ sock'[named'[n]] = "up" /\ nameof'[named'[n]] = n
    BY <1>0, <2>1, <2>2, <2>3, <2>4
  <2>7. \A k \in Conn : sock'[k] = "up" => k \in unnamed' \/ (nameof'[k] # None /\ named'[nameof'[k]] = k)
    <3>1. ASSUME NEW k \in Conn, sock'[k] = "up", k \notin unnamed'
          PROVE  nameof[k] # None /\ named'[nameof[k]] = k
      <4>1. sock[k] = "up" /\ k \notin ks /\ k \notin unnamed
        BY <2>1, <2>3, <3>1
      <4>2. nameof[k] # None /\ named[nameof[k]] = k /\ nameof[k] \in Life
        BY <1>0, <2>2, <4>1 DEF TypeOK
      <4> QED
        BY <2>1, <4>1, <4>2
    <3> QED
      BY <2>3, <3>1
  <2>8. \A k \in Conn : nameof'[k] # None => sock'[k] \in {"up", "down"} /\ (k \in alive' => nameof'[k] = life')
    BY <1>0, <2>3
  <2>9. \A k \in Conn : sock'[k] # "connecting"
    BY <1>0, <2>2, <2>3
  <2> QED
    BY <1>0, <2>2, <2>3, <2>5, <2>6, <2>7, <2>8, <2>9
<1> QED
  BY <1>1, <1>2, <1>3, <1>4, <1>5, <1>6, <1>7, <1>8, <1>9, <1>10, <1>11, NodesTouched

LEMMA LiveStep ==
  ASSUME Inv, [Next]_vars
  PROVE  LiveInv'
<1> USE DEF LiveInv
<1>0. TypeOK /\ LiveInv /\ NodesInv
  BY DEF Inv, TypeInv
<1>1. CASE UNCHANGED <<mode, nside, timers>>
  BY <1>0, <1>1
<1>2. CASE Dies
  BY <1>0, <1>2 DEF Dies, TypeOK
<1>3. CASE NodeConnects
  <2>1. PICK k \in Conn : nside' = [nside EXCEPT ![k] = "up"]
    BY <1>3 DEF NodeConnects
  <2>2. timers > 0 /\ timers' = timers - 1 /\ mode = "listen" /\ mode' = mode /\ timers \in 0 .. 1
    BY <1>0, <1>3 DEF NodeConnects, NodesInv, TypeOK
  <2>3. timers' = 0
    BY <2>2
  <2> QED
    BY <1>0, <2>1, <2>2, <2>3 DEF TypeOK
<1>4. ASSUME NEW k \in Conn, NodeSees(k)
      PROVE  LiveInv'
  <2>1. nside[k] = "up" /\ nside' = [nside EXCEPT ![k] = "down"] /\ mode' = mode
    BY <1>4 DEF NodeSees
  <2> QED
    BY <1>0, <2>1 DEF TypeOK
<1>5. ASSUME NEW k \in Conn, Connected(k)
      PROVE  LiveInv'
  BY <1>0, <1>5 DEF Connected, NodesInv
<1>6. CASE Program
  BY <1>1, <1>6 DEF Program, OpenListen, OpenConnect, OpenShared, Close, node
<1>7. ASSUME NEW k \in Conn, Break(k) \/ Refused(k) \/ ServerSees(k) \/ NodeGets(k) \/ NodeSwallows(k)
      PROVE  UNCHANGED <<mode, nside, timers>>
  BY <1>7 DEF Break, Refused, ServerSees, NodeGets, NodeSwallows, node
<1>8. ASSUME NEW k \in Conn, ServerGets(k)
      PROVE  UNCHANGED <<mode, nside, timers>>
  BY <1>8, GotFacts DEF Inv, node
<1>9. ASSUME NEW i \in Channel,
             OpenTimesOut(i) \/ CloseTimesOut(i) \/ NodeOpens(i) \/ NodeOpenFails(i) \/ NodeCloses(i)
      PROVE  UNCHANGED <<mode, nside, timers>>
  BY <1>9 DEF OpenTimesOut, CloseTimesOut, NodeOpens, NodeOpenFails, NodeCloses, node
<1>10. CASE UNCHANGED vars
  BY <1>1, <1>10 DEF vars, node
<1>11. CASE Operator
  BY <1>1, <1>11, OperatorFacts DEF Destroyed
<1>12. CASE NodeConnectFails
  BY <1>0, <1>12 DEF NodeConnectFails, TypeOK
<1> QED
  BY <1>1, <1>2, <1>3, <1>4, <1>5, <1>6, <1>7, <1>8, <1>9, <1>10, <1>11, <1>12 DEF Next, Faults, Sockets

-----------------------------------------------------------------------------
(* What the node makes of a channel. *)

LEMMA NodeGetsFacts ==
  ASSUME TypeInv, NEW k \in Conn, NodeGets(k)
  PROVE  /\ toNode[k] # <<>> /\ 1 \in 1 .. Len(toNode[k])
         /\ toNode' = [toNode EXCEPT ![k] = Tail(toNode[k])]
         /\ UNCHANGED <<mode, server, alive, toServer, breaks, life, nside, current, timers, garbled>>
         /\ \/ \E i \in Channel : /\ toNode[k][1] = OpenMsg(i)
                                  /\ nchan' = [nchan EXCEPT ![i] = "opening"] /\ ncon' = [ncon EXCEPT ![i] = k]
            \/ \E i \in Channel : /\ nchan[i] = "open"
                                  /\ nchan' = [nchan EXCEPT ![i] = "closing"] /\ ncon' = ncon
            \/ UNCHANGED <<nchan, ncon>>
<1> DEFINE msg == Head(toNode[k])
<1>1. toNode[k] # <<>> /\ toNode \in Wires
  BY DEF NodeGets, TypeInv, TypeOK, Wires
<1>2. /\ msg = toNode[k][1] /\ 1 \in 1 .. Len(toNode[k])
      /\ msg.what \in {"open", "close"} => msg.id \in Channel /\ msg = [what |-> msg.what, id |-> msg.id]
  BY <1>1, FirstMessage
<1>3. /\ toNode' = [toNode EXCEPT ![k] = Tail(toNode[k])]
      /\ UNCHANGED <<mode, server, alive, toServer, breaks, life, nside, current, timers, garbled>>
      /\ \/ /\ msg.what = "open"
            /\ nchan' = [nchan EXCEPT ![msg.id] = "opening"] /\ ncon' = [ncon EXCEPT ![msg.id] = k]
         \/ /\ msg.what = "close" /\ nchan[msg.id] = "open"
            /\ nchan' = [nchan EXCEPT ![msg.id] = "closing"] /\ ncon' = ncon
         \/ UNCHANGED <<nchan, ncon>>
  BY DEF NodeGets, Lookup
<1>4. CASE /\ msg.what = "open"
           /\ nchan' = [nchan EXCEPT ![msg.id] = "opening"] /\ ncon' = [ncon EXCEPT ![msg.id] = k]
  <2>1. msg.id \in Channel /\ toNode[k][1] = OpenMsg(msg.id)
    BY <1>2, <1>4 DEF OpenMsg
  <2> QED
    BY <1>1, <1>2, <1>3, <1>4, <2>1
<1>5. CASE /\ msg.what = "close" /\ nchan[msg.id] = "open"
           /\ nchan' = [nchan EXCEPT ![msg.id] = "closing"] /\ ncon' = ncon
  BY <1>1, <1>2, <1>3, <1>5
<1>6. CASE UNCHANGED <<nchan, ncon>>
  BY <1>1, <1>2, <1>3, <1>6
<1> QED
  BY <1>3, <1>4, <1>5, <1>6

\* A channel goes on at the node: it is opened once, and never comes back from its end.
GoesForward(i) ==
  \/ nchan'[i] = nchan[i] /\ ncon'[i] = ncon[i]
  \/ nchan[i] = "none" /\ nchan'[i] = "opening" /\ sock[link[i]] = "up"
  \/ nchan[i] = "opening" /\ nchan'[i] \in {"open", "failed", "dead"} /\ ncon'[i] = ncon[i]
  \/ nchan[i] \in {"open", "closing"} /\ nchan'[i] \in {"closing", "closed", "dead"} /\ ncon'[i] = ncon[i]

LEMMA AllGoForward ==
  ASSUME Inv, [Next]_vars, NEW i \in Channel
  PROVE  GoesForward(i)
<1> USE DEF GoesForward
<1>0. TypeInv /\ TypeOK /\ WiresInv /\ AskInv
  BY DEF Inv, TypeInv
<1>1. nchan' = nchan /\ ncon' = ncon => GoesForward(i)
  OBVIOUS
<1>2. ASSUME NEW k \in Conn, NodeGets(k)
      PROVE  GoesForward(i)
  <2>1. CASE \E j \in Channel : /\ toNode[k][1] = OpenMsg(j)
                                /\ nchan' = [nchan EXCEPT ![j] = "opening"] /\ ncon' = [ncon EXCEPT ![j] = k]
    <3>1. PICK j \in Channel : /\ toNode[k][1] = OpenMsg(j)
                               /\ nchan' = [nchan EXCEPT ![j] = "opening"] /\ ncon' = [ncon EXCEPT ![j] = k]
      BY <2>1
    <3>2. toNode[k] # <<>> /\ OnWire(toNode, k, OpenMsg(j))
      BY <1>0, <1>2, <3>1, NodeGetsFacts DEF OnWire
    <3>3. link[j] = k /\ nchan[j] = "none"
      BY <1>0, <3>2 DEF AskInv
    <3>4. sock[k] = "up"
      BY <1>0, <3>2 DEF WiresInv
    <3> QED
      BY <1>0, <3>1, <3>3, <3>4 DEF TypeOK
  <2>2. CASE \E j \in Channel : nchan[j] = "open" /\ nchan' = [nchan EXCEPT ![j] = "closing"] /\ ncon' = ncon
    BY <1>0, <2>2 DEF TypeOK
  <2> QED
    BY <1>0, <1>1, <1>2, <2>1, <2>2, NodeGetsFacts
<1>3. ASSUME NEW j \in Channel, NodeOpens(j) \/ NodeOpenFails(j) \/ NodeCloses(j)
      PROVE  GoesForward(i)
  <2>1. /\ ncon' = ncon
        /\ \/ nchan[j] = "opening" /\ \E what \in {"open", "failed"} : nchan' = [nchan EXCEPT ![j] = what]
           \/ nchan[j] \in {"open", "closing"} /\ nchan' = [nchan EXCEPT ![j] = "closed"]
    BY <1>3 DEF NodeOpens, NodeOpenFails, NodeCloses
  <2> QED
    BY <1>0, <2>1 DEF TypeOK
<1>4. CASE Dies
  BY <1>0, <1>4 DEF Dies, TypeOK
<1>5. CASE Program
  <2>1. UNCHANGED <<nchan, ncon>>
    BY <1>5 DEF Program, OpenListen, OpenConnect, OpenShared, Close, node
  <2> QED
    BY <1>1, <2>1
<1>6. ASSUME NEW k \in Conn,
             Break(k) \/ Refused(k) \/ ServerSees(k) \/ Connected(k) \/ NodeSwallows(k) \/ NodeSees(k)
      PROVE  UNCHANGED <<nchan, ncon>>
  BY <1>6 DEF Break, Refused, ServerSees, Connected, NodeSwallows, NodeSees, node
<1>7. ASSUME NEW k \in Conn, ServerGets(k)
      PROVE  UNCHANGED <<nchan, ncon>>
  BY <1>0, <1>7, GotFacts DEF node
<1>8. ASSUME NEW j \in Channel, OpenTimesOut(j) \/ CloseTimesOut(j)
      PROVE  UNCHANGED <<nchan, ncon>>
  BY <1>8 DEF OpenTimesOut, CloseTimesOut, node
<1>9. CASE NodeConnects \/ NodeConnectFails
  BY <1>1, <1>9 DEF NodeConnects, NodeConnectFails
<1>10. CASE UNCHANGED vars
  BY <1>1, <1>10 DEF vars, node
<1>11. CASE Operator
  BY <1>1, <1>11, OperatorFacts DEF Destroyed
<1> HIDE DEF GoesForward
<1> QED
  BY <1>1, <1>2, <1>3, <1>4, <1>5, <1>6, <1>7, <1>8, <1>9, <1>10, <1>11 DEF Next, Faults, Sockets

\* A channel keeps the connection that it was given.
LEMMA LinkKept ==
  ASSUME Inv, [Next]_vars
  PROVE  /\ mode' = mode
         /\ \A i \in Channel : link[i] # None => link'[i] = link[i]
<1>0. TypeOK /\ Linked
  BY DEF Inv, TypeInv
<1>1. ASSUME NEW i \in Channel, NEW k, Opened(i, k), IsNew(i)
      PROVE  \A j \in Channel : link[j] # None => link'[j] = link[j]
  BY <1>0, <1>1 DEF Opened, IsNew, Linked, TypeOK
<1>2. ASSUME NEW i \in Channel, OpenListen(i) \/ OpenConnect(i) \/ Close(i) \/ \E j \in Channel : OpenShared(j, i)
      PROVE  mode' = mode /\ \A j \in Channel : link[j] # None => link'[j] = link[j]
  <2>1. mode' = mode /\ (link' = link \/ (IsNew(i) /\ \E k : Opened(i, k)))
    BY <1>2 DEF OpenListen, OpenConnect, OpenShared, Close
  <2> QED
    BY <1>1, <2>1
<1>3. ASSUME NEW k \in Conn, Sockets(k) \/ Break(k) \/ Refused(k)
      PROVE  UNCHANGED <<mode, link>>
  <2>1. CASE ServerGets(k)
    BY <2>1, GotFacts DEF Inv
  <2>2. ASSUME \/ ServerSees(k) \/ Connected(k) \/ NodeGets(k) \/ NodeSwallows(k) \/ NodeSees(k)
               \/ Break(k) \/ Refused(k)
        PROVE  UNCHANGED <<mode, link>>
    BY <2>2 DEF ServerSees, Connected, NodeGets, NodeSwallows, NodeSees, Break, Refused, server, promises
  <2> QED
    BY <1>3, <2>1, <2>2 DEF Sockets
<1>4. ASSUME NEW i \in Channel,
             OpenTimesOut(i) \/ CloseTimesOut(i) \/ NodeOpens(i) \/ NodeOpenFails(i) \/ NodeCloses(i)
      PROVE  UNCHANGED <<mode, link>>
  BY <1>4 DEF OpenTimesOut, CloseTimesOut, NodeOpens, NodeOpenFails, NodeCloses, server, promises
<1>5. CASE Dies \/ NodeConnects \/ NodeConnectFails \/ UNCHANGED vars
  BY <1>5 DEF Dies, NodeConnects, NodeConnectFails, vars, server, promises
<1>6. CASE Operator
  BY <1>6, OperatorFacts DEF Destroyed, promises
<1> QED
  BY <1>2, <1>3, <1>4, <1>5, <1>6 DEF Next, Program, Faults

-----------------------------------------------------------------------------
(* What is asked of the node. *)

\* Nothing new is asked, and no channel comes into being.
LEMMA AskQuiet ==
  ASSUME Inv, Shrunk(toNode', toNode), link' = link, ncon' = ncon,
         \A i \in Channel : (opens'[i] = "none" <=> opens[i] = "none") /\ (nchan'[i] = "none" <=> nchan[i] = "none"),
         \A k \in Conn : chans'[k] \subseteq chans[k],
         \A k \in Conn : sock'[k] = sock[k] \/ (sock[k] # "none" /\ sock'[k] = "down") \/ sock[k] = "none"
  PROVE  AskInv'
<1>0. TypeOK /\ AskInv
  BY DEF Inv, TypeInv
<1>1. \A k \in Conn, i \in Channel :
        /\ OnWire(toNode', k, OpenMsg(i)) => OnWire(toNode, k, OpenMsg(i))
        /\ Once(toNode, k, OpenMsg(i)) => Once(toNode', k, OpenMsg(i))
  BY <1>0, ShrunkOn DEF TypeOK, Wires
<1>2. \A k \in Conn, i \in Channel : OnWire(toNode', k, OpenMsg(i)) => link'[i] = k /\ nchan'[i] = "none"
  BY <1>0, <1>1 DEF AskInv
<1>3. \A i \in Channel : link'[i] # None =>
        sock'[link'[i]] # "none" /\ (sock'[link'[i]] = "connecting" => nchan'[i] = "none")
  <2>1. ASSUME NEW i \in Channel, link[i] # None
        PROVE  sock'[link[i]] # "none" /\ (sock'[link[i]] = "connecting" => nchan'[i] = "none")
    <3>1. link[i] \in Conn /\ sock[link[i]] # "none" /\ (sock[link[i]] = "connecting" => nchan[i] = "none")
      BY <1>0, <2>1 DEF AskInv, TypeOK
    <3> QED
      BY <3>1
  <2> QED
    BY <2>1
<1> QED
  BY <1>0, <1>1, <1>2, <1>3 DEF AskInv

\* A new channel is asked for on a connection that is there.
LEMMA AskOpened ==
  ASSUME Inv, NEW i \in Channel, NEW k \in Conn, IsNew(i), Opened(i, k),
         toNode' = Sent(toNode, k, OpenMsg(i)), UNCHANGED <<sock, node>>, sock[k] # "none",
         \A l \in Conn : \A j \in chans'[l] : j \in chans[l] \/ (j = i /\ l = k)
  PROVE  AskInv'
<1>0. TypeInv /\ TypeOK /\ Linked /\ AskInv
  BY DEF Inv, TypeInv
<1>1. link[i] = None /\ opens[i] = "none" /\ nchan[i] = "none"
  BY <1>0 DEF IsNew, Linked, AskInv
<1>2. \A l \in Conn : ~OnWire(toNode, l, OpenMsg(i))
  BY <1>0, <1>1, ConstantsAreTyped DEF AskInv
<1>3. /\ link'[i] = k /\ \A j \in Channel \ {i} : link'[j] = link[j] /\ opens'[j] = opens[j]
      /\ opens'[i] = "pending"
      /\ UNCHANGED <<sock, nchan, ncon>>
  BY <1>0 DEF Opened, node, TypeOK
<1>4. OpenMsg(i) \in Message /\ toNode \in Wires
  BY <1>0, MessageFacts DEF OpenMsg, TypeOK, Wires
<1>5. ASSUME NEW l \in Conn, NEW j \in Channel
      PROVE  /\ OnWire(toNode', l, OpenMsg(j)) => OnWire(toNode, l, OpenMsg(j)) \/ (l = k /\ j = i)
             /\ Once(toNode', l, OpenMsg(j))
  <2>1. /\ OnWire(toNode', l, OpenMsg(j)) => OnWire(toNode, l, OpenMsg(j)) \/ (l = k /\ OpenMsg(j) = OpenMsg(i))
        /\ Once(toNode, l, OpenMsg(j)) /\ (OpenMsg(j) = OpenMsg(i) => ~OnWire(toNode, l, OpenMsg(j))) =>
             Once(toNode', l, OpenMsg(j))
    BY <1>0, <1>4, SentOn
  <2>2. Once(toNode, l, OpenMsg(j))
    BY <1>0 DEF AskInv
  <2>3. OpenMsg(j) = OpenMsg(i) => j = i
    BY MessagesDiffer
  <2> QED
    BY <1>2, <2>1, <2>2, <2>3
<1>6. \A l \in Conn, j \in Channel : OnWire(toNode', l, OpenMsg(j)) => link'[j] = l /\ nchan'[j] = "none"
  <2>1. ASSUME NEW l \in Conn, NEW j \in Channel, OnWire(toNode', l, OpenMsg(j))
        PROVE  link'[j] = l /\ nchan'[j] = "none"
    <3>1. CASE l = k /\ j = i
      BY <1>1, <1>3, <3>1
    <3>2. CASE OnWire(toNode, l, OpenMsg(j))
      BY <1>0, <1>2, <1>3, <3>2 DEF AskInv
    <3> QED
      BY <1>5, <2>1, <3>1, <3>2
  <2> QED
    BY <2>1
<1>7. \A j \in Channel : opens'[j] = "none" => nchan'[j] = "none"
  BY <1>0, <1>3 DEF AskInv
<1>8. \A j \in Channel : link'[j] # None =>
        sock'[link'[j]] # "none" /\ (sock'[link'[j]] = "connecting" => nchan'[j] = "none")
  BY <1>0, <1>1, <1>3 DEF AskInv
<1>9. \A j \in Channel : nchan'[j] # "none" => ncon'[j] = link'[j]
  BY <1>0, <1>1, <1>3 DEF AskInv
<1>10. ASSUME NEW l \in Conn, NEW j \in chans'[l]
       PROVE  link'[j] = l
  <2>1. CASE j \in chans[l]
    <3>1. j \in Channel /\ link[j] = l /\ l # None
      BY <1>0, <2>1, ConstantsAreTyped DEF AskInv, TypeOK
    <3> QED
      BY <1>1, <1>3, <3>1
  <2>2. CASE j = i /\ l = k
    BY <1>3, <2>2
  <2> QED
    BY <2>1, <2>2
<1> QED
  BY <1>5, <1>6, <1>7, <1>8, <1>9, <1>10 DEF AskInv

LEMMA AskProgram ==
  ASSUME Inv, Program
  PROVE  AskInv'
<1>0. TypeInv /\ TypeOK /\ Linked /\ AskInv /\ NodesInv
  BY DEF Inv, TypeInv
<1>1. ASSUME NEW i \in Channel, OpenListen(i)
      PROVE  AskInv'
  <2>1. PICK k \in Conn : Registered(k) /\ Opened(i, k) /\ toNode' = Sent(toNode, k, OpenMsg(i))
    BY <1>1 DEF OpenListen, OpenMsg
  <2>2. sock[k] = "up"
    BY <1>0, <2>1, ConstantsAreTyped DEF NodesInv, Registered
  <2>3. IsNew(i) /\ UNCHANGED <<sock, node, chans>>
    BY <1>1 DEF OpenListen
  <2> QED
    BY <2>1, <2>2, <2>3, AskOpened
<1>2. ASSUME NEW i \in Channel, OpenConnect(i)
      PROVE  AskInv'
  <2>1. PICK k \in Conn : /\ sock[k] = "none" /\ Opened(i, k) /\ sock' = [sock EXCEPT ![k] = "connecting"]
                          /\ chans' = [chans EXCEPT ![k] = {i}]
    BY <1>2 DEF OpenConnect, IsNext
  <2>2. UNCHANGED <<toNode, nchan, ncon>> /\ IsNew(i)
    BY <1>2 DEF OpenConnect, net, node
  <2>3. link[i] = None /\ opens[i] = "none" /\ nchan[i] = "none"
    BY <1>0, <2>2 DEF IsNew, Linked, AskInv
  <2>4. /\ link'[i] = k /\ \A j \in Channel \ {i} : link'[j] = link[j] /\ opens'[j] = opens[j]
        /\ opens'[i] = "pending"
    BY <1>0, <2>1 DEF Opened, TypeOK
  <2>5. \A l \in Conn, j \in Channel : OnWire(toNode', l, OpenMsg(j)) => link'[j] = l /\ nchan'[j] = "none"
    BY <1>0, <2>2, <2>3, <2>4, ConstantsAreTyped DEF AskInv
  <2>6. \A j \in Channel : link'[j] # None =>
          sock'[link'[j]] # "none" /\ (sock'[link'[j]] = "connecting" => nchan'[j] = "none")
    <3>1. ASSUME NEW j \in Channel \ {i}, link[j] # None
          PROVE  link[j] \in Conn \ {k} /\ sock'[link[j]] = sock[link[j]]
      BY <1>0, <2>1, <3>1 DEF AskInv, TypeOK
    <3>2. sock'[k] = "connecting"
      BY <1>0, <2>1 DEF TypeOK
    <3> QED
      BY <1>0, <2>2, <2>3, <2>4, <3>1, <3>2 DEF AskInv
  <2>7. \A l \in Conn : \A j \in chans'[l] : link'[j] = l
    BY <1>0, <2>1, <2>3, <2>4, ConstantsAreTyped DEF AskInv, TypeOK
  <2>8. \A l \in Conn, j \in Channel : Once(toNode', l, OpenMsg(j))
    BY <1>0, <2>2 DEF AskInv
  <2>9. \A j \in Channel : (opens'[j] = "none" => nchan'[j] = "none") /\ (nchan'[j] # "none" => ncon'[j] = link'[j])
    BY <1>0, <2>2, <2>3, <2>4 DEF AskInv
  <2> QED
    BY <2>5, <2>6, <2>7, <2>8, <2>9 DEF AskInv
<1>3. ASSUME NEW i \in Channel, NEW j \in Channel, OpenShared(j, i)
      PROVE  AskInv'
  <2> DEFINE k == link[j]
  <2>1. k \in Conn
    BY <1>0, <1>3 DEF OpenShared, TypeOK, Linked
  <2>2. sock[k] # "none"
    BY <1>0, <2>1, ConstantsAreTyped DEF AskInv
  <2>3. /\ IsNew(i) /\ Opened(i, k) /\ toNode' = Sent(toNode, k, OpenMsg(i)) /\ UNCHANGED <<sock, node>>
        /\ chans' = IF mode = "connect" THEN [chans EXCEPT ![k] = chans[k] \cup {i}] ELSE chans
    BY <1>3 DEF OpenShared, OpenMsg
  <2>4. \A l \in Conn : \A m \in chans'[l] : m \in chans[l] \/ (m = i /\ l = k)
    BY <1>0, <2>3 DEF TypeOK
  <2> HIDE DEF k
  <2> QED
    BY <2>1, <2>2, <2>3, <2>4, AskOpened
<1>4. ASSUME NEW i \in Channel, Close(i)
      PROVE  AskInv'
  <2>1. /\ toNode' = Sent(toNode, link[i], CloseMsg(i))
        /\ UNCHANGED <<link, opens, sock, chans, nchan, ncon>>
    BY <1>4 DEF Close, CloseMsg, node
  <2>2. CloseMsg(i) \in Message /\ toNode \in Wires /\ link[i] \in Conn \cup {None}
    BY <1>0, MessageFacts DEF CloseMsg, TypeOK, Wires
  <2>3. ASSUME NEW l \in Conn, NEW j \in Channel
        PROVE  /\ OnWire(toNode', l, OpenMsg(j)) => OnWire(toNode, l, OpenMsg(j))
               /\ Once(toNode, l, OpenMsg(j)) => Once(toNode', l, OpenMsg(j))
    <3>1. OpenMsg(j) # CloseMsg(i)
      BY MessagesDiffer
    <3> QED
      BY <1>0, <2>1, <2>2, <3>1, SentOn
  <2> QED
    BY <1>0, <2>1, <2>3 DEF AskInv
<1> QED
  BY <1>1, <1>2, <1>3, <1>4 DEF Program

LEMMA AskSockets ==
  ASSUME Inv, NEW k \in Conn, Sockets(k)
  PROVE  AskInv'
<1>0. TypeInv /\ TypeOK /\ Linked /\ AskInv /\ WiresInv
  BY DEF Inv, TypeInv
<1>1. CASE ServerGets(k)
  <2>1. link' = link /\ ncon' = ncon /\ nchan' = nchan
    BY <1>0, <1>1, GotFacts DEF node
  <2>2. ASSUME NEW i \in Channel, i \in known, RunClose(i)
        PROVE  AskInv'
    <3>1. PICK l \in Conn :
          /\ opens' = [opens EXCEPT ![i] = IF opens[i] = "pending" THEN "rejected" ELSE opens[i]]
          /\ chans' = [chans EXCEPT ![l] = chans[l] \ {i}]
          /\ \/ UNCHANGED <<sock, toNode>>
             \/ sock' = [sock EXCEPT ![l] = "down"] /\ toNode' = [toNode EXCEPT ![l] = <<>>]
          /\ l = link[i]
      BY <1>0, <2>2, RunCloseFacts
    <3>2. sock[l] # "none"
      BY <1>0, <3>1, ConstantsAreTyped DEF AskInv
    <3>3. Shrunk(toNode', toNode)
      BY <1>0, <3>1 DEF Shrunk, TypeOK
    <3>4. \A j \in Channel : opens'[j] = "none" <=> opens[j] = "none"
      BY <1>0, <3>1 DEF TypeOK
    <3>5. \A j \in Conn : chans'[j] \subseteq chans[j]
      BY <1>0, <3>1 DEF TypeOK
    <3>6. \A j \in Conn : sock'[j] = sock[j] \/ (sock[j] # "none" /\ sock'[j] = "down")
      BY <1>0, <3>1, <3>2 DEF TypeOK
    <3> QED
      BY <2>1, <3>3, <3>4, <3>5, <3>6, AskQuiet
  <2>3. ASSUME NEW i \in Channel, RunOpen(i)
        PROVE  AskInv'
    <3>1. /\ opens' = [opens EXCEPT ![i] = IF opens[i] = "pending" THEN "resolved" ELSE opens[i]]
          /\ UNCHANGED <<chans, sock, toNode>>
      BY <2>3 DEF RunOpen
    <3>2. \A j \in Channel : opens'[j] = "none" <=> opens[j] = "none"
      BY <1>0, <3>1 DEF TypeOK
    <3>3. Shrunk(toNode', toNode)
      BY <3>1 DEF Shrunk
    <3> QED
      BY <2>1, <3>1, <3>2, <3>3, AskQuiet
  <2>4. CASE UNCHANGED <<opens, opentimer, closes, known, chans, sock, destroyed, alive, toNode>>
    BY <1>0, <2>1, <2>4 DEF AskInv
  <2> QED
    BY <1>0, <1>1, <2>2, <2>3, <2>4, GotFacts
<1>2. CASE ServerSees(k)
  <2>1. /\ Forgotten(k) /\ sock[k] = "up" /\ sock' = [sock EXCEPT ![k] = "down"]
        /\ UNCHANGED <<link, chans, toNode, nchan, ncon>>
    BY <1>2 DEF ServerSees, net, node
  <2>2. \A j \in Channel : opens'[j] = "none" <=> opens[j] = "none"
    BY <2>1 DEF Forgotten
  <2>3. Shrunk(toNode', toNode)
    BY <2>1 DEF Shrunk
  <2>4. \A j \in Conn : sock'[j] = sock[j] \/ (sock[j] # "none" /\ sock'[j] = "down")
    BY <1>0, <2>1 DEF TypeOK
  <2> QED
    BY <2>1, <2>2, <2>3, <2>4, AskQuiet
<1>3. CASE Connected(k)
  <2>1. PICK i \in chans[k] : toNode' = [toNode EXCEPT ![k] = <<OpenMsg(i)>>]
    BY <1>3 DEF Connected, OpenMsg
  <2>2. /\ sock[k] = "connecting" /\ sock' = [sock EXCEPT ![k] = "up"]
        /\ UNCHANGED <<link, opens, chans, nchan, ncon>>
    BY <1>3 DEF Connected, promises
  <2>3. i \in Channel /\ link[i] = k /\ k # None
    BY <1>0, <2>1, ConstantsAreTyped DEF AskInv, TypeOK
  <2>4. nchan[i] = "none"
    BY <1>0, <2>2, <2>3 DEF AskInv
  <2>5. toNode'[k] = <<OpenMsg(i)>> /\ \A l \in Conn \ {k} : toNode'[l] = toNode[l]
    BY <1>0, <2>1 DEF TypeOK
  <2>6. ASSUME NEW j \in Channel
        PROVE  (OnWire(toNode', k, OpenMsg(j)) => j = i) /\ Once(toNode', k, OpenMsg(j))
    <3>1. Len(toNode'[k]) = 1 /\ toNode'[k][1] = OpenMsg(i) /\ 1 .. 1 = {1}
      BY <2>5
    <3>2. OpenMsg(j) = OpenMsg(i) => j = i
      BY MessagesDiffer
    <3> QED
      BY <3>1, <3>2 DEF OnWire, Once
  <2>7. ASSUME NEW l \in Conn \ {k}, NEW j \in Channel
        PROVE  (OnWire(toNode', l, OpenMsg(j)) => OnWire(toNode, l, OpenMsg(j))) /\ Once(toNode', l, OpenMsg(j))
    <3>1. Once(toNode, l, OpenMsg(j))
      BY <1>0 DEF AskInv
    <3> QED
      BY <2>5, <3>1 DEF OnWire, Once
  <2>8. \A l \in Conn, j \in Channel : OnWire(toNode', l, OpenMsg(j)) => link'[j] = l /\ nchan'[j] = "none"
    BY <1>0, <2>2, <2>3, <2>4, <2>6, <2>7 DEF AskInv
  <2>9. \A l \in Conn, j \in Channel : Once(toNode', l, OpenMsg(j))
    BY <2>6, <2>7
  <2>10. \A j \in Channel : link'[j] # None =>
          sock'[link'[j]] # "none" /\ (sock'[link'[j]] = "connecting" => nchan'[j] = "none")
    BY <1>0, <2>2 DEF AskInv, TypeOK
  <2> QED
    BY <1>0, <2>2, <2>8, <2>9, <2>10 DEF AskInv
<1>4. CASE NodeGets(k)
  <2>1. /\ toNode[k] # <<>> /\ 1 \in 1 .. Len(toNode[k]) /\ toNode' = [toNode EXCEPT ![k] = Tail(toNode[k])]
        /\ UNCHANGED <<link, opens, sock, chans>>
    BY <1>0, <1>4, NodeGetsFacts DEF server, promises
  <2>2. Shrunk(toNode', toNode)
    BY <1>0, <2>1 DEF Shrunk, TypeOK
  <2>3. CASE \E i \in Channel : /\ toNode[k][1] = OpenMsg(i)
                                /\ nchan' = [nchan EXCEPT ![i] = "opening"] /\ ncon' = [ncon EXCEPT ![i] = k]
    <3>1. PICK i \in Channel : /\ toNode[k][1] = OpenMsg(i)
                               /\ nchan' = [nchan EXCEPT ![i] = "opening"] /\ ncon' = [ncon EXCEPT ![i] = k]
      BY <2>3
    <3>2. OnWire(toNode, k, OpenMsg(i))
      BY <2>1, <3>1 DEF OnWire
    <3>3. link[i] = k /\ nchan[i] = "none" /\ Once(toNode, k, OpenMsg(i)) /\ opens[i] # "none"
      BY <1>0, <3>2, ConstantsAreTyped DEF AskInv, Linked
    <3>4. sock[k] = "up"
      BY <1>0, <2>1 DEF WiresInv
    <3>5. ~OnWire(toNode', k, OpenMsg(i))
      BY <1>0, <2>1, <3>1, <3>3, TakenOnce DEF TypeOK, Wires
    <3>6. \A l \in Conn, j \in Channel :
            /\ OnWire(toNode', l, OpenMsg(j)) => OnWire(toNode, l, OpenMsg(j))
            /\ Once(toNode, l, OpenMsg(j)) => Once(toNode', l, OpenMsg(j))
      BY <1>0, <2>2, ShrunkOn DEF TypeOK, Wires
    <3>7. /\ nchan'[i] = "opening" /\ ncon'[i] = k
          /\ \A j \in Channel \ {i} : nchan'[j] = nchan[j] /\ ncon'[j] = ncon[j]
      BY <1>0, <3>1 DEF TypeOK
    <3>8. \A l \in Conn, j \in Channel : OnWire(toNode', l, OpenMsg(j)) => link'[j] = l /\ nchan'[j] = "none"
      <4>1. ASSUME NEW l \in Conn, NEW j \in Channel, OnWire(toNode', l, OpenMsg(j))
            PROVE  link[j] = l /\ nchan[j] = "none" /\ j # i
        BY <1>0, <3>3, <3>5, <3>6, <4>1 DEF AskInv
      <4> QED
        BY <2>1, <3>7, <4>1
    <3>9. \A l \in Conn, j \in Channel : Once(toNode', l, OpenMsg(j))
      BY <1>0, <3>6 DEF AskInv
    <3>10. /\ \A j \in Channel : opens'[j] = "none" => nchan'[j] = "none"
           /\ \A j \in Channel : link'[j] # None =>
                sock'[link'[j]] # "none" /\ (sock'[link'[j]] = "connecting" => nchan'[j] = "none")
           /\ \A j \in Channel : nchan'[j] # "none" => ncon'[j] = link'[j]
      BY <1>0, <2>1, <3>3, <3>4, <3>7 DEF AskInv
    <3> QED
      BY <1>0, <2>1, <3>8, <3>9, <3>10 DEF AskInv
  <2>4. ASSUME nchan' = nchan \/ \E i \in Channel : nchan[i] = "open" /\ nchan' = [nchan EXCEPT ![i] = "closing"],
               ncon' = ncon
        PROVE  AskInv'
    <3>1. \A j \in Channel : nchan'[j] = "none" <=> nchan[j] = "none"
      BY <1>0, <2>4 DEF TypeOK
    <3> QED
      BY <2>1, <2>2, <2>4, <3>1, AskQuiet
  <2> QED
    BY <1>0, <1>4, <2>3, <2>4, NodeGetsFacts
<1>5. CASE NodeSees(k)
  <2>1. UNCHANGED <<link, opens, sock, chans, toNode, nchan, ncon>>
    BY <1>5 DEF NodeSees, server, promises, net
  <2> QED
    BY <1>0, <2>1 DEF AskInv
<1>6. CASE NodeSwallows(k)
  <2>1. UNCHANGED <<link, opens, sock, chans, nchan, ncon>>
    BY <1>6 DEF NodeSwallows, server, promises
  <2>2. Shrunk(toNode', toNode)
    BY <1>0, <1>6 DEF NodeSwallows, Shrunk, TypeOK
  <2> QED
    BY <2>1, <2>2, AskQuiet
<1> QED
  BY <1>1, <1>2, <1>3, <1>4, <1>5, <1>6 DEF Sockets

LEMMA AskStep ==
  ASSUME Inv, [Next]_vars
  PROVE  AskInv'
<1>0. TypeInv /\ TypeOK /\ Linked /\ AskInv /\ WiresInv
  BY DEF Inv, TypeInv
<1>1. CASE Dies
  <2>1. /\ Shrunk(toNode', toNode)
        /\ UNCHANGED <<link, opens, sock, chans, ncon>>
    BY <1>1 DEF Dies, Broken, Shrunk, server, promises
  <2>2. \A j \in Channel : nchan'[j] = "none" <=> nchan[j] = "none"
    BY <1>1 DEF Dies
  <2> QED
    BY <2>1, <2>2, AskQuiet
<1>2. ASSUME NEW k \in Conn, Break(k)
      PROVE  AskInv'
  <2>1. /\ Shrunk(toNode', toNode)
        /\ UNCHANGED <<link, opens, sock, chans, nchan, ncon>>
    BY <1>2 DEF Break, Broken, Shrunk, server, promises, node
  <2> QED
    BY <2>1, AskQuiet
<1>3. ASSUME NEW k \in Conn, Refused(k)
      PROVE  AskInv'
  <2>1. /\ Forgotten(k) /\ sock[k] = "connecting" /\ sock' = [sock EXCEPT ![k] = "down"]
        /\ UNCHANGED <<link, chans, toNode, nchan, ncon>>
    BY <1>3 DEF Refused, node
  <2>2. \A j \in Channel : opens'[j] = "none" <=> opens[j] = "none"
    BY <2>1 DEF Forgotten
  <2>3. Shrunk(toNode', toNode)
    BY <2>1 DEF Shrunk
  <2>4. \A j \in Conn : sock'[j] = sock[j] \/ (sock[j] # "none" /\ sock'[j] = "down")
    BY <1>0, <2>1 DEF TypeOK
  <2> QED
    BY <2>1, <2>2, <2>3, <2>4, AskQuiet
<1>4. CASE NodeConnects
  <2>1. \E k \in Conn : sock[k] = "none" /\ sock' = [sock EXCEPT ![k] = "up"]
    BY <1>4 DEF NodeConnects, IsNext
  <2>2. UNCHANGED <<link, opens, chans, toNode, nchan, ncon>>
    BY <1>4 DEF NodeConnects, promises
  <2>3. \A j \in Conn : sock'[j] = sock[j] \/ sock[j] = "none"
    BY <1>0, <2>1 DEF TypeOK
  <2>4. Shrunk(toNode', toNode)
    BY <2>2 DEF Shrunk
  <2> QED
    BY <2>2, <2>3, <2>4, AskQuiet
<1>5. ASSUME NEW i \in Channel, OpenTimesOut(i)
      PROVE  AskInv'
  <2>1. /\ i \in opentimer /\ opens' = [opens EXCEPT ![i] = "rejected"]
        /\ UNCHANGED <<link, chans, sock, toNode, nchan, ncon>>
    BY <1>5 DEF OpenTimesOut, net, node
  <2>2. \A j \in Channel : opens'[j] = "none" <=> opens[j] = "none"
    BY <1>0, <2>1 DEF Linked, TypeOK
  <2>3. Shrunk(toNode', toNode)
    BY <2>1 DEF Shrunk
  <2> QED
    BY <2>1, <2>2, <2>3, AskQuiet
<1>6. ASSUME NEW i \in Channel, NodeOpens(i) \/ NodeOpenFails(i) \/ NodeCloses(i)
      PROVE  AskInv'
  <2>1. /\ nchan[i] # "none" /\ \E what \in {"open", "failed", "closed"} : nchan' = [nchan EXCEPT ![i] = what]
        /\ UNCHANGED <<link, opens, chans, sock, toNode, ncon>>
    BY <1>6 DEF NodeOpens, NodeOpenFails, NodeCloses, server, promises
  <2>2. \A j \in Channel : nchan'[j] = "none" <=> nchan[j] = "none"
    BY <1>0, <2>1 DEF TypeOK
  <2>3. Shrunk(toNode', toNode)
    BY <2>1 DEF Shrunk
  <2> QED
    BY <2>1, <2>2, <2>3, AskQuiet
<1>7. ASSUME UNCHANGED vars \/ NodeConnectFails \/ \E i \in Channel : CloseTimesOut(i)
      PROVE  AskInv'
  <2>1. UNCHANGED <<link, opens, sock, chans, toNode, nchan, ncon>>
    BY <1>7 DEF CloseTimesOut, NodeConnectFails, vars, server, promises, net, node
  <2> QED
    BY <1>0, <2>1 DEF AskInv
<1>8. CASE Operator
  <2>1. PICK ks \in SUBSET Conn : Destroyed(ks) /\ \A k \in ks : sock[k] = "up"
    BY <1>8, OperatorFacts
  <2>2. Shrunk(toNode', toNode) /\ UNCHANGED <<link, opens, chans, nchan, ncon>>
    BY <2>1, BrokenShrinks DEF Destroyed, promises
  <2>3. \A k \in Conn : sock'[k] = sock[k] \/ (sock[k] # "none" /\ sock'[k] = "down")
    BY <2>1 DEF Destroyed
  <2> QED
    BY <2>2, <2>3, AskQuiet
<1> QED
  BY <1>1, <1>2, <1>3, <1>4, <1>5, <1>6, <1>7, <1>8, AskProgram, AskSockets DEF Next, Faults

-----------------------------------------------------------------------------
(* What the server is told. *)

\* A promise is resolved by a message that says so.
LEMMA PromisesResolve ==
  ASSUME Inv, [Next]_vars, NEW i \in Channel
  PROVE  /\ opens'[i] = "resolved" => opens[i] = "resolved" \/ \E k \in Conn : OnWire(toServer, k, OpenMsg(i))
         /\ closes'[i] = "resolved" => closes[i] = "resolved" \/ \E k \in Conn : OnWire(toServer, k, CloseMsg(i))
<1> DEFINE Resolve ==
      /\ opens'[i] = "resolved" => opens[i] = "resolved" \/ \E k \in Conn : OnWire(toServer, k, OpenMsg(i))
      /\ closes'[i] = "resolved" => closes[i] = "resolved" \/ \E k \in Conn : OnWire(toServer, k, CloseMsg(i))
<1> SUFFICES Resolve
  OBVIOUS
<1>0. TypeInv /\ TypeOK
  BY DEF Inv, TypeInv
<1>1. ASSUME NEW j \in Channel, OpenListen(j) \/ OpenConnect(j) \/ \E l \in Channel : OpenShared(l, j)
      PROVE  Resolve
  <2>1. opens' = [opens EXCEPT ![j] = "pending"] /\ closes' = closes
    BY <1>1 DEF OpenListen, OpenConnect, OpenShared, Opened
  <2> QED
    BY <1>0, <2>1 DEF TypeOK
<1>2. ASSUME NEW j \in Channel, Close(j) \/ CloseTimesOut(j)
      PROVE  Resolve
  <2>1. opens' = opens /\ \E what \in {"pending", "rejected"} : closes' = [closes EXCEPT ![j] = what]
    BY <1>2 DEF Close, CloseTimesOut
  <2> QED
    BY <1>0, <2>1 DEF TypeOK
<1>3. ASSUME NEW j \in Channel, OpenTimesOut(j)
      PROVE  Resolve
  BY <1>0, <1>3 DEF OpenTimesOut, TypeOK
<1>4. ASSUME NEW k \in Conn, ServerGets(k)
      PROVE  Resolve
  <2>1. ASSUME NEW j \in Channel, toServer[k][1] = [what |-> "open", id |-> j], RunOpen(j)
        PROVE  Resolve
    <3>1. OnWire(toServer, k, OpenMsg(j))
      BY <1>0, <1>4, <2>1, GotFacts DEF OnWire, OpenMsg
    <3>2. closes' = closes /\ opens' = [opens EXCEPT ![j] = IF opens[j] = "pending" THEN "resolved" ELSE opens[j]]
      BY <2>1 DEF RunOpen
    <3> QED
      BY <1>0, <3>1, <3>2 DEF TypeOK
  <2>2. ASSUME NEW j \in Channel, j \in known, toServer[k][1] = [what |-> "close", id |-> j], RunClose(j)
        PROVE  Resolve
    <3>1. OnWire(toServer, k, CloseMsg(j))
      BY <1>0, <1>4, <2>2, GotFacts DEF OnWire, CloseMsg
    <3>2. /\ opens' = [opens EXCEPT ![j] = IF opens[j] = "pending" THEN "rejected" ELSE opens[j]]
          /\ closes' = [closes EXCEPT ![j] = IF closes[j] = "pending" THEN "resolved" ELSE closes[j]]
      BY <1>0, <2>2, RunCloseFacts
    <3> QED
      BY <1>0, <3>1, <3>2 DEF TypeOK
  <2>3. CASE UNCHANGED <<opens, opentimer, closes, known, chans, sock, destroyed, alive, toNode>>
    BY <2>3
  <2> HIDE DEF Resolve
  <2> QED
    BY <1>0, <1>4, <2>1, <2>2, <2>3, GotFacts
<1>5. ASSUME NEW k \in Conn, ServerSees(k) \/ Refused(k)
      PROVE  Resolve
  <2>1. Forgotten(k) /\ closes' = closes
    BY <1>5 DEF ServerSees, Refused
  <2> QED
    BY <2>1 DEF Forgotten
<1>6. ASSUME NEW k \in Conn, Connected(k) \/ NodeGets(k) \/ NodeSwallows(k) \/ NodeSees(k) \/ Break(k)
      PROVE  UNCHANGED <<opens, closes>>
  BY <1>6 DEF Connected, NodeGets, NodeSwallows, NodeSees, Break, server, promises
<1>7. ASSUME NEW j \in Channel, NodeOpens(j) \/ NodeOpenFails(j) \/ NodeCloses(j)
      PROVE  UNCHANGED <<opens, closes>>
  BY <1>7 DEF NodeOpens, NodeOpenFails, NodeCloses, server, promises
<1>8. ASSUME Dies \/ NodeConnects \/ NodeConnectFails \/ UNCHANGED vars
      PROVE  UNCHANGED <<opens, closes>>
  BY <1>8 DEF Dies, NodeConnects, NodeConnectFails, vars, server, promises
<1>9. UNCHANGED <<opens, closes>> => Resolve
  OBVIOUS
<1>10. Operator => UNCHANGED <<opens, closes>>
  BY OperatorFacts DEF Destroyed, promises
<1> HIDE DEF Resolve
<1> QED
  BY <1>1, <1>2, <1>3, <1>4, <1>5, <1>6, <1>7, <1>8, <1>9, <1>10 DEF Next, Program, Faults, Sockets

\* What is on the way to the server after a step: it was before, or has just become true.
LEMMA NewsIsTrue ==
  ASSUME Inv, [Next]_vars, NEW k \in Conn, NEW i \in Channel
  PROVE  /\ OnWire(toServer', k, OpenMsg(i)) =>
              \/ OnWire(toServer, k, OpenMsg(i))
              \/ nchan'[i] = "open" /\ (mode = "connect" => link[i] = k)
         /\ OnWire(toServer', k, CloseMsg(i)) =>
              \/ OnWire(toServer, k, CloseMsg(i))
              \/ nchan'[i] = "closed" /\ (mode = "connect" => link[i] = k)
<1> DEFINE True ==
         /\ OnWire(toServer', k, OpenMsg(i)) =>
              \/ OnWire(toServer, k, OpenMsg(i))
              \/ nchan'[i] = "open" /\ (mode = "connect" => link[i] = k)
         /\ OnWire(toServer', k, CloseMsg(i)) =>
              \/ OnWire(toServer, k, CloseMsg(i))
              \/ nchan'[i] = "closed" /\ (mode = "connect" => link[i] = k)
<1> SUFFICES True
  OBVIOUS
<1>0. TypeInv /\ TypeOK /\ AskInv /\ toServer \in Wires
  BY DEF Inv, TypeInv, TypeOK, Wires
<1>1. CASE Shrunk(toServer', toServer)
  BY <1>0, <1>1, ShrunkOn
<1>2. ASSUME NEW l \in Conn, toServer' = [toServer EXCEPT ![l] = <<[what |-> "hello"]>>]
      PROVE  True
  <2>1. CASE k = l
    <3>1. toServer'[k] = <<[what |-> "hello"]>>
      BY <1>0, <1>2, <2>1 DEF TypeOK
    <3>2. Len(toServer'[k]) = 1 /\ toServer'[k][1] = [what |-> "hello"] /\ 1 .. 1 = {1}
      BY <3>1
    <3> QED
      BY <3>2, MessagesDiffer DEF OnWire
  <2>2. CASE k # l
    <3>1. toServer'[k] = toServer[k]
      BY <1>0, <1>2, <2>2 DEF TypeOK
    <3> QED
      BY <3>1 DEF OnWire
  <2> QED
    BY <2>1, <2>2
<1>3. ASSUME NEW j \in Channel, NodeOpens(j) \/ NodeOpenFails(j) \/ NodeCloses(j)
      PROVE  True
  <2>1. EventConn(j) \in Conn \cup {None} /\ (mode = "connect" => EventConn(j) = ncon[j])
    BY <1>0 DEF EventConn, TypeOK
  <2>2. nchan[j] # "none" /\ link[j] = ncon[j]
    <3>1. nchan[j] # "none"
      BY <1>3 DEF NodeOpens, NodeOpenFails, NodeCloses
    <3> QED
      BY <1>0, <3>1 DEF AskInv
  <2>3. PICK msg \in Message :
          /\ toServer' = Sent(toServer, EventConn(j), msg)
          /\ \/ msg = OpenMsg(j) /\ nchan' = [nchan EXCEPT ![j] = "open"]
             \/ msg = [what |-> "error"]
             \/ msg = CloseMsg(j) /\ nchan' = [nchan EXCEPT ![j] = "closed"]
    BY <1>3, MessageFacts DEF NodeOpens, NodeOpenFails, NodeCloses, Tell, OpenMsg, CloseMsg
  <2>4. /\ OnWire(toServer', k, OpenMsg(i)) => OnWire(toServer, k, OpenMsg(i)) \/ (k = EventConn(j) /\ OpenMsg(i) = msg)
        /\ OnWire(toServer', k, CloseMsg(i)) => OnWire(toServer, k, CloseMsg(i)) \/ (k = EventConn(j) /\ CloseMsg(i) = msg)
    BY <1>0, <2>1, <2>3, SentOn
  <2>5. OpenMsg(i) = msg => i = j /\ nchan'[i] = "open"
    BY <1>0, <2>3, MessagesDiffer DEF TypeOK
  <2>6. CloseMsg(i) = msg => i = j /\ nchan'[i] = "closed"
    BY <1>0, <2>3, MessagesDiffer DEF TypeOK
  <2> QED
    BY <2>1, <2>2, <2>4, <2>5, <2>6
<1>4. UNCHANGED toServer => True
  OBVIOUS
<1>5. UNCHANGED vars => UNCHANGED toServer
  BY DEF vars, net
<1> HIDE DEF True
<1> QED
  BY <1>1, <1>2, <1>3, <1>4, <1>5, ToServerSteps

LEMMA ToldStep ==
  ASSUME Inv, [Next]_vars
  PROVE  ToldInv'
<1> USE DEF Reached
<1>0. TypeOK /\ ToldInv /\ AskInv
  BY DEF Inv, TypeInv
<1>1. \A i \in Channel : GoesForward(i)
  BY AllGoForward
<1>2. \A i \in Channel : (nchan[i] \in Reached => nchan'[i] \in Reached) /\ (nchan[i] = "closed" => nchan'[i] = "closed")
  BY <1>1 DEF GoesForward
<1>3. mode' = mode /\ \A i \in Channel : link[i] # None => link'[i] = link[i]
  BY LinkKept
<1>4. ASSUME NEW k \in Conn, NEW i \in Channel
      PROVE  /\ OnWire(toServer', k, OpenMsg(i)) => nchan'[i] \in Reached
             /\ OnWire(toServer', k, CloseMsg(i)) => nchan'[i] = "closed"
             /\ mode = "connect" /\ (OnWire(toServer', k, OpenMsg(i)) \/ OnWire(toServer', k, CloseMsg(i))) => link'[i] = k
  <2>1. /\ OnWire(toServer, k, OpenMsg(i)) => nchan[i] \in Reached
        /\ OnWire(toServer, k, CloseMsg(i)) => nchan[i] = "closed"
        /\ mode = "connect" /\ (OnWire(toServer, k, OpenMsg(i)) \/ OnWire(toServer, k, CloseMsg(i))) => link[i] = k
    BY <1>0 DEF ToldInv
  <2>2. link[i] = k => link'[i] = k
    BY <1>3, ConstantsAreTyped
  <2> QED
    BY <1>2, <2>1, <2>2, NewsIsTrue
<1>5. ASSUME NEW i \in Channel
      PROVE  /\ opens'[i] = "resolved" => nchan'[i] \in Reached
             /\ closes'[i] = "resolved" => nchan'[i] = "closed"
  <2>1. /\ opens[i] = "resolved" => nchan[i] \in Reached
        /\ closes[i] = "resolved" => nchan[i] = "closed"
    BY <1>0 DEF ToldInv, PromisesTrue
  <2>2. /\ (\E k \in Conn : OnWire(toServer, k, OpenMsg(i))) => nchan[i] \in Reached
        /\ (\E k \in Conn : OnWire(toServer, k, CloseMsg(i))) => nchan[i] = "closed"
    BY <1>0 DEF ToldInv
  <2> QED
    BY <1>2, <2>1, <2>2, PromisesResolve
<1> QED
  BY <1>3, <1>4, <1>5 DEF ToldInv, PromisesTrue

-----------------------------------------------------------------------------
(* Channels that share a connection. *)

LEMMA EndsStay ==
  ASSUME Inv, [Next]_vars, NEW i \in Channel
  PROVE  /\ nchan[i] = "closed" => nchan'[i] = "closed"
         /\ mode = "connect" /\ link[i] \in destroyed => nchan'[i] \in {"none", "closed"}
<1>1. GoesForward(i) /\ SharedInv
  BY AllGoForward DEF Inv
<1> QED
  BY <1>1 DEF GoesForward, SharedInv

\* Nothing is added, and no connection is lost that channels are known to have.
LEMMA SharedQuiet ==
  ASSUME Inv, [Next]_vars, link' = link, chans' = chans, known' \subseteq known, destroyed' = destroyed,
         \A i \in Channel : opens'[i] = "none" <=> opens[i] = "none",
         \A i \in Channel : opens'[i] = "resolved" => opens[i] = "resolved",
         \A k \in Conn : sock[k] = "down" => sock'[k] = "down",
         mode = "connect" => \A i \in known' : sock[link[i]] = "up" => sock'[link[i]] = "up"
  PROVE  SharedInv'
<1>0. TypeOK /\ SharedInv
  BY DEF Inv, TypeInv
<1>1. \A i \in Channel : /\ nchan[i] = "closed" => nchan'[i] = "closed"
                         /\ mode = "connect" /\ link[i] \in destroyed => nchan'[i] \in {"none", "closed"}
  BY EndsStay
<1>2. mode' = mode
  BY LinkKept
<1>3. known' \subseteq Channel /\ destroyed \subseteq Conn
  BY <1>0 DEF TypeOK
<1> QED
  BY <1>0, <1>1, <1>2, <1>3 DEF SharedInv, KnownIsReachable

\* A channel is opened, among those of its connection.
LEMMA SharedOpened ==
  ASSUME Inv, [Next]_vars, NEW i \in Channel, NEW k \in Conn, IsNew(i), Opened(i, k), destroyed' = destroyed,
         mode = "connect" =>
           i \in chans'[k] /\ \A l \in Conn : chans[l] \subseteq chans'[l] \/ (l = k /\ sock[k] = "none"),
         nchan' = nchan, \A l \in Conn : sock[l] # "none" => sock'[l] = sock[l]
  PROVE  SharedInv'
<1>0. TypeOK /\ Linked /\ AskInv /\ SharedInv /\ WiresInv
  BY DEF Inv, TypeInv
<1>1. \A j \in Channel : /\ nchan[j] = "closed" => nchan'[j] = "closed"
                         /\ mode = "connect" /\ link[j] \in destroyed => nchan'[j] \in {"none", "closed"}
  BY EndsStay
<1>2. mode' = mode
  BY LinkKept
<1>3. link[i] = None /\ opens[i] = "none" /\ nchan[i] = "none"
  BY <1>0 DEF IsNew, Linked, AskInv
<1>4. /\ link'[i] = k /\ \A j \in Channel \ {i} : link'[j] = link[j] /\ opens'[j] = opens[j]
      /\ opens'[i] = "pending" /\ known' = known \cup {i}
  BY <1>0 DEF Opened, TypeOK
<1>5. ASSUME NEW j \in Channel \ {i}, opens[j] # "none"
      PROVE  link[j] \in Conn /\ sock[link[j]] # "none"
  BY <1>0, <1>5, ConstantsAreTyped DEF TypeOK, Linked, AskInv
<1>6. ASSUME mode = "connect", NEW j \in Channel \ {i}, opens[j] # "none", j \in chans[link[j]]
      PROVE  j \in chans'[link[j]]
  BY <1>5, <1>6
<1>7. known \subseteq Channel /\ destroyed \subseteq Conn /\ \A j \in known : opens[j] # "none"
  BY <1>0 DEF TypeOK, Linked
<1>8. mode = "connect" => \A j \in known' : j \in chans'[link'[j]]
  BY <1>0, <1>4, <1>6, <1>7 DEF SharedInv
<1>9. mode = "connect" => \A j \in Channel : opens'[j] # "none" => j \in chans'[link'[j]] \/ nchan'[j] = "closed"
  BY <1>0, <1>1, <1>4, <1>6 DEF SharedInv
<1>10. \A l \in destroyed : sock'[l] = "down"
  BY <1>0, <1>7 DEF SharedInv
<1>11. mode = "connect" => \A j \in Channel : link'[j] \in destroyed' => nchan'[j] \in {"none", "closed"}
  BY <1>1, <1>3, <1>4
<1>12. KnownIsReachable'
  <2>1. ASSUME mode = "connect", NEW j \in known', opens'[j] = "resolved"
        PROVE  sock'[link'[j]] = "up"
    BY <1>0, <1>4, <1>5, <1>7, <2>1 DEF SharedInv, KnownIsReachable
  <2> QED
    BY <1>2, <2>1 DEF KnownIsReachable
<1> QED
  BY <1>2, <1>8, <1>9, <1>10, <1>11, <1>12 DEF SharedInv

LEMMA SharedGets ==
  ASSUME Inv, NEW k \in Conn, ServerGets(k)
  PROVE  SharedInv'
<1>0. TypeInv /\ TypeOK /\ Linked /\ SharedInv /\ ToldInv /\ WiresInv /\ AskInv
  BY DEF Inv, TypeInv
<1>1. [Next]_vars
  BY DEF Next, Sockets
<1>2. UNCHANGED <<mode, link, nchan>> /\ sock[k] = "up" /\ toServer[k] # <<>>
  BY <1>0, GotFacts DEF node
<1>3. ASSUME NEW i \in Channel, i \in known, toServer[k][1] = [what |-> "open", id |-> i], RunOpen(i)
      PROVE  SharedInv'
  <2>1. OnWire(toServer, k, OpenMsg(i))
    BY <1>0, <1>3, GotFacts DEF OnWire, OpenMsg
  <2>2. mode = "connect" => link[i] = k
    BY <1>0, <2>1 DEF ToldInv
  <2>3. /\ opens' = [opens EXCEPT ![i] = IF opens[i] = "pending" THEN "resolved" ELSE opens[i]]
        /\ UNCHANGED <<known, chans, sock, destroyed>>
    BY <1>3 DEF RunOpen
  <2>4. \A j \in Channel : opens'[j] = "none" <=> opens[j] = "none"
    BY <1>0, <2>3 DEF TypeOK
  <2>5. KnownIsReachable'
    <3>1. ASSUME mode = "connect", NEW j \in known, opens'[j] = "resolved"
          PROVE  sock[link[j]] = "up"
      <4>1. j \in Channel /\ (j # i => opens'[j] = opens[j])
        BY <1>0, <2>3 DEF TypeOK
      <4>2. CASE j = i
        BY <1>2, <2>2, <3>1, <4>2
      <4>3. CASE j # i
        BY <1>0, <3>1, <4>1, <4>3 DEF SharedInv, KnownIsReachable
      <4> QED
        BY <4>2, <4>3
    <3> QED
      BY <1>2, <2>3, <3>1 DEF KnownIsReachable
  <2> QED
    BY <1>0, <1>2, <2>3, <2>4, <2>5 DEF SharedInv
<1>4. ASSUME NEW i \in Channel, i \in known, toServer[k][1] = [what |-> "close", id |-> i], RunClose(i)
      PROVE  SharedInv'
  <2>1. OnWire(toServer, k, CloseMsg(i))
    BY <1>0, <1>4, GotFacts DEF OnWire, CloseMsg
  <2>2. nchan[i] = "closed" /\ (mode = "connect" => link[i] = k)
    BY <1>0, <2>1 DEF ToldInv
  <2> DEFINE l == link[i]
  <2>3. /\ l \in Conn
        /\ opens' = [opens EXCEPT ![i] = IF opens[i] = "pending" THEN "rejected" ELSE opens[i]]
        /\ known' = known \ {i}
        /\ chans' = [chans EXCEPT ![l] = chans[l] \ {i}]
        /\ \/ UNCHANGED <<destroyed, sock>>
           \/ /\ mode = "connect" /\ chans[l] = {i}
              /\ destroyed' = destroyed \cup {l} /\ sock' = [sock EXCEPT ![l] = "down"]
    BY <1>0, <1>4, RunCloseFacts
  <2>4. \A j \in Channel : /\ opens'[j] = "none" <=> opens[j] = "none"
                           /\ opens'[j] = "resolved" => opens[j] = "resolved"
    BY <1>0, <2>3 DEF TypeOK
  <2>5. \A m \in Conn, j \in Channel : j \in chans[m] => j \in chans'[m] \/ j = i
    BY <1>0, <2>3 DEF TypeOK
  <2>6. \A j \in Channel : opens[j] # "none" => link[j] \in Conn
    BY <1>0, ConstantsAreTyped DEF TypeOK, Linked
  <2>7. known \subseteq Channel /\ \A j \in known : opens[j] # "none"
    BY <1>0 DEF TypeOK, Linked
  <2>8. mode = "connect" => \A j \in known' : j \in chans'[link[j]]
    BY <1>0, <2>3, <2>5, <2>6, <2>7 DEF SharedInv
  <2>9. mode = "connect" => \A j \in Channel : opens'[j] # "none" => j \in chans'[link[j]] \/ nchan[j] = "closed"
    BY <1>0, <2>2, <2>4, <2>5, <2>6 DEF SharedInv
  <2>10. CASE UNCHANGED <<destroyed, sock>>
    <3>1. KnownIsReachable'
      BY <1>0, <1>2, <2>3, <2>4, <2>7, <2>10 DEF SharedInv, KnownIsReachable
    <3> QED
      BY <1>0, <1>2, <2>8, <2>9, <2>10, <3>1 DEF SharedInv
  <2>11. CASE /\ mode = "connect" /\ chans[l] = {i}
              /\ destroyed' = destroyed \cup {l} /\ sock' = [sock EXCEPT ![l] = "down"]
    <3>1. sock'[l] = "down" /\ \A m \in Conn \ {l} : sock'[m] = sock[m]
      BY <1>0, <2>3, <2>11 DEF TypeOK
    <3>2. \A m \in destroyed' : sock'[m] = "down"
      BY <1>0, <2>3, <2>11, <3>1 DEF SharedInv, TypeOK
    <3>3. \A j \in Channel : link[j] \in destroyed' => nchan[j] \in {"none", "closed"}
      <4>1. ASSUME NEW j \in Channel, link[j] = l
            PROVE  nchan[j] \in {"none", "closed"}
        <5>1. opens[j] # "none"
          BY <1>0, <2>3, <4>1, ConstantsAreTyped DEF Linked
        <5>2. j \in chans[l] \/ nchan[j] = "closed"
          BY <1>0, <2>11, <4>1, <5>1 DEF SharedInv
        <5> QED
          BY <2>2, <2>11, <5>2
      <4> QED
        BY <1>0, <2>11, <4>1 DEF SharedInv
    <3>4. KnownIsReachable'
      <4>1. ASSUME NEW j \in known', opens'[j] = "resolved"
            PROVE  sock'[link[j]] = "up"
        <5>1. j \in known /\ j # i /\ j \in Channel /\ opens[j] = "resolved" /\ link[j] \in Conn
          BY <2>3, <2>4, <2>6, <2>7, <4>1
        <5>2. sock[link[j]] = "up" /\ j \in chans[link[j]]
          BY <1>0, <2>11, <5>1 DEF SharedInv, KnownIsReachable
        <5>3. link[j] # l
          BY <2>11, <5>1, <5>2
        <5> QED
          BY <3>1, <5>1, <5>2, <5>3
      <4> QED
        BY <1>2, <4>1 DEF KnownIsReachable
    <3> QED
      BY <1>2, <2>8, <2>9, <3>2, <3>3, <3>4 DEF SharedInv
  <2> QED
    BY <2>3, <2>10, <2>11
<1>5. CASE UNCHANGED <<opens, opentimer, closes, known, chans, sock, destroyed, alive, toNode>>
  BY <1>0, <1>2, <1>5 DEF SharedInv, KnownIsReachable
<1> QED
  BY <1>0, <1>3, <1>4, <1>5, GotFacts

\* A connection that ends takes its channels with it.
LEMMA SharedForgotten ==
  ASSUME Inv, [Next]_vars, NEW k \in Conn, Forgotten(k), sock[k] \in {"up", "connecting"},
         sock' = [sock EXCEPT ![k] = "down"], UNCHANGED <<link, chans, destroyed>>
  PROVE  SharedInv'
<1>0. TypeOK /\ Linked /\ SharedInv
  BY DEF Inv, TypeInv
<1>1. /\ known' = known \ chans[k]
      /\ \A i \in Channel : /\ opens'[i] = "none" <=> opens[i] = "none"
                            /\ opens'[i] = "resolved" => opens[i] = "resolved"
  BY DEF Forgotten
<1>2. \A l \in Conn : sock[l] = "down" => sock'[l] = "down"
  BY <1>0 DEF TypeOK
<1>3. ASSUME mode = "connect", NEW i \in known', sock[link[i]] = "up"
      PROVE  sock'[link[i]] = "up"
  <2>1. i \in Channel /\ link[i] \in Conn
    BY <1>0, <1>1, ConstantsAreTyped DEF TypeOK, Linked
  <2>2. link[i] # k
    BY <1>0, <1>1, <1>3 DEF SharedInv
  <2> QED
    BY <1>0, <1>3, <2>1, <2>2 DEF TypeOK
<1> QED
  BY <1>1, <1>2, <1>3, SharedQuiet

LEMMA SharedStep ==
  ASSUME Inv, [Next]_vars
  PROVE  SharedInv'
<1>0. TypeInv /\ TypeOK /\ Linked /\ SharedInv /\ NodesInv /\ AskInv
  BY DEF Inv, TypeInv
<1>1. ASSUME NEW i \in Channel, OpenListen(i)
      PROVE  SharedInv'
  <2>1. PICK k \in Conn : Opened(i, k)
    BY <1>1 DEF OpenListen
  <2>2. mode = "listen" /\ IsNew(i) /\ UNCHANGED <<destroyed, sock, nchan>>
    BY <1>1 DEF OpenListen, node
  <2> QED
    BY <2>1, <2>2, SharedOpened
<1>2. ASSUME NEW i \in Channel, OpenConnect(i)
      PROVE  SharedInv'
  <2>1. PICK k \in Conn : /\ sock[k] = "none" /\ Opened(i, k) /\ sock' = [sock EXCEPT ![k] = "connecting"]
                          /\ chans' = [chans EXCEPT ![k] = {i}]
    BY <1>2 DEF OpenConnect, IsNext
  <2>2. IsNew(i) /\ UNCHANGED <<destroyed, nchan>>
    BY <1>2 DEF OpenConnect, node
  <2>3. i \in chans'[k] /\ \A l \in Conn : chans[l] \subseteq chans'[l] \/ (l = k /\ sock[k] = "none")
    BY <1>0, <2>1 DEF TypeOK
  <2>4. \A l \in Conn : sock[l] # "none" => sock'[l] = sock[l]
    BY <1>0, <2>1 DEF TypeOK
  <2> QED
    BY <2>1, <2>2, <2>3, <2>4, SharedOpened
<1>3. ASSUME NEW i \in Channel, NEW j \in Channel, OpenShared(j, i)
      PROVE  SharedInv'
  <2> DEFINE k == link[j]
  <2>1. k \in Conn
    BY <1>0, <1>3 DEF OpenShared, TypeOK, Linked
  <2>2. /\ IsNew(i) /\ Opened(i, k) /\ UNCHANGED <<sock, destroyed, nchan>>
        /\ chans' = IF mode = "connect" THEN [chans EXCEPT ![k] = chans[k] \cup {i}] ELSE chans
    BY <1>3 DEF OpenShared, node
  <2>3. mode = "connect" => i \in chans'[k] /\ \A l \in Conn : chans[l] \subseteq chans'[l] \/ (l = k /\ sock[k] = "none")
    BY <1>0, <2>1, <2>2 DEF TypeOK
  <2> HIDE DEF k
  <2> QED
    BY <2>1, <2>2, <2>3, SharedOpened
<1>4. ASSUME UNCHANGED <<link, chans, known, destroyed, opens>>,
             \A k \in Conn : sock[k] \in {"up", "down"} => sock'[k] = sock[k]
      PROVE  SharedInv'
  <2>1. \A i \in known : link[i] \in Conn
    BY <1>0, ConstantsAreTyped DEF TypeOK, Linked
  <2> QED
    BY <1>4, <2>1, SharedQuiet
<1>5. ASSUME NEW i \in Channel,
             Close(i) \/ CloseTimesOut(i) \/ NodeOpens(i) \/ NodeOpenFails(i) \/ NodeCloses(i)
      PROVE  UNCHANGED <<link, chans, known, destroyed, opens, sock>>
  BY <1>5 DEF Close, CloseTimesOut, NodeOpens, NodeOpenFails, NodeCloses, server, promises
<1>6. ASSUME NEW k \in Conn, Break(k) \/ NodeGets(k) \/ NodeSwallows(k) \/ NodeSees(k)
      PROVE  UNCHANGED <<link, chans, known, destroyed, opens, sock>>
  BY <1>6 DEF Break, NodeGets, NodeSwallows, NodeSees, server, promises
<1>7. ASSUME Dies \/ NodeConnectFails \/ UNCHANGED vars
      PROVE  UNCHANGED <<link, chans, known, destroyed, opens, sock>>
  BY <1>7 DEF Dies, NodeConnectFails, vars, server, promises
<1>8. ASSUME NEW i \in Channel, OpenTimesOut(i)
      PROVE  SharedInv'
  <2>1. /\ i \in opentimer /\ opens' = [opens EXCEPT ![i] = "rejected"]
        /\ UNCHANGED <<link, chans, known, destroyed, sock>>
    BY <1>8 DEF OpenTimesOut
  <2>2. \A j \in Channel : /\ opens'[j] = "none" <=> opens[j] = "none"
                           /\ opens'[j] = "resolved" => opens[j] = "resolved"
    BY <1>0, <2>1 DEF TypeOK, Linked
  <2> QED
    BY <2>1, <2>2, SharedQuiet
<1>9. ASSUME NEW k \in Conn, Connected(k)
      PROVE  SharedInv'
  <2>1. sock[k] = "connecting" /\ sock' = [sock EXCEPT ![k] = "up"]
    BY <1>9 DEF Connected
  <2>2. UNCHANGED <<link, chans, known, destroyed, opens>>
    BY <1>9 DEF Connected, promises
  <2>3. \A l \in Conn : sock[l] \in {"up", "down"} => sock'[l] = sock[l]
    BY <1>0, <2>1 DEF TypeOK
  <2> QED
    BY <1>4, <2>2, <2>3
<1>10. CASE NodeConnects
  <2>1. \E k \in Conn : sock[k] = "none" /\ sock' = [sock EXCEPT ![k] = "up"]
    BY <1>10 DEF NodeConnects, IsNext
  <2>2. UNCHANGED <<link, chans, known, destroyed, opens>>
    BY <1>10 DEF NodeConnects, promises
  <2>3. \A l \in Conn : sock[l] \in {"up", "down"} => sock'[l] = sock[l]
    BY <1>0, <2>1 DEF TypeOK
  <2> QED
    BY <1>4, <2>2, <2>3
<1>11. ASSUME NEW k \in Conn, ServerSees(k) \/ Refused(k)
       PROVE  SharedInv'
  <2>1. /\ Forgotten(k) /\ sock[k] \in {"up", "connecting"} /\ sock' = [sock EXCEPT ![k] = "down"]
        /\ UNCHANGED <<link, chans, destroyed>>
    BY <1>11 DEF ServerSees, Refused
  <2> QED
    BY <2>1, SharedForgotten
<1>12. ASSUME UNCHANGED <<link, chans, known, destroyed, opens, sock>>
       PROVE  SharedInv'
  BY <1>4, <1>12
<1>13. CASE Operator
  <2>1. PICK ks \in SUBSET Conn : Destroyed(ks)
    BY <1>13, OperatorFacts
  <2>2. mode = "listen" /\ mode' = mode
    BY <1>13, <2>1, OperatorFacts DEF Destroyed
  <2>3. destroyed' = destroyed \cup ks /\ \A k \in Conn : sock'[k] = IF k \in ks THEN "down" ELSE sock[k]
    BY <2>1 DEF Destroyed
  <2>4. \A k \in destroyed' : sock'[k] = "down"
    BY <1>0, <2>3 DEF SharedInv, TypeOK
  <2> QED
    BY <2>2, <2>4 DEF SharedInv, KnownIsReachable
<1> QED
  BY <1>1, <1>2, <1>3, <1>5, <1>6, <1>7, <1>8, <1>9, <1>10, <1>11, <1>12, <1>13, SharedGets
  DEF Next, Program, Faults, Sockets

-----------------------------------------------------------------------------
(* The theorems. *)

LEMMA InvariantHolds == Spec => []Inv
<1>1. Inv /\ [Next]_vars => Inv'
  <2> SUFFICES ASSUME Inv, [Next]_vars
               PROVE  Inv'
    OBVIOUS
  <2>1. TypeInv'
    BY NextTyped DEF Inv
  <2>2. WiresInv'
    BY WiresStep
  <2>3. NodesInv'
    BY NodesStep
  <2>4. LiveInv'
    BY LiveStep
  <2>5. AskInv'
    BY AskStep
  <2>6. ToldInv'
    BY ToldStep
  <2>7. SharedInv'
    BY SharedStep
  <2> QED
    BY <2>1, <2>2, <2>3, <2>4, <2>5, <2>6, <2>7 DEF Inv
<1> QED
  BY <1>1, InitHolds, PTL DEF Spec

\* A promise of an open or a close that resolves says what has happened at the node.
THEOREM PromisesAreTrue == Spec => []PromisesTrue
<1>1. Inv => PromisesTrue
  BY DEF Inv, ToldInv
<1> QED
  BY <1>1, InvariantHolds, PTL

\* The node has at most one connection, and the server finds it under one name.
THEOREM NodeStaysThere == Spec => []NodeIsThere
<1>1. Inv => NodeIsThere
  <2> SUFFICES ASSUME Inv, mode = "listen"
               PROVE  Cardinality({k \in alive : nside[k] = "up"}) <= 1 /\ \A k \in Conn : sock[k] = "up" => Registered(k)
    BY DEF NodeIsThere, OneLive, NodesKnown
  <2>0. TypeOK /\ NodesInv /\ LiveInv
    BY DEF Inv, TypeInv
  <2>1. \A k \in Conn : sock[k] = "up" => Registered(k)
    BY <2>0 DEF NodesInv, Registered, TypeOK
  <2> DEFINE Up == {k \in alive : nside[k] = "up"}
  <2>2. Cardinality(Up) <= 1
    <3>1. CASE Up = {}
      BY <3>1, FS_EmptySet
    <3>2. CASE Up # {}
      <4>1. PICK k \in Up : TRUE
        BY <3>2
      <4>2. Up = {k}
        BY <2>0, <4>1 DEF LiveInv, TypeOK
      <4> HIDE DEF Up
      <4>3. Cardinality({k}) = 1
        BY FS_Singleton
      <4> QED
        BY <4>2, <4>3
    <3> QED
      BY <3>1, <3>2
  <2> QED
    BY <2>1, <2>2
<1> QED
  BY <1>1, InvariantHolds, PTL

\* A connection that the server made it does not destroy under a channel that is open on
\* it, and a channel whose connection is gone is not in the map of such a server.  What
\* closenode and destroy cut are connections that nodes made.
THEOREM ConnectionStays == Spec => []ConnectionKept
<1>1. Inv => ConnectionKept
  <2> SUFFICES ASSUME Inv
               PROVE  ConnectionKept
    OBVIOUS
  <2>1. SharedInv /\ PromisesTrue
    BY DEF Inv, ToldInv
  <2>2. SocketShared
    BY <2>1 DEF SharedInv, PromisesTrue, SocketShared
  <2> QED
    BY <2>1, <2>2 DEF SharedInv, ConnectionKept
<1> QED
  BY <1>1, InvariantHolds, PTL
=============================================================================
