---------------------------- MODULE ChannelMixInv ----------------------------
(***************************************************************************)
(* The inductive invariant behind the safety properties of ChannelMix: for *)
(* every place the actor's run() can be, which replies it may have, what   *)
(* of its own may be queued at a mixer, and where the channel's state is.  *)
(***************************************************************************)
EXTENDS ChannelMix

\* A channel has at most one request in a mailbox.
OneRequestEach(box) ==
  \A i, j \in DOMAIN box :
    box[i].op # "Forward" /\ box[j].op # "Forward" /\ box[i].ch = box[j].ch
      => i = j

\* A mixer that is not running owns nothing.
MixersInv ==
  \A m \in MixId :
    /\ OneRequestEach(mailbox[m])
    /\ mixer[m] # "running" => mailbox[m] = <<>> /\ members[m] = {}

Ending == {"closing", "posting", "done"}

\* What the request an actor awaits may have come to.
RepliesInv ==
  \A c \in Channel :
    /\ pc[c] \in {"unborn", "loop"} \cup Ending => reply[c] = "idle"
    /\ pc[c] = "forwarding" => reply[c] = "unsent"
    /\ pc[c] = "adding" => reply[c] \in {"unsent", "pending", "ok", "gone"}
    /\ pc[c] \in {"leaving", "removing", "reclaiming"} =>
         reply[c] \in {"unsent", "pending", "member", "absent", "gone"}

\* Where run() may be in each mode, and that it has a mixer to talk to.
ModesInv ==
  \A c \in Channel :
    /\ mode[c] = "local" => pc[c] \in {"unborn", "loop"} \cup Ending
    /\ mode[c] = "placeholder" => pc[c] \in {"adding", "reclaiming"} \cup Ending
    /\ mode[c] = "mixed" =>
         pc[c] \in {"loop", "forwarding", "leaving", "removing", "reclaiming"} \cup Ending
    /\ mode[c] = "placeholder" /\ pc[c] = "reclaiming" => reply[c] \in {"unsent", "gone"}
    /\ pc[c] = "adding" => handle[c] \in MixId
    /\ mode[c] = "mixed" /\ pc[c] # "done" => handle[c] \in MixId

\* A queued request is the one its actor awaits, or one it gave up on.
QueuedInv ==
  \A c \in Channel :
    /\ \A m \in MixId : c \in WaitersIn(mailbox[m]) =>
         \/ /\ reply[c] = "pending"
            /\ m = handle[c]
            /\ c \in AddsIn(mailbox[m]) <=> pc[c] = "adding"
         \/ /\ pc[c] \in Ending
            /\ mode[c] # "local"
            /\ c \notin AddsIn(mailbox[m])
    /\ pc[c] = "adding" /\ reply[c] = "pending" => c \in AddsIn(mailbox[handle[c]])

Absent(c) == \A m \in MixId : c \notin members[m]

Inside(c) == c \in members[handle[c]] /\ \A m \in MixId : c \in members[m] => m = handle[c]

Gone(c) == c \in evicted /\ Absent(c)

\* Where the channel's state is.
Placed(c) ==
  /\ mode[c] = "local" => c \notin evicted /\ Absent(c)
  /\ mode[c] = "placeholder" /\ ~(pc[c] = "adding" /\ reply[c] = "ok") =>
       c \notin evicted /\ Absent(c)
  /\ \/ pc[c] = "adding" /\ reply[c] = "ok"
     \/ mode[c] = "mixed" /\ pc[c] \in {"loop", "forwarding"}
     \/ pc[c] \in {"leaving", "removing"} /\ reply[c] \in {"unsent", "pending"}
     => Gone(c) \/ (c \notin evicted /\ Inside(c))
  /\ pc[c] \in {"leaving", "removing"} /\ reply[c] = "member" =>
       c \notin evicted /\ Absent(c)
  /\ pc[c] \in {"leaving", "removing"} /\ reply[c] \in {"absent", "gone"} => Gone(c)
  /\ mode[c] = "mixed" /\ pc[c] \in {"reclaiming"} \cup Ending =>
       Gone(c) /\ reply[c] # "member"

PlaceInv == \A c \in Channel : Placed(c)

\* Every channel's state can be told from its actor's own state.  This is the
\* strengthening of Custody that every step preserves.
CustodyInv == MixersInv /\ RepliesInv /\ ModesInv /\ QueuedInv /\ PlaceInv

(***************************************************************************)
(* The strengthening of CloseAfterUnregister, MixingIsTrue and             *)
(* SocketReleased: a channel that is being opened has not been called, one *)
(* that posted its Close event is done and out of the registry, and an     *)
(* actor with its state has cancelled its recv_loop by then.               *)
(***************************************************************************)
EndingInv ==
  \A c \in Channel :
    /\ opening = c => pc[c] = "loop"
    /\ pc[c] = "unborn" \/ opening = c =>
         mode[c] = "local" /\ cmds[c] = <<>> /\ c \notin registry
    /\ pc[c] \in {"posting", "done"} => c \notin registry
    /\ closes[c] > 0 /\ c \notin evicted => pc[c] = "done"
    /\ mixing[c] => mode[c] = "mixed"
    /\ mode[c] = "local" /\ pc[c] \in {"posting", "done"} => recv[c] # "running"

(***************************************************************************)
(* The strengthening of CommandsConserved: a channel's commands are in its *)
(* own mixer's mailbox, and none is behind its request to leave; it holds  *)
(* one in hand only to forward it.                                         *)
(***************************************************************************)
Flowing == {"unborn", "loop", "adding", "leaving", "forwarding"}

ForwardsFirst(box, c) ==
  \A i, j \in DOMAIN box :
    box[i] \in ForwardsOf(c) /\ box[j].op # "Forward" /\ box[j].ch = c => i < j

Flows(c) ==
  /\ Rising(MailOf(c), ForwardsOf(c))
  /\ Rising(cmds[c], Applies)
  /\ Chain(Numbers(MailOf(c), ForwardsOf(c)), {hand[c]} \ {0}, Numbers(cmds[c], Applies),
           applied[c] + 1, sent[c])
  /\ hand[c] # 0 <=> pc[c] = "forwarding"
  /\ \A m \in MixId :
       m # handle[c] \/ pc[c] = "adding" \/ reply[c] = "member" =>
         Numbers(mailbox[m], ForwardsOf(c)) = {}
  /\ pc[c] = "leaving" => ForwardsFirst(mailbox[handle[c]], c)

FlowInv == \A c \in Channel : pc[c] \in Flowing /\ ~Lost(c) => Flows(c)
=============================================================================
