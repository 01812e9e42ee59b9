------------------------------ MODULE MixGroup ------------------------------
(***************************************************************************)
(* The mix actors of src/rust/src/channel/mixer.rs.  A mixer is a task     *)
(* that owns the state of every channel in its group.  Channel actors talk *)
(* to it through a bounded mailbox: they hand their state over with Add,   *)
(* take it back with Remove, and pass on the commands they receive while   *)
(* they are mixed with Forward.  Add and Remove carry a one-shot reply.    *)
(*                                                                         *)
(* The operators below change this module's variables only.  ChannelMix    *)
(* composes them with the channel actors and the JavaScript facade.        *)
(***************************************************************************)
EXTENDS Naturals, Sequences, FiniteSets

CONSTANTS
  Channel,    \* channel ids
  MixId,      \* the mixers that may be spawned
  MailDepth   \* capacity of a mixer's mailbox (64 in the code)

ASSUME MailDepthAssumption == MailDepth \in Nat \ {0}

VARIABLES
  mixer,      \* life of each mix task
  mailbox,    \* the messages each mixer has not handled yet
  members,    \* the channels whose state each mixer owns
  reply       \* each channel actor's outstanding request

mixVars == <<mixer, mailbox, members, reply>>

MixerState == {"unborn", "running", "stopped"}

\* A Forward carries the number of the command it passes on, 0 otherwise.
Message == [op : {"Add", "Remove", "Forward"}, ch : Channel, seq : Nat]

(***************************************************************************)
(* An actor has at most one request, because it awaits each one.  "unsent" *)
(* waits for room in the mailbox; "pending" waits on the one-shot; the     *)
(* others are outcomes: the Add was taken, the Remove found the member or  *)
(* did not, the request was lost because the mixer is gone.                *)
(***************************************************************************)
Outcome == {"ok", "member", "absent", "gone"}
Reply == {"idle", "unsent", "pending"} \cup Outcome

MixTypeOK ==
  /\ mixer   \in [MixId -> MixerState]
  /\ mailbox \in [MixId -> Seq(Message)]
  /\ members \in [MixId -> SUBSET Channel]
  /\ reply   \in [Channel -> Reply]
  /\ \A m \in MixId : Len(mailbox[m]) <= MailDepth

MixInit ==
  /\ mixer   = [m \in MixId |-> "unborn"]
  /\ mailbox = [m \in MixId |-> <<>>]
  /\ members = [m \in MixId |-> {}]
  /\ reply   = [c \in Channel |-> "idle"]

-----------------------------------------------------------------------------
(* The sending side: MixHandle::add, remove and forward. *)

\* Mutant of Deliver: a Remove jumps the queue.
DeliverUrgently(c, m, msg) ==
  /\ reply[c] = "unsent"
  /\ mixer[m] = "running"
  /\ Len(mailbox[m]) < MailDepth
  /\ mailbox' = [mailbox EXCEPT ![m] = IF msg.op = "Remove" THEN <<msg>> \o @
                                                            ELSE Append(@, msg)]
  /\ reply' = [reply EXCEPT ![c] = IF msg.op = "Forward" THEN "idle" ELSE "pending"]
  /\ UNCHANGED <<mixer, members>>

\* The message is queued; only Add and Remove then wait for an answer.
Deliver(c, m, msg) ==
  /\ reply[c] = "unsent"
  /\ mixer[m] = "running"
  /\ Len(mailbox[m]) < MailDepth
  /\ mailbox' = [mailbox EXCEPT ![m] = Append(@, msg)]
  /\ reply' = [reply EXCEPT ![c] = IF msg.op = "Forward" THEN "idle" ELSE "pending"]
  /\ UNCHANGED <<mixer, members>>

\* The receiver has been dropped: send fails at once.
Bounce(c, op) ==
  /\ reply[c] = "unsent"
  /\ reply' = [reply EXCEPT ![c] = IF op = "Forward" THEN "idle" ELSE "gone"]
  /\ UNCHANGED <<mixer, mailbox, members>>

-----------------------------------------------------------------------------
(* The receiving side: one iteration of the mixer's select loop. *)

AddsIn(box) == {box[i].ch : i \in {j \in DOMAIN box : box[j].op = "Add"}}

WaitersIn(box) == {box[i].ch : i \in {j \in DOMAIN box : box[j].op # "Forward"}}

\* An ack goes nowhere when the requester has given up waiting for it.
Answer(c, outcome) ==
  IF reply[c] = "pending" THEN [reply EXCEPT ![c] = outcome] ELSE reply

\* Mutant of StopWith: the one-shots of queued requests leak.
StopWithLeakedAcks(m, box, answered) ==
  /\ mixer'   = [mixer EXCEPT ![m] = "stopped"]
  /\ mailbox' = [mailbox EXCEPT ![m] = <<>>]
  /\ members' = [members EXCEPT ![m] = {}]
  /\ reply'   = answered

(***************************************************************************)
(* The task returns.  The queued messages are dropped with their one-shots *)
(* (so the requesters see an error) and with the members their Adds carry. *)
(***************************************************************************)
StopWith(m, box, answered) ==
  /\ mixer'   = [mixer EXCEPT ![m] = "stopped"]
  /\ mailbox' = [mailbox EXCEPT ![m] = <<>>]
  /\ members' = [members EXCEPT ![m] = {}]
  /\ reply'   = [c \in Channel |->
                   IF answered[c] = "pending" /\ c \in WaitersIn(box)
                     THEN "gone" ELSE answered[c]]

Incoming(m, op) ==
  /\ mixer[m] = "running"
  /\ mailbox[m] # <<>>
  /\ Head(mailbox[m]).op = op

HandleAdd(m) ==
  /\ Incoming(m, "Add")
  /\ LET c == Head(mailbox[m]).ch IN
       /\ members' = [members EXCEPT ![m] = @ \cup {c}]
       /\ reply' = Answer(c, "ok")
  /\ mailbox' = [mailbox EXCEPT ![m] = Tail(@)]
  /\ UNCHANGED mixer

\* Mutant of HandleRemove: a group of one stops too.
HandleRemoveStopsAtOne(m) ==
  /\ Incoming(m, "Remove")
  /\ LET c        == Head(mailbox[m]).ch
         left     == members[m] \ {c}
         answered == Answer(c, IF c \in members[m] THEN "member" ELSE "absent")
     IN \/ /\ Cardinality(left) <= 1
           /\ StopWith(m, Tail(mailbox[m]), answered)
        \/ /\ Cardinality(left) > 1
           /\ members' = [members EXCEPT ![m] = left]
           /\ mailbox' = [mailbox EXCEPT ![m] = Tail(@)]
           /\ reply' = answered
           /\ UNCHANGED mixer

\* A Remove that leaves the group empty ends the task, even when the channel
\* it names was not a member.
HandleRemove(m) ==
  /\ Incoming(m, "Remove")
  /\ LET c        == Head(mailbox[m]).ch
         left     == members[m] \ {c}
         answered == Answer(c, IF c \in members[m] THEN "member" ELSE "absent")
     IN \/ /\ left = {}
           /\ StopWith(m, Tail(mailbox[m]), answered)
        \/ /\ left # {}
           /\ members' = [members EXCEPT ![m] = left]
           /\ mailbox' = [mailbox EXCEPT ![m] = Tail(@)]
           /\ reply' = answered
           /\ UNCHANGED mixer

HandleForward(m) ==
  /\ Incoming(m, "Forward")
  /\ mailbox' = [mailbox EXCEPT ![m] = Tail(@)]
  /\ UNCHANGED <<mixer, members, reply>>

\* recv() returns None: the mailbox is drained and no sender is left.
HandlesDropped(m) ==
  /\ mixer[m] = "running"
  /\ mailbox[m] = <<>>
  /\ StopWith(m, <<>>, reply)

\* The idle sweep of a mix tick; the select is biased, so the mailbox is empty.
EvictIdle(m, c) ==
  /\ mixer[m] = "running"
  /\ mailbox[m] = <<>>
  /\ c \in members[m]
  /\ members' = [members EXCEPT ![m] = @ \ {c}]
  /\ UNCHANGED <<mixer, mailbox, reply>>

Spawn(m) ==
  /\ mixer[m] = "unborn"
  /\ mixer' = [mixer EXCEPT ![m] = "running"]
=============================================================================
