----------------------------- MODULE ChannelMix -----------------------------
(***************************************************************************)
(* Channel actors, mix actors, and the JavaScript facade that drives them: *)
(* src/rust/src/channel/actor.rs, mixer.rs and facade.rs.                  *)
(*                                                                         *)
(* Every channel is a task with a bounded command queue.  It owns the      *)
(* channel's state (sockets, jitter buffer, players, recorders) while it   *)
(* is Local.  To mix, it hands that state to a mix task and keeps only a   *)
(* handle; to unmix or to close, it asks for the state back.  The facade   *)
(* runs on the JavaScript thread and never waits: it pushes commands with  *)
(* try_send and remembers in mix_slot which mixer it believes a channel    *)
(* is in.  This module is about who owns a channel, whether the commands   *)
(* and the events of a channel survive the hand-overs, and whether a close *)
(* really ends a channel.                                                  *)
(***************************************************************************)
EXTENDS MixGroup

CONSTANTS
  NoMix,      \* "no mixer"
  NoChannel,  \* "no channel"
  CmdDepth,   \* capacity of a command queue (64 in the code)
  MaxCalls,   \* bound: calls the JavaScript program makes besides opening
  MaxErrors   \* bound: recv_loops that end on a socket error

ASSUME ChannelMixAssumption ==
  /\ CmdDepth \in Nat \ {0}
  /\ MaxCalls \in Nat
  /\ MaxErrors \in Nat
  /\ NoMix \notin MixId
  /\ NoChannel \notin Channel

VARIABLES
  calls,      \* facade calls made so far (for the bound only)
  errors,     \* socket errors so far (for the bound only)
  opening,    \* the channel open_channel is about to register, or NoChannel
  slot,       \* facade: mix_slot of each ChannelObject
  registry,   \* facade: ids in CHANNEL_REGISTRY
  closed,     \* facade: the CHANNELS_CLOSED counter
  shutdown,   \* progress of the shutdown() future
  cmds,       \* each actor's command queue
  pc,         \* where each actor's run() is
  mode,       \* each actor's Mode
  handle,     \* the mixer of an actor that is not Local
  hand,       \* number of the command an actor is forwarding, 0 for none
  recv,       \* each channel's recv_loop task
  sent,       \* commands the facade has queued for each channel
  applied,    \* the last of them applied to the channel's state
  mixing,     \* a mix/start was posted with no mix/finished after it
  closes,     \* Close events posted for each channel
  evicted,    \* history: channels the idle sweep of a mixer removed
  refused     \* history: channels with a mix command refused by a full queue

facadeVars == <<calls, opening, slot, shutdown, sent, refused>>
statVars   == <<registry, closed>>
recvVars   == <<recv, errors>>
actorVars  == <<cmds, pc, mode, handle, hand, recvVars>>
eventVars  == <<applied, mixing, closes, evicted>>
vars == <<mixVars, facadeVars, statVars, actorVars, eventVars>>

(***************************************************************************)
(* run() is in its loop, awaits one of the four mixer requests, gives up   *)
(* the channel, or is between unregister_channel and the Close event.      *)
(***************************************************************************)
Requesting == {"adding", "leaving", "removing", "forwarding", "reclaiming"}
PC == {"unborn", "loop", "closing", "posting", "done"} \cup Requesting

\* "placeholder" is the Mixed value that take_local leaves behind.
Mode == {"local", "placeholder", "mixed"}

Command ==
  [op : {"EnterMix"}, mix : MixId, seq : {0}]
    \cup [op : {"Close", "LeaveMix", "Apply"}, mix : {NoMix}, seq : Nat]

TypeOK ==
  /\ MixTypeOK
  /\ calls    \in 0 .. MaxCalls
  /\ errors   \in 0 .. MaxErrors
  /\ opening  \in Channel \cup {NoChannel}
  /\ slot     \in [Channel -> MixId \cup {NoMix}]
  /\ registry \in SUBSET Channel
  /\ closed   \in Nat
  /\ shutdown \in {"no", "waiting", "returned", "expired"}
  /\ cmds     \in [Channel -> Seq(Command)]
  /\ \A c \in Channel : Len(cmds[c]) <= CmdDepth
  /\ pc       \in [Channel -> PC]
  /\ mode     \in [Channel -> Mode]
  /\ handle   \in [Channel -> MixId \cup {NoMix}]
  /\ hand     \in [Channel -> Nat]
  /\ recv     \in [Channel -> {"none", "running", "cancelled", "ended"}]
  /\ sent     \in [Channel -> Nat]
  /\ applied  \in [Channel -> Nat]
  /\ mixing   \in [Channel -> BOOLEAN]
  /\ closes   \in [Channel -> Nat]
  /\ evicted  \in SUBSET Channel
  /\ refused  \in SUBSET Channel

Init ==
  /\ MixInit
  /\ calls    = 0
  /\ errors   = 0
  /\ opening  = NoChannel
  /\ slot     = [c \in Channel |-> NoMix]
  /\ registry = {}
  /\ closed   = 0
  /\ shutdown = "no"
  /\ cmds     = [c \in Channel |-> <<>>]
  /\ pc       = [c \in Channel |-> "unborn"]
  /\ mode     = [c \in Channel |-> "local"]
  /\ handle   = [c \in Channel |-> NoMix]
  /\ hand     = [c \in Channel |-> 0]
  /\ recv     = [c \in Channel |-> "none"]
  /\ sent     = [c \in Channel |-> 0]
  /\ applied  = [c \in Channel |-> 0]
  /\ mixing   = [c \in Channel |-> FALSE]
  /\ closes   = [c \in Channel |-> 0]
  /\ evicted  = {}
  /\ refused  = {}

Born == {c \in Channel : pc[c] # "unborn"}

-----------------------------------------------------------------------------
(* The facade: calls of the JavaScript thread, which never overlap. *)

\* try_send: refused when the queue is full or the actor has returned.
Accepts(c) == pc[c] # "done" /\ Len(cmds[c]) < CmdDepth

TrySend(q, c, cmd) == IF Accepts(c) THEN [q EXCEPT ![c] = Append(@, cmd)] ELSE q

Budget == calls < MaxCalls /\ calls' = calls + 1

Call == opening = NoChannel /\ Budget

\* open_channel spawns the actor and its recv_loop ...
Open(c) ==
  /\ opening = NoChannel
  /\ pc[c] = "unborn"
  /\ opening' = c
  /\ pc' = [pc EXCEPT ![c] = "loop"]
  /\ recv' = [recv EXCEPT ![c] = "running"]
  /\ UNCHANGED <<mixVars, statVars, eventVars, calls, slot, shutdown, sent,
                 refused, cmds, mode, handle, hand, errors>>

\* ... and registers it before it returns.
Register(c) ==
  /\ opening = c
  /\ opening' = NoChannel
  /\ registry' = registry \cup {c}
  /\ UNCHANGED <<mixVars, actorVars, eventVars, calls, slot, shutdown, sent,
                 refused, closed>>

Close(c) ==
  /\ Call
  /\ c \in Born
  /\ cmds' = TrySend(cmds, c, [op |-> "Close", mix |-> NoMix, seq |-> 0])
  /\ UNCHANGED <<mixVars, statVars, eventVars, opening, slot, shutdown, sent,
                 refused, pc, mode, handle, hand, recvVars>>

\* Any call that changes the channel itself: play, record, dtmf, remote ...
Operate(c) ==
  /\ Call
  /\ c \in Born
  /\ cmds' = TrySend(cmds, c, [op |-> "Apply", mix |-> NoMix, seq |-> sent[c] + 1])
  /\ sent' = [sent EXCEPT ![c] = IF Accepts(c) THEN @ + 1 ELSE @]
  /\ UNCHANGED <<mixVars, statVars, eventVars, opening, slot, shutdown,
                 refused, pc, mode, handle, hand, recvVars>>

EnterCommand(m) == [op |-> "EnterMix", mix |-> m, seq |-> 0]

Refuses(C) == refused \cup {c \in C : pc[c] # "done" /\ ~Accepts(c)}

\* Mutant of Mix: only the caller's side remembers the group.
MixOneSided(a, b) ==
  /\ Call
  /\ {a, b} \subseteq Born
  /\ a # b
  /\ \E m \in MixId :
       /\ \/ /\ slot[a] = NoMix /\ slot[b] = NoMix
             /\ Spawn(m)
          \/ /\ {slot[a], slot[b]} \ {NoMix} = {m}
             /\ UNCHANGED mixer
       /\ slot' = [slot EXCEPT ![a] = m]
       /\ cmds' = TrySend(TrySend(cmds, a, EnterCommand(m)), b, EnterCommand(m))
  /\ refused' = Refuses({a, b})
  /\ UNCHANGED <<mailbox, members, reply, statVars, eventVars, opening,
                 shutdown, sent, pc, mode, handle, hand, recvVars>>

(***************************************************************************)
(* a.mix(b): spawn a mixer when neither side has one, else join the one    *)
(* that a side has; two different groups do not merge.  The results of the *)
(* two try_sends are ignored.                                              *)
(***************************************************************************)
Mix(a, b) ==
  /\ Call
  /\ {a, b} \subseteq Born
  /\ a # b
  /\ \E m \in MixId :
       /\ \/ /\ slot[a] = NoMix /\ slot[b] = NoMix
             /\ Spawn(m)
          \/ /\ {slot[a], slot[b]} \ {NoMix} = {m}
             /\ UNCHANGED mixer
       /\ slot' = [slot EXCEPT ![a] = m, ![b] = m]
       /\ cmds' = TrySend(TrySend(cmds, a, EnterCommand(m)), b, EnterCommand(m))
  /\ refused' = Refuses({a, b})
  /\ UNCHANGED <<mailbox, members, reply, statVars, eventVars, opening,
                 shutdown, sent, pc, mode, handle, hand, recvVars>>

\* a.unmix(): forgets this side's group only, and asks the actor to leave.
Unmix(c) ==
  /\ Call
  /\ c \in Born
  /\ slot' = [slot EXCEPT ![c] = NoMix]
  /\ cmds' = TrySend(cmds, c, [op |-> "LeaveMix", mix |-> NoMix, seq |-> 0])
  /\ refused' = Refuses({c})
  /\ UNCHANGED <<mixVars, statVars, eventVars, opening, shutdown, sent, pc,
                 mode, handle, hand, recvVars>>

\* shutdown() runs on a worker thread: it drains the registry, then asks
\* every channel it found there to close.
Shutdown ==
  /\ Budget
  /\ shutdown = "no"
  /\ shutdown' = "waiting"
  /\ registry' = {}
  /\ cmds' = [c \in Channel |->
                IF c \in registry /\ Accepts(c)
                  THEN Append(cmds[c], [op |-> "Close", mix |-> NoMix, seq |-> 0])
                  ELSE cmds[c]]
  /\ UNCHANGED <<mixVars, eventVars, opening, slot, sent, refused,
                 closed, pc, mode, handle, hand, recvVars>>

\* It polls the registry until it is empty, for at most five seconds.
ShutdownReturns ==
  /\ shutdown = "waiting"
  /\ shutdown' = IF registry = {} THEN "returned" ELSE "expired"
  /\ UNCHANGED <<mixVars, statVars, actorVars, eventVars, calls, opening,
                 slot, sent, refused>>

-----------------------------------------------------------------------------
(* The channel actor: one iteration of the loop in run(). *)

Take(c, op) ==
  /\ pc[c] = "loop"
  /\ cmds[c] # <<>>
  /\ Head(cmds[c]).op = op
  /\ cmds' = [cmds EXCEPT ![c] = Tail(@)]

Goto(c, l) == pc' = [pc EXCEPT ![c] = l]

\* Awaits the mixer: the request is first unsent, then pending.
Ask(c, l) ==
  /\ Goto(c, l)
  /\ reply' = [reply EXCEPT ![c] = "unsent"]

\* Mutant of TakeClose: a mixed channel ignores it.
TakeCloseUnlessMixed(c) ==
  /\ Take(c, "Close")
  /\ \/ mode[c] = "local" /\ Goto(c, "closing")
     \/ mode[c] = "mixed" /\ UNCHANGED pc
  /\ UNCHANGED <<mixVars, facadeVars, statVars, eventVars, mode, handle, hand,
                 recvVars>>

TakeClose(c) ==
  /\ Take(c, "Close")
  /\ \/ /\ mode[c] = "local"
        /\ Goto(c, "closing")
        /\ UNCHANGED reply
     \/ /\ mode[c] = "mixed"
        /\ Ask(c, "removing")
  /\ UNCHANGED <<mixer, mailbox, members, facadeVars, statVars, eventVars,
                 mode, handle, hand, recvVars>>

\* Local: the state moves into an Add.  Mixed: only a re-assertion of the
\* same group has an effect, a fresh mix/start.
TakeEnterMix(c) ==
  /\ Take(c, "EnterMix")
  /\ LET m == Head(cmds[c]).mix IN
       \/ /\ mode[c] = "local"
          /\ mode' = [mode EXCEPT ![c] = "placeholder"]
          /\ handle' = [handle EXCEPT ![c] = m]
          /\ Ask(c, "adding")
          /\ UNCHANGED mixing
       \/ /\ mode[c] = "mixed"
          /\ mixing' = [mixing EXCEPT ![c] = @ \/ m = handle[c]]
          /\ UNCHANGED <<mode, handle, pc, reply>>
  /\ UNCHANGED <<mixer, mailbox, members, facadeVars, statVars, hand, recvVars,
                 applied, closes, evicted>>

TakeLeaveMix(c) ==
  /\ Take(c, "LeaveMix")
  /\ \/ /\ mode[c] = "local"
        /\ UNCHANGED <<pc, reply>>
     \/ /\ mode[c] = "mixed"
        /\ Ask(c, "leaving")
  /\ UNCHANGED <<mixer, mailbox, members, facadeVars, statVars, eventVars,
                 mode, handle, hand, recvVars>>

TakeApply(c) ==
  /\ Take(c, "Apply")
  /\ LET n == Head(cmds[c]).seq IN
       \/ /\ mode[c] = "local"
          /\ applied' = [applied EXCEPT ![c] = n]
          /\ UNCHANGED <<pc, hand, reply>>
       \/ /\ mode[c] = "mixed"
          /\ hand' = [hand EXCEPT ![c] = n]
          /\ Ask(c, "forwarding")
          /\ UNCHANGED applied
  /\ UNCHANGED <<mixer, mailbox, members, facadeVars, statVars, mode, handle,
                 recvVars, mixing, closes, evicted>>

\* A Local tick finds the channel idle; ticks give way to commands.
IdleTimeout(c) ==
  /\ pc[c] = "loop" /\ mode[c] = "local" /\ cmds[c] = <<>>
  /\ opening # c
  /\ Goto(c, "closing")
  /\ UNCHANGED <<mixVars, facadeVars, statVars, eventVars, cmds, mode, handle,
                 hand, recvVars>>

-----------------------------------------------------------------------------
(* The channel actor: awaiting its mixer. *)

RequestOf(c) ==
  [op  |-> IF pc[c] = "adding" THEN "Add"
             ELSE IF pc[c] = "forwarding" THEN "Forward" ELSE "Remove",
   ch  |-> c,
   seq |-> hand[c]]

\* Once a Forward is sent the actor is back in its loop.
AfterSend(c) ==
  IF pc[c] = "forwarding"
    THEN Goto(c, "loop") /\ hand' = [hand EXCEPT ![c] = 0]
    ELSE UNCHANGED <<pc, hand>>

\* mode = "placeholder" here is the handle take_local left: its receiver is
\* dropped, unless the state is on its way in the Add.
Reaches(c) == mode[c] = "mixed" \/ pc[c] = "adding"

SendRequest(c) ==
  /\ pc[c] \in Requesting
  /\ Reaches(c)
  /\ Deliver(c, handle[c], RequestOf(c))
  /\ AfterSend(c)
  /\ UNCHANGED <<facadeVars, statVars, eventVars, cmds, mode, handle, recvVars>>

SendFails(c) ==
  /\ pc[c] \in Requesting
  /\ Reaches(c) => mixer[handle[c]] = "stopped"
  /\ Bounce(c, RequestOf(c).op)
  /\ AfterSend(c)
  /\ UNCHANGED <<facadeVars, statVars, eventVars, cmds, mode, handle, recvVars>>

\* Mutant of BackToLocal: mix/finished is not posted.
BackToLocalQuietly(c) ==
  /\ mode' = [mode EXCEPT ![c] = "local"]
  /\ handle' = [handle EXCEPT ![c] = NoMix]
  /\ UNCHANGED mixing

\* restore_local, and mix/finished.
BackToLocal(c) ==
  /\ mode' = [mode EXCEPT ![c] = "local"]
  /\ handle' = [handle EXCEPT ![c] = NoMix]
  /\ mixing' = [mixing EXCEPT ![c] = FALSE]

KeepMode == UNCHANGED <<mode, handle, mixing>>

RestoreIfFound(c) == IF reply[c] = "member" THEN BackToLocal(c) ELSE KeepMode

\* mix.add returned.  If the mixer is gone the state went down with it: the
\* actor leaves its loop, and still looks for the state before it closes.
FinishAdd(c) ==
  /\ pc[c] = "adding"
  /\ \/ /\ reply[c] = "ok"
        /\ reply' = [reply EXCEPT ![c] = "idle"]
        /\ Goto(c, "loop")
        /\ mode' = [mode EXCEPT ![c] = "mixed"]
        /\ mixing' = [mixing EXCEPT ![c] = TRUE]
        /\ UNCHANGED handle
     \/ /\ reply[c] = "gone"
        /\ Ask(c, "reclaiming")
        /\ handle' = [handle EXCEPT ![c] = NoMix]
        /\ UNCHANGED <<mode, mixing>>
  /\ UNCHANGED <<mixer, mailbox, members, facadeVars, statVars, cmds, hand,
                 recvVars, applied, closes, evicted>>

\* LeaveMix stays in the mix when its state is not there to take back.
FinishLeave(c) ==
  /\ pc[c] = "leaving"
  /\ reply[c] \in Outcome
  /\ reply' = [reply EXCEPT ![c] = "idle"]
  /\ RestoreIfFound(c)
  /\ Goto(c, "loop")
  /\ UNCHANGED <<mixer, mailbox, members, facadeVars, statVars, cmds, hand,
                 recvVars, applied, closes, evicted>>

\* A Close that did not get the state back asks for it once more.
FinishRemove(c) ==
  /\ pc[c] = "removing"
  /\ reply[c] \in Outcome
  /\ RestoreIfFound(c)
  /\ IF reply[c] = "member"
       THEN Goto(c, "closing") /\ reply' = [reply EXCEPT ![c] = "idle"]
       ELSE Ask(c, "reclaiming")
  /\ UNCHANGED <<mixer, mailbox, members, facadeVars, statVars, cmds, hand,
                 recvVars, applied, closes, evicted>>

FinishReclaim(c) ==
  /\ pc[c] = "reclaiming"
  /\ reply[c] \in Outcome
  /\ reply' = [reply EXCEPT ![c] = "idle"]
  /\ RestoreIfFound(c)
  /\ Goto(c, "closing")
  /\ UNCHANGED <<mixer, mailbox, members, facadeVars, statVars, cmds, hand,
                 recvVars, applied, closes, evicted>>

\* The second request is given 100 ms.
ReclaimTimesOut(c) ==
  /\ pc[c] = "reclaiming"
  /\ reply[c] \in {"unsent", "pending"}
  /\ reply' = [reply EXCEPT ![c] = "idle"]
  /\ Goto(c, "closing")
  /\ UNCHANGED <<mixer, mailbox, members, facadeVars, statVars, eventVars,
                 cmds, mode, handle, hand, recvVars>>

-----------------------------------------------------------------------------
(* The channel actor: the end of run(), and recv_loop. *)

\* Mutant of Unregister: compares the registry with itself after the removal.
UnregisterUncounted(c) ==
  /\ registry' = registry \ {c}
  /\ closed' = IF c \in registry' THEN closed + 1 ELSE closed

\* unregister_channel counts the channel only if the registry still had it.
Unregister(c) ==
  /\ registry' = registry \ {c}
  /\ closed' = IF c \in registry THEN closed + 1 ELSE closed

\* Mutant of Teardown: the path without the state does not unregister.
TeardownForgetsLost(c) ==
  /\ pc[c] = "closing"
  /\ recv' = [recv EXCEPT ![c] = IF mode[c] = "local" /\ @ = "running"
                                   THEN "cancelled" ELSE @]
  /\ IF mode[c] = "local" THEN Unregister(c) ELSE UNCHANGED statVars
  /\ Goto(c, "posting")
  /\ UNCHANGED <<mixVars, facadeVars, eventVars, cmds, mode, handle, hand,
                 errors>>

\* An actor that has its state stops the recv_loop; one that has not cannot.
Teardown(c) ==
  /\ pc[c] = "closing"
  /\ recv' = [recv EXCEPT ![c] = IF mode[c] = "local" /\ @ = "running"
                                   THEN "cancelled" ELSE @]
  /\ Unregister(c)
  /\ Goto(c, "posting")
  /\ UNCHANGED <<mixVars, facadeVars, eventVars, cmds, mode, handle, hand,
                 errors>>

\* Mutant of PostClose: the task goes through its teardown again.
PostCloseAgain(c) ==
  /\ pc[c] = "posting"
  /\ closes[c] < 2
  /\ closes' = [closes EXCEPT ![c] = @ + 1]
  /\ Goto(c, "closing")
  /\ UNCHANGED <<mixVars, facadeVars, statVars, cmds, handle, mode, hand,
                 recvVars, applied, mixing, evicted>>

\* run() returns: the queue, the handle and a local state are dropped.
PostClose(c) ==
  /\ pc[c] = "posting"
  /\ closes' = [closes EXCEPT ![c] = @ + 1]
  /\ Goto(c, "done")
  /\ cmds' = [cmds EXCEPT ![c] = <<>>]
  /\ handle' = [handle EXCEPT ![c] = NoMix]
  /\ UNCHANGED <<mixVars, facadeVars, statVars, mode, hand, recvVars, applied,
                 mixing, evicted>>

\* recv_loop breaks when it is cancelled ...
RecvStops(c) ==
  /\ recv[c] = "cancelled"
  /\ recv' = [recv EXCEPT ![c] = "ended"]
  /\ UNCHANGED <<mixVars, facadeVars, statVars, eventVars, cmds, pc, mode,
                 handle, hand, errors>>

\* ... or, before that, on the first error of its socket.
RecvFails(c) ==
  /\ recv[c] = "running"
  /\ errors < MaxErrors
  /\ errors' = errors + 1
  /\ recv' = [recv EXCEPT ![c] = "ended"]
  /\ UNCHANGED <<mixVars, facadeVars, statVars, eventVars, cmds, pc, mode,
                 handle, hand>>

-----------------------------------------------------------------------------
(* The mix actors. *)

MixerAdd(m) ==
  /\ HandleAdd(m)
  /\ UNCHANGED <<facadeVars, statVars, actorVars, eventVars>>

MixerRemove(m) ==
  /\ HandleRemove(m)
  /\ UNCHANGED <<facadeVars, statVars, actorVars, eventVars>>

\* apply_forwarded, if the channel is still a member.
MixerForward(m) ==
  /\ HandleForward(m)
  /\ LET msg == Head(mailbox[m]) IN
       applied' = [applied EXCEPT ![msg.ch] = IF msg.ch \in members[m]
                                                THEN msg.seq ELSE @]
  /\ UNCHANGED <<facadeVars, statVars, actorVars, mixing, closes, evicted>>

\* MixHandles live in mix_slots, in queued EnterMix commands and in actors.
Held(m) ==
  \E c \in Channel :
    \/ slot[c] = m
    \/ handle[c] = m
    \/ \E i \in DOMAIN cmds[c] : cmds[c][i].mix = m

\* Mutant of MixerUnheld: recv() returning None does not end the loop.
MixerIgnoresUnheld(m) ==
  /\ ~Held(m)
  /\ mixer[m] = "running"
  /\ mailbox[m] = <<>>
  /\ UNCHANGED vars

MixerUnheld(m) ==
  /\ ~Held(m)
  /\ HandlesDropped(m)
  /\ UNCHANGED <<facadeVars, statVars, actorVars, eventVars>>

\* close_idle_members posts the Close itself and drops the state.
MixerEvict(m, c) ==
  /\ EvictIdle(m, c)
  /\ closes' = [closes EXCEPT ![c] = @ + 1]
  /\ evicted' = evicted \cup {c}
  /\ UNCHANGED <<facadeVars, statVars, actorVars, applied, mixing>>

-----------------------------------------------------------------------------

FacadeStep ==
  \/ \E c \in Channel : Open(c) \/ Register(c) \/ Close(c) \/ Operate(c) \/ Unmix(c)
  \/ \E a, b \in Channel : Mix(a, b)
  \/ Shutdown
  \/ ShutdownReturns

\* What the actor's task does when it is scheduled.
ActorRuns(c) ==
  \/ TakeClose(c) \/ TakeEnterMix(c) \/ TakeLeaveMix(c) \/ TakeApply(c)
  \/ SendRequest(c) \/ SendFails(c)
  \/ FinishAdd(c) \/ FinishLeave(c) \/ FinishRemove(c) \/ FinishReclaim(c)
  \/ Teardown(c) \/ PostClose(c)

MixerRuns(m) ==
  MixerAdd(m) \/ MixerRemove(m) \/ MixerForward(m) \/ MixerUnheld(m)

Next ==
  \/ FacadeStep
  \/ \E c \in Channel :
       \/ ActorRuns(c) \/ IdleTimeout(c) \/ ReclaimTimesOut(c)
       \/ RecvStops(c) \/ RecvFails(c)
  \/ \E m \in MixId : MixerRuns(m) \/ \E c \in Channel : MixerEvict(m, c)

Spec == Init /\ [][Next]_vars

(***************************************************************************)
(* tokio runs every task that can make progress.  JavaScript need not make *)
(* another call, a channel need not fall idle, and no timeout is assumed.  *)
(***************************************************************************)
Fairness ==
  /\ \A c \in Channel : WF_vars(ActorRuns(c))
  /\ \A c \in Channel : WF_vars(RecvStops(c))
  /\ \A m \in MixId : WF_vars(MixerRuns(m))

FairSpec == Spec /\ Fairness

-----------------------------------------------------------------------------
(* Where the state of a channel is. *)

InActor(c) ==
  \/ c \in Born /\ pc[c] # "done" /\ mode[c] = "local"
  \/ pc[c] = "adding" /\ reply[c] = "unsent"

InMail(c) == \E m \in MixId : c \in AddsIn(mailbox[m])

InReply(c) == reply[c] = "member"

Places(c) ==
  {m \in MixId : c \in members[m]}
    \cup (IF InActor(c) THEN {"actor"} ELSE {})
    \cup (IF InMail(c)  THEN {"mail"}  ELSE {})
    \cup (IF InReply(c) THEN {"reply"} ELSE {})

\* The two ways to lose a channel's state before its actor is done with it:
\* the idle sweep of a mixer, and an Add that the mixer did not take.
Lost(c) ==
  \/ c \in evicted
  \/ /\ mode[c] = "placeholder"
     /\ ~(pc[c] = "adding" /\ reply[c] \in {"unsent", "pending", "ok"})

(***************************************************************************)
(* A channel's state seen as one token: this module implements ChannelLife *)
(* under the mapping below.                                                *)
(***************************************************************************)
WhereIs(c) ==
  CASE pc[c] = "unborn" -> "nowhere"
    [] pc[c] = "adding" /\ (reply[c] = "unsent" \/ InMail(c)) -> "leaving"
    [] \E m \in MixId : c \in members[m] -> "mixer"
    [] InReply(c) -> "returning"
    [] InActor(c) /\ pc[c] # "adding" -> "actor"
    [] OTHER -> "gone"

Life == INSTANCE ChannelLife WITH
          where <- [c \in Channel |-> WhereIs(c)],
          told  <- closes,
          swept <- evicted

\* Channels are handed over, closed and lost only as ChannelLife allows.
LifeSpec == Life!Spec

(***************************************************************************)
(* Through every hand-over a channel's state is in exactly one place - its *)
(* actor, an Add in flight, one mixer, a reply in flight - and it is       *)
(* dropped only when its actor is done, or when it is lost.                *)
(***************************************************************************)
Custody ==
  \A c \in Born :
    Cardinality(Places(c)) = IF pc[c] = "done" \/ Lost(c) THEN 0 ELSE 1

\* A mixer stops only when its last member is handed back, never with a
\* channel inside, though nothing but its senders' handles keeps it running.
StopsEmpty ==
  [][\A m \in MixId :
       mixer[m] = "running" /\ mixer'[m] = "stopped"
         => \A c \in members[m] : reply'[c] = "member"]_vars

(***************************************************************************)
(* A Close event means the channel has left the registry, so that stats()  *)
(* no longer counts it.  A channel that is swept from a mix is the         *)
(* exception: it stays there until it is closed.                           *)
(***************************************************************************)
CloseAfterUnregister ==
  \A c \in Channel \ evicted : closes[c] > 0 => c \notin registry

\* Until a shutdown drains the registry, every channel ever registered is
\* either in it or counted as closed, exactly once.
StatsBalance ==
  shutdown = "no" =>
    closed + Cardinality(registry) = Cardinality(Born \ {opening})

\* JavaScript was told mix/start, and not yet mix/finished, only while the
\* channel's state is with a mixer or is on its way back from one.
MixingIsTrue ==
  \A c \in Channel \ evicted :
    mixing[c] => InReply(c) \/ \E m \in MixId : c \in members[m]

MixCommands == {"EnterMix", "LeaveMix"}

(***************************************************************************)
(* Once a channel has caught up with its mix commands, the facade's        *)
(* mix_slot is right about where it is, unless a full queue refused one of *)
(* those commands.                                                         *)
(***************************************************************************)
SlotAgreement ==
  \A c \in Born \ refused :
    /\ pc[c] = "loop"
    /\ ~Lost(c)
    /\ \A i \in DOMAIN cmds[c] : cmds[c][i].op \notin MixCommands
    => slot[c] = handle[c]

Applies == [op : {"Apply"}, mix : {NoMix}, seq : Nat]

ForwardsOf(c) == [op : {"Forward"}, ch : {c}, seq : Nat]

\* The numbers of the commands of one kind in a queue, and that they go up.
Numbers(queue, kind) == {queue[i].seq : i \in {j \in DOMAIN queue : queue[j] \in kind}}

Rising(queue, kind) ==
  \A i, j \in DOMAIN queue :
    queue[i] \in kind /\ queue[j] \in kind /\ i < j => queue[i].seq < queue[j].seq

\* Three sets of numbers follow each other, and are all from first to last.
Chain(X, Y, Z, first, last) ==
  /\ X \cup Y \cup Z = first .. last
  /\ first <= last + 1
  /\ \A x \in X : \A y \in Y \cup Z : x < y
  /\ \A y \in Y : \A z \in Z : y < z

\* The mailbox that a channel's commands go through, if it is not Local.
MailOf(c) == IF handle[c] = NoMix THEN <<>> ELSE mailbox[handle[c]]

(***************************************************************************)
(* Commands accepted for a channel are neither lost, duplicated nor        *)
(* reordered by its moves in and out of mixers: the ones in its mixer's    *)
(* mailbox, in its actor's hand and in its own queue are, in this order,   *)
(* the ones after the last applied up to the last sent.                    *)
(***************************************************************************)
CommandsConserved ==
  \A c \in Born :
    pc[c] \in {"loop", "adding", "leaving", "forwarding"} /\ ~Lost(c) =>
      /\ Rising(MailOf(c), ForwardsOf(c))
      /\ Rising(cmds[c], Applies)
      /\ Chain(Numbers(MailOf(c), ForwardsOf(c)), {hand[c]} \ {0}, Numbers(cmds[c], Applies),
               applied[c] + 1, sent[c])

\* When the state is dropped, the task that reads the socket has been told
\* to stop; a channel whose state is lost is the exception.
SocketReleased ==
  \A c \in Born : Places(c) = {} /\ ~Lost(c) => recv[c] # "running"

\* After its Close event a channel posts no other event and applies no
\* command that was still on its way.
SilentAfterClose ==
  [][\A c \in Channel \ evicted :
       closes[c] > 0 => /\ closes'[c] = closes[c]
                        /\ mixing'[c] = mixing[c]
                        /\ applied'[c] = applied[c]]_vars

Closing(c) == \E i \in DOMAIN cmds[c] : cmds[c][i].op = "Close"

\* Whatever mixers, peers and other commands do, a channel that accepted a
\* Close posts its Close event.
CloseCompletes == \A c \in Channel : Closing(c) ~> closes[c] > 0

\* No actor waits for a mixer forever.
RequestsEnd ==
  \A c \in Channel :
    reply[c] \in {"unsent", "pending"} ~> reply[c] \notin {"unsent", "pending"}

\* A mixer that nothing refers to any more ends.
MixersEnd == \A m \in MixId : (mixer[m] = "running" /\ ~Held(m)) ~> mixer[m] = "stopped"
=============================================================================
