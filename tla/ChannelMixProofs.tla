-------------------------- MODULE ChannelMixProofs --------------------------
(* What holds of ChannelMix for any number of channels, mixers and calls:   *)
(* first that a channel's state is in one place; then that ChannelMix       *)
(* implements ChannelLife, and what else JavaScript may rely on: that a     *)
(* closed channel is silent, that stats() adds up, that the facade's idea   *)
(* of a channel's group is right, and that commands are applied in order.   *)
EXTENDS ChannelMixInv, FiniteSetTheorems, TLAPS

\* Taking the first element off a queue.
LEMMA HeadTail ==
  ASSUME NEW S, NEW box \in Seq(S), box # <<>>
  PROVE  /\ Head(box) \in S
         /\ Tail(box) \in Seq(S)
         /\ Len(box) \in Nat
         /\ Len(Tail(box)) = Len(box) - 1
  OBVIOUS

\* Adding an element at the end of a queue.
LEMMA AppendLast ==
  ASSUME NEW S, NEW box \in Seq(S), NEW e \in S
  PROVE  /\ Append(box, e) \in Seq(S)
         /\ Len(box) \in Nat
         /\ Len(Append(box, e)) = Len(box) + 1
  OBVIOUS

-----------------------------------------------------------------------------
(* Types of the command queues *)

QueuesOK(q) ==
  q \in [Channel -> Seq(Command)] /\ \A c \in Channel : Len(q[c]) <= CmdDepth

\* try_send never overfills a queue.
LEMMA TrySendType ==
  ASSUME NEW q, QueuesOK(q), NEW c \in Channel, NEW cmd \in Command,
         Accepts(c) => Len(q[c]) < CmdDepth
  PROVE  QueuesOK(TrySend(q, c, cmd))
<1>1. CASE ~Accepts(c)
  BY <1>1 DEF TrySend
<1>2. CASE Accepts(c)
  <2>1. Append(q[c], cmd) \in Seq(Command) /\ Len(Append(q[c], cmd)) <= CmdDepth
    BY <1>2, AppendLast, ChannelMixAssumption DEF QueuesOK
  <2> QED
    BY <1>2, <2>1 DEF TrySend, QueuesOK
<1> QED
  BY <1>1, <1>2

\* The command an actor takes, and the queue it leaves.
LEMMA TakeType ==
  ASSUME TypeOK, NEW c \in Channel, NEW op, Take(c, op)
  PROVE  /\ QueuesOK(cmds')
         /\ Head(cmds[c]).mix \in IF op = "EnterMix" THEN MixId ELSE {NoMix}
         /\ Head(cmds[c]).seq \in Nat
<1>1. cmds[c] \in Seq(Command) /\ cmds[c] # <<>> /\ Len(cmds[c]) <= CmdDepth
  BY DEF Take, TypeOK
<1>2. /\ Head(cmds[c]) \in Command
      /\ Tail(cmds[c]) \in Seq(Command)
      /\ Len(cmds[c]) \in Nat
      /\ Len(Tail(cmds[c])) = Len(cmds[c]) - 1
  BY <1>1, HeadTail
<1>3. Len(Tail(cmds[c])) <= CmdDepth
  BY <1>1, <1>2, ChannelMixAssumption
<1>4. /\ Head(cmds[c]).mix \in IF op = "EnterMix" THEN MixId ELSE {NoMix}
      /\ Head(cmds[c]).seq \in Nat
  BY <1>2 DEF Take, Command
<1> QED
  BY <1>2, <1>3, <1>4 DEF Take, TypeOK, QueuesOK

-----------------------------------------------------------------------------
(* Types of the mixers *)

\* The message a mixer handles next, and what it leaves in its mailbox.
LEMMA IncomingType ==
  ASSUME MixTypeOK, NEW m \in MixId, NEW op, Incoming(m, op)
  PROVE  /\ Head(mailbox[m]).ch \in Channel
         /\ Head(mailbox[m]).seq \in Nat
         /\ Tail(mailbox[m]) \in Seq(Message)
         /\ Len(Tail(mailbox[m])) <= MailDepth
<1>1. mailbox[m] \in Seq(Message) /\ mailbox[m] # <<>> /\ Len(mailbox[m]) <= MailDepth
  BY DEF Incoming, MixTypeOK
<1>2. /\ Head(mailbox[m]) \in Message
      /\ Tail(mailbox[m]) \in Seq(Message)
      /\ Len(mailbox[m]) \in Nat
      /\ Len(Tail(mailbox[m])) = Len(mailbox[m]) - 1
  BY <1>1, HeadTail
<1>3. Len(Tail(mailbox[m])) <= MailDepth
  BY <1>1, <1>2, MailDepthAssumption
<1>4. Head(mailbox[m]).ch \in Channel /\ Head(mailbox[m]).seq \in Nat
  BY <1>2 DEF Message
<1> QED
  BY <1>2, <1>3, <1>4

\* A mailbox only takes a message it has room for.
LEMMA DeliverType ==
  ASSUME MixTypeOK, NEW c \in Channel, NEW m, NEW msg \in Message, Deliver(c, m, msg)
  PROVE  MixTypeOK'
<1>1. reply' \in [Channel -> Reply] /\ mixer' = mixer /\ members' = members
  BY DEF Deliver, MixTypeOK, Reply
<1>2. mailbox' \in [MixId -> Seq(Message)] /\ \A n \in MixId : Len(mailbox'[n]) <= MailDepth
  <2>1. CASE m \in MixId
    <3>1. Append(mailbox[m], msg) \in Seq(Message) /\ Len(Append(mailbox[m], msg)) <= MailDepth
      BY <2>1, AppendLast, MailDepthAssumption DEF Deliver, MixTypeOK
    <3> QED
      BY <2>1, <3>1 DEF Deliver, MixTypeOK
  <2>2. CASE m \notin MixId
    BY <2>2 DEF Deliver, MixTypeOK
  <2> QED
    BY <2>1, <2>2
<1> QED
  BY <1>1, <1>2 DEF MixTypeOK

\* An answer changes nothing but the reply its requester awaits.
LEMMA AnswerType ==
  ASSUME MixTypeOK, NEW c \in Channel, NEW r \in Outcome
  PROVE  /\ Answer(c, r) \in [Channel -> Reply]
         /\ \A d \in Channel :
              Answer(c, r)[d] = IF d = c /\ reply[c] = "pending" THEN r ELSE reply[d]
BY DEF Answer, MixTypeOK, Reply

\* A mixer that stops leaves an empty mailbox and outcomes behind.
LEMMA StopType ==
  ASSUME MixTypeOK, NEW m \in MixId, NEW box, NEW answered \in [Channel -> Reply],
         StopWith(m, box, answered)
  PROVE  MixTypeOK'
<1>1. reply' \in [Channel -> Reply]
  BY DEF StopWith, Reply, Outcome
<1>2. mailbox' \in [MixId -> Seq(Message)] /\ \A n \in MixId : Len(mailbox'[n]) <= MailDepth
  BY MailDepthAssumption DEF StopWith, MixTypeOK
<1> QED
  BY <1>1, <1>2 DEF StopWith, MixTypeOK, MixerState

\* The mixer takes a member in.
LEMMA HandleAddType ==
  ASSUME MixTypeOK, NEW m \in MixId, HandleAdd(m)
  PROVE  MixTypeOK'
<1> DEFINE c == Head(mailbox[m]).ch
<1>1. c \in Channel /\ Tail(mailbox[m]) \in Seq(Message) /\ Len(Tail(mailbox[m])) <= MailDepth
  BY IncomingType DEF HandleAdd
<1>2. Answer(c, "ok") \in [Channel -> Reply]
  BY <1>1, AnswerType DEF Outcome
<1> QED
  BY <1>1, <1>2 DEF HandleAdd, MixTypeOK

\* The mixer hands a member back, and may stop.
LEMMA HandleRemoveType ==
  ASSUME MixTypeOK, NEW m \in MixId, HandleRemove(m)
  PROVE  MixTypeOK'
<1> DEFINE c == Head(mailbox[m]).ch
           left == members[m] \ {c}
           r == IF c \in members[m] THEN "member" ELSE "absent"
<1>1. c \in Channel /\ Tail(mailbox[m]) \in Seq(Message) /\ Len(Tail(mailbox[m])) <= MailDepth
  BY IncomingType DEF HandleRemove
<1>2. r \in Outcome
  BY DEF Outcome
<1>3. Answer(c, r) \in [Channel -> Reply]
  BY <1>1, <1>2, AnswerType
<1>4. CASE left = {}
  BY <1>3, <1>4, StopType DEF HandleRemove
<1>5. CASE left # {}
  BY <1>1, <1>3, <1>5 DEF HandleRemove, MixTypeOK
<1> QED
  BY <1>4, <1>5

\* The mixer takes a forwarded command off its mailbox.
LEMMA HandleForwardType ==
  ASSUME MixTypeOK, NEW m \in MixId, HandleForward(m)
  PROVE  MixTypeOK'
<1>1. Tail(mailbox[m]) \in Seq(Message) /\ Len(Tail(mailbox[m])) <= MailDepth
  BY IncomingType DEF HandleForward
<1> QED
  BY <1>1 DEF HandleForward, MixTypeOK

\* Where run() goes, and asking a mixer.
LEMMA GotoType ==
  ASSUME TypeOK, NEW c \in Channel, NEW l \in PC, Goto(c, l)
  PROVE  pc' \in [Channel -> PC]
BY DEF Goto, TypeOK

\* An actor that asks its mixer has an unsent request.
LEMMA AskType ==
  ASSUME TypeOK, NEW c \in Channel, NEW l \in PC, Ask(c, l)
  PROVE  pc' \in [Channel -> PC] /\ reply' \in [Channel -> Reply]
<1>1. "unsent" \in Reply
  BY DEF Reply
<1> QED
  BY <1>1, GotoType DEF Ask, TypeOK, MixTypeOK

\* An actor that has sent a forward is back in its loop.
LEMMA AfterSendType ==
  ASSUME TypeOK, NEW c \in Channel, AfterSend(c)
  PROVE  pc' \in [Channel -> PC] /\ hand' \in [Channel -> Nat]
<1>1. CASE pc[c] = "forwarding"
  <2>1. "loop" \in PC
    BY DEF PC
  <2>2. pc' \in [Channel -> PC]
    BY <1>1, <2>1, GotoType DEF AfterSend
  <2>3. hand \in [Channel -> Nat]
    BY DEF TypeOK
  <2>4. hand' \in [Channel -> Nat]
    BY <1>1, <2>3 DEF AfterSend
  <2> QED
    BY <2>2, <2>4
<1>2. CASE pc[c] # "forwarding"
  BY <1>2 DEF AfterSend, TypeOK
<1> QED
  BY <1>1, <1>2

\* Counting one more event.
LEMMA CountType ==
  ASSUME NEW f \in [Channel -> Nat], NEW c \in Channel
  PROVE  [f EXCEPT ![c] = @ + 1] \in [Channel -> Nat]
OBVIOUS

\* Every step keeps every variable in its range.
LEMMA TypeStep == TypeOK /\ [Next]_vars => TypeOK'
<1> SUFFICES ASSUME TypeOK, [Next]_vars PROVE TypeOK'
  OBVIOUS
<1> USE MailDepthAssumption, ChannelMixAssumption
<1> USE DEF TypeOK, MixTypeOK, mixVars, facadeVars, statVars, recvVars, actorVars, eventVars
<1>p. {"loop", "adding", "leaving", "removing", "forwarding", "reclaiming", "closing",
       "posting", "done"} \subseteq PC
  BY DEF PC, Requesting
<1>q. QueuesOK(cmds)
  BY DEF QueuesOK
<1>1. ASSUME NEW c \in Channel, Open(c) PROVE TypeOK'
  BY <1>1 DEF Open, PC, Requesting
<1>2. ASSUME NEW c \in Channel, Register(c) PROVE TypeOK'
  BY <1>2 DEF Register
<1>3. ASSUME NEW c \in Channel, Close(c) PROVE TypeOK'
  <2>1. QueuesOK(cmds')
    <3>1. [op |-> "Close", mix |-> NoMix, seq |-> 0] \in Command
      BY DEF Command
    <3> QED
      BY <1>3, <1>q, <3>1, TrySendType DEF Close, Accepts
  <2> QED
    BY <1>3, <2>1 DEF QueuesOK, Close, Call, Budget
<1>4. ASSUME NEW c \in Channel, Operate(c) PROVE TypeOK'
  <2>1. QueuesOK(cmds')
    <3>1. [op |-> "Apply", mix |-> NoMix, seq |-> sent[c] + 1] \in Command
      BY DEF Command
    <3> QED
      BY <1>4, <1>q, <3>1, TrySendType DEF Operate, Accepts
  <2> QED
    <3>1. sent' \in [Channel -> Nat]
      BY <1>4 DEF Operate
    <3>2. calls' \in 0 .. MaxCalls
      BY <1>4 DEF Operate, Call, Budget
    <3> QED
      BY <1>4, <2>1, <3>1, <3>2 DEF QueuesOK, Operate
<1>5. ASSUME NEW a \in Channel, NEW b \in Channel, Mix(a, b) PROVE TypeOK'
  <2>1. PICK m \in MixId :
          /\ mixer' = mixer \/ Spawn(m)
          /\ slot' = [slot EXCEPT ![a] = m, ![b] = m]
          /\ cmds' = TrySend(TrySend(cmds, a, EnterCommand(m)), b, EnterCommand(m))
    BY <1>5 DEF Mix
  <2>2. EnterCommand(m) \in Command
    BY DEF EnterCommand, Command
  <2>3. QueuesOK(TrySend(cmds, a, EnterCommand(m)))
    BY <1>q, <2>2, TrySendType DEF Accepts
  <2>4. Accepts(b) => Len(TrySend(cmds, a, EnterCommand(m))[b]) < CmdDepth
    BY <1>5 DEF Mix, TrySend, Accepts
  <2>5. QueuesOK(cmds')
    BY <2>1, <2>2, <2>3, <2>4, TrySendType
  <2>6. refused' \subseteq Channel
    BY <1>5 DEF Mix, Refuses
  <2>7. mixer' \in [MixId -> MixerState]
    BY <2>1 DEF Spawn, MixerState
  <2> QED
    <3>1. slot' \in [Channel -> MixId \cup {NoMix}]
      BY <2>1
    <3>2. calls' \in 0 .. MaxCalls
      BY <1>5 DEF Mix, Call, Budget
    <3>3. UNCHANGED <<mailbox, members, reply, statVars, eventVars, opening, shutdown,
                      sent, pc, mode, handle, hand, recvVars>>
      BY <1>5 DEF Mix
    <3> QED
      BY <2>5, <2>6, <2>7, <3>1, <3>2, <3>3 DEF QueuesOK
<1>6. ASSUME NEW c \in Channel, Unmix(c) PROVE TypeOK'
  <2>1. QueuesOK(cmds')
    <3>1. [op |-> "LeaveMix", mix |-> NoMix, seq |-> 0] \in Command
      BY DEF Command
    <3> QED
      BY <1>6, <1>q, <3>1, TrySendType DEF Unmix, Accepts
  <2> QED
    BY <1>6, <2>1 DEF QueuesOK, Unmix, Refuses, Call, Budget
<1>7. ASSUME Shutdown PROVE TypeOK'
  <2>1. QueuesOK(cmds')
    <3> DEFINE cmd == [op |-> "Close", mix |-> NoMix, seq |-> 0]
    <3>1. cmd \in Command
      BY DEF Command
    <3>2. ASSUME NEW c \in Channel, Accepts(c)
          PROVE  Append(cmds[c], cmd) \in Seq(Command) /\ Len(Append(cmds[c], cmd)) <= CmdDepth
      BY <3>1, <3>2, <1>q, AppendLast DEF QueuesOK, Accepts
    <3> QED
      BY <1>7, <1>q, <3>2 DEF Shutdown, QueuesOK
  <2> QED
    BY <1>7, <2>1 DEF QueuesOK, Shutdown, Budget
<1>8. ASSUME ShutdownReturns PROVE TypeOK'
  BY <1>8 DEF ShutdownReturns
<1>9. ASSUME NEW c \in Channel, TakeClose(c) PROVE TypeOK'
  <2>1. QueuesOK(cmds')
    BY <1>9, TakeType DEF TakeClose
  <2> QED
    <3>1. pc' \in [Channel -> PC] /\ reply' \in [Channel -> Reply]
      <4>1. CASE Ask(c, "removing")
        BY <4>1, <1>p, AskType
      <4>2. CASE Goto(c, "closing") /\ UNCHANGED reply
        BY <4>2, <1>p, GotoType
      <4> QED
        BY <1>9, <4>1, <4>2 DEF TakeClose
    <3> QED
      BY <1>9, <2>1, <3>1 DEF QueuesOK, TakeClose
<1>10. ASSUME NEW c \in Channel, TakeEnterMix(c) PROVE TypeOK'
  <2>1. QueuesOK(cmds') /\ Head(cmds[c]).mix \in MixId
    BY <1>10, TakeType DEF TakeEnterMix
  <2> QED
    <3>1. pc' \in [Channel -> PC] /\ reply' \in [Channel -> Reply]
      <4>1. CASE Ask(c, "adding")
        BY <4>1, <1>p, AskType
      <4>2. CASE UNCHANGED <<pc, reply>>
        BY <4>2
      <4> QED
        BY <1>10, <4>1, <4>2 DEF TakeEnterMix
    <3>2. mode' \in [Channel -> Mode] /\ handle' \in [Channel -> MixId \cup {NoMix}]
      BY <1>10, <2>1 DEF TakeEnterMix, Mode
    <3>3. mixing' \in [Channel -> BOOLEAN]
      BY <1>10 DEF TakeEnterMix
    <3> QED
      BY <1>10, <2>1, <3>1, <3>2, <3>3 DEF QueuesOK, TakeEnterMix
<1>11. ASSUME NEW c \in Channel, TakeLeaveMix(c) PROVE TypeOK'
  <2>1. QueuesOK(cmds')
    BY <1>11, TakeType DEF TakeLeaveMix
  <2> QED
    <3>1. pc' \in [Channel -> PC] /\ reply' \in [Channel -> Reply]
      <4>1. CASE Ask(c, "leaving")
        BY <4>1, <1>p, AskType
      <4>2. CASE UNCHANGED <<pc, reply>>
        BY <4>2
      <4> QED
        BY <1>11, <4>1, <4>2 DEF TakeLeaveMix
    <3> QED
      BY <1>11, <2>1, <3>1 DEF QueuesOK, TakeLeaveMix
<1>12. ASSUME NEW c \in Channel, TakeApply(c) PROVE TypeOK'
  <2>1. QueuesOK(cmds') /\ Head(cmds[c]).seq \in Nat
    BY <1>12, TakeType DEF TakeApply
  <2> QED
    <3>1. pc' \in [Channel -> PC] /\ reply' \in [Channel -> Reply]
      <4>1. CASE Ask(c, "forwarding")
        BY <4>1, <1>p, AskType
      <4>2. CASE UNCHANGED <<pc, reply>>
        BY <4>2
      <4> QED
        BY <1>12, <4>1, <4>2 DEF TakeApply
    <3>2. hand' \in [Channel -> Nat] /\ applied' \in [Channel -> Nat]
      BY <1>12, <2>1 DEF TakeApply
    <3> QED
      BY <1>12, <2>1, <3>1, <3>2 DEF QueuesOK, TakeApply
<1>13. ASSUME NEW c \in Channel, IdleTimeout(c) PROVE TypeOK'
  BY <1>13 DEF IdleTimeout, Goto, PC, Requesting
<1>14. ASSUME NEW c \in Channel, SendRequest(c) PROVE TypeOK'
  <2>1. RequestOf(c) \in Message
    BY DEF RequestOf, Message
  <2>2. MixTypeOK'
    BY <1>14, <2>1, DeliverType DEF SendRequest
  <2> QED
    <3>1. pc' \in [Channel -> PC] /\ hand' \in [Channel -> Nat]
      BY <1>14, AfterSendType DEF SendRequest
    <3> QED
      BY <1>14, <2>2, <3>1 DEF SendRequest
<1>15. ASSUME NEW c \in Channel, SendFails(c) PROVE TypeOK'
  <2>1. pc' \in [Channel -> PC] /\ hand' \in [Channel -> Nat]
    BY <1>15, AfterSendType DEF SendFails
  <2>2. reply' \in [Channel -> Reply] /\ UNCHANGED <<mixer, mailbox, members>>
    BY <1>15 DEF SendFails, Bounce, Reply, Outcome
  <2> QED
    BY <1>15, <2>1, <2>2 DEF SendFails
<1>16. ASSUME NEW c \in Channel, FinishAdd(c) PROVE TypeOK'
  <2>1. pc' \in [Channel -> PC] /\ reply' \in [Channel -> Reply]
    <3>1. CASE Ask(c, "reclaiming")
      BY <3>1, <1>p, AskType
    <3>2. CASE Goto(c, "loop") /\ reply' = [reply EXCEPT ![c] = "idle"]
      <4>1. "idle" \in Reply
        BY DEF Reply
      <4> QED
        BY <3>2, <4>1, <1>p, GotoType
    <3> QED
      BY <1>16, <3>1, <3>2 DEF FinishAdd
  <2>2. mode' \in [Channel -> Mode] /\ handle' \in [Channel -> MixId \cup {NoMix}]
    BY <1>16 DEF FinishAdd, Mode
  <2>3. mixing' \in [Channel -> BOOLEAN]
    BY <1>16 DEF FinishAdd
  <2> QED
    BY <1>16, <2>1, <2>2, <2>3 DEF FinishAdd
<1>17. ASSUME NEW c \in Channel, FinishLeave(c) PROVE TypeOK'
  <2>1. pc' \in [Channel -> PC] /\ reply' \in [Channel -> Reply]
    BY <1>17 DEF FinishLeave, Ask, Goto, PC, Requesting, Reply
  <2>2. /\ mode' \in [Channel -> Mode]
        /\ handle' \in [Channel -> MixId \cup {NoMix}]
        /\ mixing' \in [Channel -> BOOLEAN]
    BY <1>17 DEF FinishLeave, RestoreIfFound, BackToLocal, KeepMode, Mode
  <2> QED
    BY <1>17, <2>1, <2>2 DEF FinishLeave
<1>18. ASSUME NEW c \in Channel, FinishRemove(c) PROVE TypeOK'
  <2>1. pc' \in [Channel -> PC] /\ reply' \in [Channel -> Reply]
    <3>1. CASE Ask(c, "reclaiming")
      BY <3>1, <1>p, AskType
    <3>2. CASE Goto(c, "closing") /\ reply' = [reply EXCEPT ![c] = "idle"]
      <4>1. "idle" \in Reply
        BY DEF Reply
      <4> QED
        BY <3>2, <4>1, <1>p, GotoType
    <3> QED
      BY <1>18, <3>1, <3>2 DEF FinishRemove
  <2>2. /\ mode' \in [Channel -> Mode]
        /\ handle' \in [Channel -> MixId \cup {NoMix}]
        /\ mixing' \in [Channel -> BOOLEAN]
    BY <1>18 DEF FinishRemove, RestoreIfFound, BackToLocal, KeepMode, Mode
  <2> QED
    BY <1>18, <2>1, <2>2 DEF FinishRemove
<1>19. ASSUME NEW c \in Channel, FinishReclaim(c) PROVE TypeOK'
  <2>1. pc' \in [Channel -> PC] /\ reply' \in [Channel -> Reply]
    BY <1>19 DEF FinishReclaim, Ask, Goto, PC, Requesting, Reply
  <2>2. /\ mode' \in [Channel -> Mode]
        /\ handle' \in [Channel -> MixId \cup {NoMix}]
        /\ mixing' \in [Channel -> BOOLEAN]
    BY <1>19 DEF FinishReclaim, RestoreIfFound, BackToLocal, KeepMode, Mode
  <2> QED
    BY <1>19, <2>1, <2>2 DEF FinishReclaim
<1>20. ASSUME NEW c \in Channel, ReclaimTimesOut(c) PROVE TypeOK'
  BY <1>20 DEF ReclaimTimesOut, Goto, PC, Requesting, Reply
<1>21. ASSUME NEW c \in Channel, Teardown(c) PROVE TypeOK'
  BY <1>21 DEF Teardown, Unregister, Goto, PC, Requesting
<1>22. ASSUME NEW c \in Channel, PostClose(c) PROVE TypeOK'
  <2>1. pc' \in [Channel -> PC]
    BY <1>22, <1>p, GotoType DEF PostClose
  <2>2. /\ QueuesOK(cmds')
        /\ handle' \in [Channel -> MixId \cup {NoMix}]
    BY <1>22 DEF PostClose, QueuesOK
  <2>3. closes' \in [Channel -> Nat]
    BY <1>22, CountType DEF PostClose
  <2> QED
    BY <1>22, <2>1, <2>2, <2>3 DEF QueuesOK, PostClose
<1>23. ASSUME NEW c \in Channel, RecvStops(c) PROVE TypeOK'
  BY <1>23 DEF RecvStops
<1>24. ASSUME NEW c \in Channel, RecvFails(c) PROVE TypeOK'
  <2>1. errors' \in 0 .. MaxErrors
    BY <1>24 DEF RecvFails
  <2>2. recv' \in [Channel -> {"none", "running", "cancelled", "ended"}]
    BY <1>24 DEF RecvFails
  <2> QED
    BY <1>24, <2>1, <2>2 DEF RecvFails
<1>25. ASSUME NEW m \in MixId, MixerAdd(m) PROVE TypeOK'
  <2>1. MixTypeOK'
    BY <1>25, HandleAddType DEF MixerAdd
  <2> QED
    BY <1>25, <2>1 DEF MixerAdd
<1>26. ASSUME NEW m \in MixId, MixerRemove(m) PROVE TypeOK'
  <2>1. MixTypeOK'
    BY <1>26, HandleRemoveType DEF MixerRemove
  <2> QED
    BY <1>26, <2>1 DEF MixerRemove
<1>27. ASSUME NEW m \in MixId, MixerForward(m) PROVE TypeOK'
  <2>1. MixTypeOK' /\ Head(mailbox[m]).seq \in Nat
    BY <1>27, HandleForwardType, IncomingType DEF MixerForward, HandleForward
  <2> QED
    BY <1>27, <2>1 DEF MixerForward
<1>28. ASSUME NEW m \in MixId, MixerUnheld(m) PROVE TypeOK'
  <2>1. MixTypeOK'
    BY <1>28, StopType DEF MixerUnheld, HandlesDropped
  <2> QED
    BY <1>28, <2>1 DEF MixerUnheld
<1>29. ASSUME NEW m \in MixId, NEW c \in Channel, MixerEvict(m, c) PROVE TypeOK'
  <2>1. members' \in [MixId -> SUBSET Channel]
    BY <1>29 DEF MixerEvict, EvictIdle
  <2>2. UNCHANGED <<mixer, mailbox, reply>>
    BY <1>29 DEF MixerEvict, EvictIdle
  <2> QED
    <3>1. closes' \in [Channel -> Nat]
      BY <1>29, CountType DEF MixerEvict
    <3>2. evicted' \in SUBSET Channel
      BY <1>29 DEF MixerEvict
    <3> QED
      BY <1>29, <2>1, <2>2, <3>1, <3>2 DEF MixerEvict
<1>30. CASE UNCHANGED vars
  BY <1>30 DEF vars
<1> QED
  BY <1>1, <1>2, <1>3, <1>4, <1>5, <1>6, <1>7, <1>8, <1>9, <1>10, <1>11, <1>12, <1>13,
     <1>14, <1>15, <1>16, <1>17, <1>18, <1>19, <1>20, <1>21, <1>22, <1>23, <1>24, <1>25,
     <1>26, <1>27, <1>28, <1>29, <1>30
     DEF Next, FacadeStep, ActorRuns, MixerRuns

\* Every variable of the channels, mixers and facade stays in its range; in
\* particular mailboxes and command queues stay within their capacity.
THEOREM TypeCorrect == Spec => []TypeOK
<1>1. Init => TypeOK
  BY MailDepthAssumption, ChannelMixAssumption
     DEF Init, MixInit, TypeOK, MixTypeOK, PC, Mode, Reply, MixerState
<1> QED
  BY <1>1, TypeStep, PTL DEF Spec

-----------------------------------------------------------------------------
(* The end of a channel *)

\* Every step preserves the invariant about the end of a channel.
LEMMA EndingStep == TypeOK /\ EndingInv /\ [Next]_vars => EndingInv'
<1> SUFFICES ASSUME TypeOK, EndingInv, [Next]_vars PROVE EndingInv'
  OBVIOUS
<1> USE ChannelMixAssumption
<1> USE DEF EndingInv, facadeVars, statVars, recvVars, actorVars, eventVars
<1>t. /\ pc \in [Channel -> PC] /\ mode \in [Channel -> Mode]
      /\ cmds \in [Channel -> Seq(Command)] /\ mixing \in [Channel -> BOOLEAN]
      /\ closes \in [Channel -> Nat] /\ evicted \in SUBSET Channel
      /\ recv \in [Channel -> {"none", "running", "cancelled", "ended"}]
      /\ registry \in SUBSET Channel
  BY DEF TypeOK
<1>1. ASSUME NEW c \in Channel, Open(c) PROVE EndingInv'
  BY <1>1, <1>t DEF Open
<1>2. ASSUME NEW c \in Channel, Register(c) PROVE EndingInv'
  BY <1>2, <1>t DEF Register
<1>3. ASSUME NEW c \in Channel, Close(c) PROVE EndingInv'
  BY <1>3, <1>t DEF Close, Call, Budget, TrySend, Born
<1>4. ASSUME NEW c \in Channel, Operate(c) PROVE EndingInv'
  BY <1>4, <1>t DEF Operate, Call, Budget, TrySend, Born
<1>5. ASSUME NEW a \in Channel, NEW b \in Channel, Mix(a, b) PROVE EndingInv'
  BY <1>5, <1>t DEF Mix, Call, Budget, TrySend, Born
<1>6. ASSUME NEW c \in Channel, Unmix(c) PROVE EndingInv'
  BY <1>6, <1>t DEF Unmix, Call, Budget, TrySend, Born
<1>7. ASSUME Shutdown PROVE EndingInv'
  BY <1>7, <1>t DEF Shutdown, Budget
<1>8. ASSUME ShutdownReturns PROVE EndingInv'
  BY <1>8, <1>t DEF ShutdownReturns
<1>9. ASSUME NEW c \in Channel, TakeClose(c) PROVE EndingInv'
  BY <1>9, <1>t DEF TakeClose, Take, Ask, Goto
<1>10. ASSUME NEW c \in Channel, TakeEnterMix(c) PROVE EndingInv'
  BY <1>10, <1>t DEF TakeEnterMix, Take, Ask, Goto
<1>11. ASSUME NEW c \in Channel, TakeLeaveMix(c) PROVE EndingInv'
  BY <1>11, <1>t DEF TakeLeaveMix, Take, Ask, Goto
<1>12. ASSUME NEW c \in Channel, TakeApply(c) PROVE EndingInv'
  BY <1>12, <1>t DEF TakeApply, Take, Ask, Goto
<1>13. ASSUME NEW c \in Channel, IdleTimeout(c) PROVE EndingInv'
  BY <1>13, <1>t DEF IdleTimeout, Goto
<1>14. ASSUME NEW c \in Channel, SendRequest(c) PROVE EndingInv'
  BY <1>14, <1>t DEF SendRequest, AfterSend, Goto, Requesting
<1>15. ASSUME NEW c \in Channel, SendFails(c) PROVE EndingInv'
  BY <1>15, <1>t DEF SendFails, AfterSend, Goto, Requesting
<1>16. ASSUME NEW c \in Channel, FinishAdd(c) PROVE EndingInv'
  BY <1>16, <1>t DEF FinishAdd, Ask, Goto
<1>17. ASSUME NEW c \in Channel, FinishLeave(c) PROVE EndingInv'
  BY <1>17, <1>t DEF FinishLeave, RestoreIfFound, BackToLocal, KeepMode, Goto
<1>18. ASSUME NEW c \in Channel, FinishRemove(c) PROVE EndingInv'
  BY <1>18, <1>t DEF FinishRemove, RestoreIfFound, BackToLocal, KeepMode, Ask, Goto
<1>19. ASSUME NEW c \in Channel, FinishReclaim(c) PROVE EndingInv'
  BY <1>19, <1>t DEF FinishReclaim, RestoreIfFound, BackToLocal, KeepMode, Goto
<1>20. ASSUME NEW c \in Channel, ReclaimTimesOut(c) PROVE EndingInv'
  BY <1>20, <1>t DEF ReclaimTimesOut, Goto
<1>21. ASSUME NEW c \in Channel, Teardown(c) PROVE EndingInv'
  BY <1>21, <1>t DEF Teardown, Unregister, Goto
<1>22. ASSUME NEW c \in Channel, PostClose(c) PROVE EndingInv'
  BY <1>22, <1>t DEF PostClose, Goto
<1>23. ASSUME NEW c \in Channel, RecvStops(c) PROVE EndingInv'
  BY <1>23, <1>t DEF RecvStops
<1>24. ASSUME NEW c \in Channel, RecvFails(c) PROVE EndingInv'
  BY <1>24, <1>t DEF RecvFails
<1>25. ASSUME NEW m \in MixId, MixerAdd(m) PROVE EndingInv'
  BY <1>25, <1>t DEF MixerAdd
<1>26. ASSUME NEW m \in MixId, MixerRemove(m) PROVE EndingInv'
  BY <1>26, <1>t DEF MixerRemove
<1>27. ASSUME NEW m \in MixId, MixerForward(m) PROVE EndingInv'
  BY <1>27, <1>t DEF MixerForward
<1>28. ASSUME NEW m \in MixId, MixerUnheld(m) PROVE EndingInv'
  BY <1>28, <1>t DEF MixerUnheld
<1>29. ASSUME NEW m \in MixId, NEW c \in Channel, MixerEvict(m, c) PROVE EndingInv'
  BY <1>29, <1>t DEF MixerEvict, EvictIdle
<1>30. CASE UNCHANGED vars
  BY <1>30, <1>t DEF vars
<1> QED
  BY <1>1, <1>2, <1>3, <1>4, <1>5, <1>6, <1>7, <1>8, <1>9, <1>10, <1>11, <1>12, <1>13,
     <1>14, <1>15, <1>16, <1>17, <1>18, <1>19, <1>20, <1>21, <1>22, <1>23, <1>24, <1>25,
     <1>26, <1>27, <1>28, <1>29, <1>30
     DEF Next, FacadeStep, ActorRuns, MixerRuns

\* What holds of a channel that closes: out of the registry before its Close,
\* its recv_loop cancelled if it still had its state.
LEMMA EndingAlways == Spec => []EndingInv
<1>1. Init => EndingInv
  BY ChannelMixAssumption DEF Init, EndingInv
<1> QED
  BY <1>1, TypeCorrect, EndingStep, PTL DEF Spec

\* A channel that posted its Close event is out of the registry, unless its
\* mixer swept it.
THEOREM ClosesUnregistered == Spec => []CloseAfterUnregister
<1>1. EndingInv => CloseAfterUnregister
  BY DEF EndingInv, CloseAfterUnregister
<1> QED
  BY <1>1, EndingAlways, PTL

-----------------------------------------------------------------------------
(* The requests in a mailbox *)

\* The channels with an Add in a mailbox.
LEMMA InAdds ==
  ASSUME NEW box, NEW c
  PROVE  c \in AddsIn(box) <=> \E i \in DOMAIN box : box[i].op = "Add" /\ box[i].ch = c
BY DEF AddsIn

\* The channels with an Add or a Remove in a mailbox.
LEMMA InWaiters ==
  ASSUME NEW box, NEW c
  PROVE  c \in WaitersIn(box) <=> \E i \in DOMAIN box : box[i].op # "Forward" /\ box[i].ch = c
BY DEF WaitersIn

\* An Add awaits an answer.
LEMMA AddsWait ==
  ASSUME NEW box, NEW c, c \in AddsIn(box)
  PROVE  c \in WaitersIn(box)
BY InAdds, InWaiters

\* An empty mailbox holds no request.
LEMMA EmptyQueue ==
  /\ \A c : c \notin AddsIn(<<>>) /\ c \notin WaitersIn(<<>>)
  /\ OneRequestEach(<<>>)
BY DEF AddsIn, WaitersIn, OneRequestEach

\* Queueing a message behind the others.
LEMMA AppendQueue ==
  ASSUME NEW box \in Seq(Message), NEW msg \in Message, OneRequestEach(box),
         msg.op = "Forward" \/ msg.ch \notin WaitersIn(box)
  PROVE  /\ OneRequestEach(Append(box, msg))
         /\ \A c : c \in AddsIn(Append(box, msg)) <=>
                     c \in AddsIn(box) \/ (msg.op = "Add" /\ c = msg.ch)
         /\ \A c : c \in WaitersIn(Append(box, msg)) <=>
                     c \in WaitersIn(box) \/ (msg.op # "Forward" /\ c = msg.ch)
<1> DEFINE new == Append(box, msg)
           n == Len(box) + 1
<1>1. /\ n \in Nat /\ DOMAIN box = 1 .. n - 1 /\ DOMAIN new = 1 .. n
      /\ new[n] = msg
      /\ \A i \in 1 .. n - 1 : new[i] = box[i]
  OBVIOUS
<1>2. \A i \in DOMAIN new : (i \in DOMAIN box /\ new[i] = box[i]) \/ (i = n /\ new[i] = msg)
  BY <1>1
<1>3. \A i \in DOMAIN box : i \in DOMAIN new /\ new[i] = box[i]
  BY <1>1
<1>4. n \in DOMAIN new /\ new[n] = msg
  BY <1>1
<1> HIDE DEF new, n
<1>5. OneRequestEach(new)
  BY <1>2, InWaiters DEF OneRequestEach
<1>6. \A c : c \in AddsIn(new) <=> c \in AddsIn(box) \/ (msg.op = "Add" /\ c = msg.ch)
  BY <1>2, <1>3, <1>4, InAdds
<1>7. \A c : c \in WaitersIn(new) <=> c \in WaitersIn(box) \/ (msg.op # "Forward" /\ c = msg.ch)
  BY <1>2, <1>3, <1>4, InWaiters
<1> QED
  BY <1>5, <1>6, <1>7 DEF new

\* Taking the first message off: its request was the only one of its channel.
LEMMA TailQueue ==
  ASSUME NEW box \in Seq(Message), box # <<>>, OneRequestEach(box)
  PROVE  LET first == Head(box)
             rest  == Tail(box)
         IN /\ OneRequestEach(rest)
            /\ first.op # "Forward" => first.ch \in WaitersIn(box) \ WaitersIn(rest)
            /\ first.op = "Add" <=> first.op # "Forward" /\ first.ch \in AddsIn(box)
            /\ \A c : c \in AddsIn(rest) <=>
                        c \in AddsIn(box) /\ ~(first.op # "Forward" /\ c = first.ch)
            /\ \A c : c \in WaitersIn(rest) <=>
                        c \in WaitersIn(box) /\ ~(first.op # "Forward" /\ c = first.ch)
<1> DEFINE first == Head(box)
           rest  == Tail(box)
           n == Len(box)
<1>1. /\ n \in Nat \ {0} /\ DOMAIN box = 1 .. n /\ DOMAIN rest = 1 .. n - 1
      /\ first = box[1]
      /\ \A i \in 1 .. n - 1 : rest[i] = box[i + 1]
  OBVIOUS
<1>2. \A i \in DOMAIN rest : i + 1 \in DOMAIN box /\ i + 1 # 1 /\ rest[i] = box[i + 1]
  BY <1>1
<1>3. \A i \in DOMAIN box : i # 1 => i - 1 \in DOMAIN rest /\ rest[i - 1] = box[i]
  BY <1>1
<1>4. 1 \in DOMAIN box /\ first = box[1] /\ first.op \in {"Add", "Remove", "Forward"}
  <2>1. first \in Message
    BY HeadTail
  <2> QED
    BY <1>1, <2>1 DEF Message
<1>5. \A i, j \in DOMAIN rest : i + 1 = j + 1 => i = j
  BY <1>1
<1> HIDE DEF first, rest, n
<1>6. OneRequestEach(rest)
  BY <1>2, <1>5 DEF OneRequestEach
<1>7. first.op # "Forward" => first.ch \in WaitersIn(box) \ WaitersIn(rest)
  BY <1>2, <1>4, InWaiters DEF OneRequestEach
<1>8. \A c : c \in WaitersIn(rest) <=>
               c \in WaitersIn(box) /\ ~(first.op # "Forward" /\ c = first.ch)
  BY <1>2, <1>3, <1>4, <1>7, InWaiters
<1>9. \A c : c \in AddsIn(rest) <=>
               c \in AddsIn(box) /\ ~(first.op # "Forward" /\ c = first.ch)
  BY <1>2, <1>3, <1>4, <1>7, InAdds, AddsWait
<1>10. first.op = "Add" <=> first.op # "Forward" /\ first.ch \in AddsIn(box)
  BY <1>4, InAdds DEF OneRequestEach
<1> QED
  BY <1>6, <1>7, <1>8, <1>9, <1>10 DEF first, rest

-----------------------------------------------------------------------------
(* Where the state of a channel is: the actors' steps *)

\* The actors' own steps keep track of where their state is.
LEMMA CustodyActor ==
  ASSUME TypeOK, CustodyInv, NEW c \in Channel, ActorRuns(c) \/ IdleTimeout(c) \/ ReclaimTimesOut(c)
  PROVE  CustodyInv'
<1> USE DEF CustodyInv
<1>t. /\ pc \in [Channel -> PC] /\ mode \in [Channel -> Mode]
      /\ reply \in [Channel -> Reply] /\ handle \in [Channel -> MixId \cup {NoMix}]
      /\ mailbox \in [MixId -> Seq(Message)]
  BY DEF TypeOK, MixTypeOK
<1>1. ASSUME TakeClose(c) PROVE CustodyInv'
  <2>1. UNCHANGED <<mixer, mailbox, members, evicted>>
    BY <1>1 DEF TakeClose, Bounce, mixVars, eventVars
  <2>2. MixersInv'
    BY <2>1 DEF MixersInv, OneRequestEach
  <2>3. RepliesInv'
    BY <1>1, <1>t, <2>1 DEF TakeClose, Take, Ask, Goto, RepliesInv, Ending, mixVars, facadeVars, statVars, recvVars, actorVars, eventVars
  <2>4. ModesInv'
    BY <1>1, <1>t, <2>1 DEF TakeClose, Take, Ask, Goto, ModesInv, RepliesInv, Ending, mixVars, facadeVars, statVars, recvVars, actorVars, eventVars
  <2>5. QueuedInv'
    BY <1>1, <1>t, <2>1 DEF TakeClose, Take, Ask, Goto, QueuedInv, RepliesInv, ModesInv, Ending, mixVars, facadeVars, statVars, recvVars, actorVars, eventVars
  <2>6. PlaceInv'
    BY <1>1, <1>t, <2>1 DEF TakeClose, Take, Ask, Goto, PlaceInv, Placed, RepliesInv, ModesInv, MixersInv, Ending, Absent, Inside, Gone, mixVars, facadeVars, statVars, recvVars, actorVars, eventVars
  <2> QED
    BY <2>2, <2>3, <2>4, <2>5, <2>6
<1>2. ASSUME TakeEnterMix(c) PROVE CustodyInv'
  <2>1. UNCHANGED <<mixer, mailbox, members, evicted>>
    BY <1>2 DEF TakeEnterMix, Bounce, mixVars, eventVars
  <2>2. MixersInv'
    BY <2>1 DEF MixersInv, OneRequestEach
  <2>3. RepliesInv'
    BY <1>2, <1>t, <2>1 DEF TakeEnterMix, Take, Ask, Goto, RepliesInv, Ending, mixVars, facadeVars, statVars, recvVars, actorVars, eventVars
  <2>4. ModesInv'
    <3>1. Head(cmds[c]).mix \in MixId
      BY <1>2, TakeType DEF TakeEnterMix
    <3> QED
      BY <1>2, <1>t, <2>1, <3>1 DEF TakeEnterMix, Take, Ask, Goto, ModesInv, RepliesInv, Ending, mixVars, facadeVars, statVars, recvVars, actorVars, eventVars
  <2>5. QueuedInv'
    BY <1>2, <1>t, <2>1 DEF TakeEnterMix, Take, Ask, Goto, QueuedInv, RepliesInv, ModesInv, Ending, mixVars, facadeVars, statVars, recvVars, actorVars, eventVars
  <2>6. PlaceInv'
    BY <1>2, <1>t, <2>1 DEF TakeEnterMix, Take, Ask, Goto, PlaceInv, Placed, RepliesInv, ModesInv, MixersInv, Ending, Absent, Inside, Gone, mixVars, facadeVars, statVars, recvVars, actorVars, eventVars
  <2> QED
    BY <2>2, <2>3, <2>4, <2>5, <2>6
<1>3. ASSUME TakeLeaveMix(c) PROVE CustodyInv'
  <2>1. UNCHANGED <<mixer, mailbox, members, evicted>>
    BY <1>3 DEF TakeLeaveMix, Bounce, mixVars, eventVars
  <2>2. MixersInv'
    BY <2>1 DEF MixersInv, OneRequestEach
  <2>3. RepliesInv'
    BY <1>3, <1>t, <2>1 DEF TakeLeaveMix, Take, Ask, Goto, RepliesInv, Ending, mixVars, facadeVars, statVars, recvVars, actorVars, eventVars
  <2>4. ModesInv'
    BY <1>3, <1>t, <2>1 DEF TakeLeaveMix, Take, Ask, Goto, ModesInv, RepliesInv, Ending, mixVars, facadeVars, statVars, recvVars, actorVars, eventVars
  <2>5. QueuedInv'
    BY <1>3, <1>t, <2>1 DEF TakeLeaveMix, Take, Ask, Goto, QueuedInv, RepliesInv, ModesInv, Ending, mixVars, facadeVars, statVars, recvVars, actorVars, eventVars
  <2>6. PlaceInv'
    BY <1>3, <1>t, <2>1 DEF TakeLeaveMix, Take, Ask, Goto, PlaceInv, Placed, RepliesInv, ModesInv, MixersInv, Ending, Absent, Inside, Gone, mixVars, facadeVars, statVars, recvVars, actorVars, eventVars
  <2> QED
    BY <2>2, <2>3, <2>4, <2>5, <2>6
<1>4. ASSUME TakeApply(c) PROVE CustodyInv'
  <2>1. UNCHANGED <<mixer, mailbox, members, evicted>>
    BY <1>4 DEF TakeApply, Bounce, mixVars, eventVars
  <2>2. MixersInv'
    BY <2>1 DEF MixersInv, OneRequestEach
  <2>3. RepliesInv'
    BY <1>4, <1>t, <2>1 DEF TakeApply, Take, Ask, Goto, RepliesInv, Ending, mixVars, facadeVars, statVars, recvVars, actorVars, eventVars
  <2>4. ModesInv'
    BY <1>4, <1>t, <2>1 DEF TakeApply, Take, Ask, Goto, ModesInv, RepliesInv, Ending, mixVars, facadeVars, statVars, recvVars, actorVars, eventVars
  <2>5. QueuedInv'
    BY <1>4, <1>t, <2>1 DEF TakeApply, Take, Ask, Goto, QueuedInv, RepliesInv, ModesInv, Ending, mixVars, facadeVars, statVars, recvVars, actorVars, eventVars
  <2>6. PlaceInv'
    BY <1>4, <1>t, <2>1 DEF TakeApply, Take, Ask, Goto, PlaceInv, Placed, RepliesInv, ModesInv, MixersInv, Ending, Absent, Inside, Gone, mixVars, facadeVars, statVars, recvVars, actorVars, eventVars
  <2> QED
    BY <2>2, <2>3, <2>4, <2>5, <2>6
<1>5. ASSUME IdleTimeout(c) PROVE CustodyInv'
  <2>1. UNCHANGED <<mixer, mailbox, members, evicted>>
    BY <1>5 DEF IdleTimeout, Bounce, mixVars, eventVars
  <2>2. MixersInv'
    BY <2>1 DEF MixersInv, OneRequestEach
  <2>3. RepliesInv'
    BY <1>5, <1>t, <2>1 DEF IdleTimeout, Goto, RepliesInv, Ending, mixVars, facadeVars, statVars, recvVars, actorVars, eventVars
  <2>4. ModesInv'
    BY <1>5, <1>t, <2>1 DEF IdleTimeout, Goto, ModesInv, RepliesInv, Ending, mixVars, facadeVars, statVars, recvVars, actorVars, eventVars
  <2>5. QueuedInv'
    BY <1>5, <1>t, <2>1 DEF IdleTimeout, Goto, QueuedInv, RepliesInv, ModesInv, Ending, mixVars, facadeVars, statVars, recvVars, actorVars, eventVars
  <2>6. PlaceInv'
    BY <1>5, <1>t, <2>1 DEF IdleTimeout, Goto, PlaceInv, Placed, RepliesInv, ModesInv, MixersInv, Ending, Absent, Inside, Gone, mixVars, facadeVars, statVars, recvVars, actorVars, eventVars
  <2> QED
    BY <2>2, <2>3, <2>4, <2>5, <2>6
<1>6. ASSUME SendFails(c) PROVE CustodyInv'
  <2>1. UNCHANGED <<mixer, mailbox, members, evicted>>
    BY <1>6 DEF SendFails, Bounce, mixVars, eventVars
  <2>2. MixersInv'
    BY <2>1 DEF MixersInv, OneRequestEach
  <2>3. RepliesInv'
    BY <1>6, <1>t, <2>1 DEF SendFails, Bounce, RequestOf, Reaches, AfterSend, Goto, Requesting, RepliesInv, Ending, mixVars, facadeVars, statVars, recvVars, actorVars, eventVars
  <2>4. ModesInv'
    BY <1>6, <1>t, <2>1 DEF SendFails, Bounce, RequestOf, Reaches, AfterSend, Goto, Requesting, ModesInv, RepliesInv, Ending, mixVars, facadeVars, statVars, recvVars, actorVars, eventVars
  <2>5. QueuedInv'
    BY <1>6, <1>t, <2>1 DEF SendFails, Bounce, RequestOf, Reaches, AfterSend, Goto, Requesting, QueuedInv, RepliesInv, ModesInv, Ending, mixVars, facadeVars, statVars, recvVars, actorVars, eventVars
  <2>6. PlaceInv'
    <3>1. pc[c] \in {"leaving", "removing"} => Gone(c)
      <4>1. SUFFICES ASSUME pc[c] \in {"leaving", "removing"} PROVE Gone(c)
        OBVIOUS
      <4>2. mode[c] = "mixed" /\ handle[c] \in MixId
        BY <1>t, <4>1 DEF ModesInv, Mode, Ending
      <4>3. members[handle[c]] = {} /\ reply[c] = "unsent"
        BY <1>6, <4>2 DEF SendFails, Bounce, Reaches, MixersInv
      <4> QED
        BY <4>1, <4>2, <4>3 DEF PlaceInv, Placed, Inside
    <3>2. /\ pc[c] \in Requesting /\ reply[c] = "unsent"
          /\ pc' = IF pc[c] = "forwarding" THEN [pc EXCEPT ![c] = "loop"] ELSE pc
          /\ reply' = [reply EXCEPT ![c] = IF pc[c] = "forwarding" THEN "idle" ELSE "gone"]
          /\ UNCHANGED <<mode, handle>>
      BY <1>6, <1>t DEF SendFails, Bounce, RequestOf, AfterSend, Goto, Requesting
    <3> QED
      BY <1>t, <2>1, <3>1, <3>2
         DEF PlaceInv, Placed, ModesInv, Requesting, Ending, Absent, Inside, Gone
  <2> QED
    BY <2>2, <2>3, <2>4, <2>5, <2>6
<1>7. ASSUME FinishAdd(c) PROVE CustodyInv'
  <2>1. UNCHANGED <<mixer, mailbox, members, evicted>>
    BY <1>7 DEF FinishAdd, Bounce, mixVars, eventVars
  <2>2. MixersInv'
    BY <2>1 DEF MixersInv, OneRequestEach
  <2>3. RepliesInv'
    BY <1>7, <1>t, <2>1 DEF FinishAdd, Ask, Goto, RepliesInv, Ending, mixVars, facadeVars, statVars, recvVars, actorVars, eventVars
  <2>4. ModesInv'
    BY <1>7, <1>t, <2>1 DEF FinishAdd, Ask, Goto, ModesInv, RepliesInv, Ending, mixVars, facadeVars, statVars, recvVars, actorVars, eventVars
  <2>5. QueuedInv'
    BY <1>7, <1>t, <2>1 DEF FinishAdd, Ask, Goto, QueuedInv, RepliesInv, ModesInv, Ending, mixVars, facadeVars, statVars, recvVars, actorVars, eventVars
  <2>6. PlaceInv'
    BY <1>7, <1>t, <2>1 DEF FinishAdd, Ask, Goto, PlaceInv, Placed, RepliesInv, ModesInv, MixersInv, Ending, Absent, Inside, Gone, mixVars, facadeVars, statVars, recvVars, actorVars, eventVars
  <2> QED
    BY <2>2, <2>3, <2>4, <2>5, <2>6
<1>8. ASSUME FinishLeave(c) PROVE CustodyInv'
  <2>1. UNCHANGED <<mixer, mailbox, members, evicted>>
    BY <1>8 DEF FinishLeave, Bounce, mixVars, eventVars
  <2>2. MixersInv'
    BY <2>1 DEF MixersInv, OneRequestEach
  <2>3. RepliesInv'
    BY <1>8, <1>t, <2>1 DEF FinishLeave, RestoreIfFound, BackToLocal, KeepMode, Goto, Outcome, RepliesInv, Ending, mixVars, facadeVars, statVars, recvVars, actorVars, eventVars
  <2>4. ModesInv'
    BY <1>8, <1>t, <2>1 DEF FinishLeave, RestoreIfFound, BackToLocal, KeepMode, Goto, Outcome, ModesInv, RepliesInv, Ending, mixVars, facadeVars, statVars, recvVars, actorVars, eventVars
  <2>5. QueuedInv'
    BY <1>8, <1>t, <2>1 DEF FinishLeave, RestoreIfFound, BackToLocal, KeepMode, Goto, Outcome, QueuedInv, RepliesInv, ModesInv, Ending, mixVars, facadeVars, statVars, recvVars, actorVars, eventVars
  <2>6. PlaceInv'
    BY <1>8, <1>t, <2>1 DEF FinishLeave, RestoreIfFound, BackToLocal, KeepMode, Goto, Outcome, PlaceInv, Placed, RepliesInv, ModesInv, MixersInv, Ending, Absent, Inside, Gone, mixVars, facadeVars, statVars, recvVars, actorVars, eventVars
  <2> QED
    BY <2>2, <2>3, <2>4, <2>5, <2>6
<1>9. ASSUME FinishRemove(c) PROVE CustodyInv'
  <2>1. UNCHANGED <<mixer, mailbox, members, evicted>>
    BY <1>9 DEF FinishRemove, Bounce, mixVars, eventVars
  <2>2. MixersInv'
    BY <2>1 DEF MixersInv, OneRequestEach
  <2>3. RepliesInv'
    BY <1>9, <1>t, <2>1 DEF FinishRemove, RestoreIfFound, BackToLocal, KeepMode, Ask, Goto, Outcome, RepliesInv, Ending, mixVars, facadeVars, statVars, recvVars, actorVars, eventVars
  <2>4. ModesInv'
    BY <1>9, <1>t, <2>1 DEF FinishRemove, RestoreIfFound, BackToLocal, KeepMode, Ask, Goto, Outcome, ModesInv, RepliesInv, Ending, mixVars, facadeVars, statVars, recvVars, actorVars, eventVars
  <2>5. QueuedInv'
    BY <1>9, <1>t, <2>1 DEF FinishRemove, RestoreIfFound, BackToLocal, KeepMode, Ask, Goto, Outcome, QueuedInv, RepliesInv, ModesInv, Ending, mixVars, facadeVars, statVars, recvVars, actorVars, eventVars
  <2>6. PlaceInv'
    BY <1>9, <1>t, <2>1 DEF FinishRemove, RestoreIfFound, BackToLocal, KeepMode, Ask, Goto, Outcome, PlaceInv, Placed, RepliesInv, ModesInv, MixersInv, Ending, Absent, Inside, Gone, mixVars, facadeVars, statVars, recvVars, actorVars, eventVars
  <2> QED
    BY <2>2, <2>3, <2>4, <2>5, <2>6
<1>10. ASSUME FinishReclaim(c) PROVE CustodyInv'
  <2>1. UNCHANGED <<mixer, mailbox, members, evicted>>
    BY <1>10 DEF FinishReclaim, Bounce, mixVars, eventVars
  <2>2. MixersInv'
    BY <2>1 DEF MixersInv, OneRequestEach
  <2>3. RepliesInv'
    BY <1>10, <1>t, <2>1 DEF FinishReclaim, RestoreIfFound, BackToLocal, KeepMode, Goto, Outcome, RepliesInv, Ending, mixVars, facadeVars, statVars, recvVars, actorVars, eventVars
  <2>4. ModesInv'
    BY <1>10, <1>t, <2>1 DEF FinishReclaim, RestoreIfFound, BackToLocal, KeepMode, Goto, Outcome, ModesInv, RepliesInv, Ending, mixVars, facadeVars, statVars, recvVars, actorVars, eventVars
  <2>5. QueuedInv'
    BY <1>10, <1>t, <2>1 DEF FinishReclaim, RestoreIfFound, BackToLocal, KeepMode, Goto, Outcome, QueuedInv, RepliesInv, ModesInv, Ending, mixVars, facadeVars, statVars, recvVars, actorVars, eventVars
  <2>6. PlaceInv'
    <3>1. mode[c] \in {"placeholder", "mixed"} /\ reply[c] # "member"
      BY <1>10, <1>t DEF FinishReclaim, PlaceInv, Placed, ModesInv, Mode, Ending
    <3> QED
      BY <1>10, <1>t, <2>1, <3>1
         DEF FinishReclaim, RestoreIfFound, KeepMode, Goto, PlaceInv, Placed, Ending, Absent, Inside, Gone
  <2> QED
    BY <2>2, <2>3, <2>4, <2>5, <2>6
<1>11. ASSUME ReclaimTimesOut(c) PROVE CustodyInv'
  <2>1. UNCHANGED <<mixer, mailbox, members, evicted>>
    BY <1>11 DEF ReclaimTimesOut, Bounce, mixVars, eventVars
  <2>2. MixersInv'
    BY <2>1 DEF MixersInv, OneRequestEach
  <2>3. RepliesInv'
    BY <1>11, <1>t, <2>1 DEF ReclaimTimesOut, Goto, RepliesInv, Ending, mixVars, facadeVars, statVars, recvVars, actorVars, eventVars
  <2>4. ModesInv'
    BY <1>11, <1>t, <2>1 DEF ReclaimTimesOut, Goto, ModesInv, RepliesInv, Ending, mixVars, facadeVars, statVars, recvVars, actorVars, eventVars
  <2>5. QueuedInv'
    BY <1>11, <1>t, <2>1 DEF ReclaimTimesOut, Goto, QueuedInv, RepliesInv, ModesInv, Ending, mixVars, facadeVars, statVars, recvVars, actorVars, eventVars
  <2>6. PlaceInv'
    BY <1>11, <1>t, <2>1 DEF ReclaimTimesOut, Goto, PlaceInv, Placed, RepliesInv, ModesInv, MixersInv, Ending, Absent, Inside, Gone, mixVars, facadeVars, statVars, recvVars, actorVars, eventVars
  <2> QED
    BY <2>2, <2>3, <2>4, <2>5, <2>6
<1>12. ASSUME Teardown(c) PROVE CustodyInv'
  <2>1. UNCHANGED <<mixer, mailbox, members, evicted>>
    BY <1>12 DEF Teardown, Bounce, mixVars, eventVars
  <2>2. MixersInv'
    BY <2>1 DEF MixersInv, OneRequestEach
  <2>3. RepliesInv'
    BY <1>12, <1>t, <2>1 DEF Teardown, Goto, RepliesInv, Ending, mixVars, facadeVars, statVars, recvVars, actorVars, eventVars
  <2>4. ModesInv'
    BY <1>12, <1>t, <2>1 DEF Teardown, Goto, ModesInv, RepliesInv, Ending, mixVars, facadeVars, statVars, recvVars, actorVars, eventVars
  <2>5. QueuedInv'
    BY <1>12, <1>t, <2>1 DEF Teardown, Goto, QueuedInv, RepliesInv, ModesInv, Ending, mixVars, facadeVars, statVars, recvVars, actorVars, eventVars
  <2>6. PlaceInv'
    BY <1>12, <1>t, <2>1 DEF Teardown, Goto, PlaceInv, Placed, RepliesInv, ModesInv, MixersInv, Ending, Absent, Inside, Gone, mixVars, facadeVars, statVars, recvVars, actorVars, eventVars
  <2> QED
    BY <2>2, <2>3, <2>4, <2>5, <2>6
<1>13. ASSUME PostClose(c) PROVE CustodyInv'
  <2>1. UNCHANGED <<mixer, mailbox, members, evicted>>
    BY <1>13 DEF PostClose, Bounce, mixVars, eventVars
  <2>2. MixersInv'
    BY <2>1 DEF MixersInv, OneRequestEach
  <2>3. RepliesInv'
    BY <1>13, <1>t, <2>1 DEF PostClose, Goto, RepliesInv, Ending, mixVars, facadeVars, statVars, recvVars, actorVars, eventVars
  <2>4. ModesInv'
    BY <1>13, <1>t, <2>1 DEF PostClose, Goto, ModesInv, RepliesInv, Ending, mixVars, facadeVars, statVars, recvVars, actorVars, eventVars
  <2>5. QueuedInv'
    BY <1>13, <1>t, <2>1 DEF PostClose, Goto, QueuedInv, RepliesInv, ModesInv, Ending, mixVars, facadeVars, statVars, recvVars, actorVars, eventVars
  <2>6. PlaceInv'
    BY <1>13, <1>t, <2>1 DEF PostClose, Goto, PlaceInv, Placed, RepliesInv, ModesInv, MixersInv, Ending, Absent, Inside, Gone, mixVars, facadeVars, statVars, recvVars, actorVars, eventVars
  <2> QED
    BY <2>2, <2>3, <2>4, <2>5, <2>6
<1>14. ASSUME SendRequest(c) PROVE CustodyInv'
  <2> DEFINE m == handle[c]
             msg == RequestOf(c)
  <2>1. /\ pc[c] \in Requesting /\ Reaches(c) /\ reply[c] = "unsent"
        /\ pc' = IF pc[c] = "forwarding" THEN [pc EXCEPT ![c] = "loop"] ELSE pc
        /\ reply' = [reply EXCEPT ![c] = IF pc[c] = "forwarding" THEN "idle" ELSE "pending"]
        /\ mailbox' = [mailbox EXCEPT ![m] = Append(@, msg)]
        /\ mixer[m] = "running"
        /\ UNCHANGED <<mixer, members, evicted, mode, handle>>
    BY <1>14, <1>t DEF SendRequest, Deliver, RequestOf, AfterSend, Goto, Requesting, eventVars
  <2>2. m \in MixId /\ mailbox[m] \in Seq(Message)
    BY <2>1, <1>t DEF Reaches, ModesInv, Requesting
  <2>3. /\ msg \in Message /\ msg.ch = c
        /\ msg.op = "Forward" <=> pc[c] = "forwarding"
        /\ msg.op = "Add" <=> pc[c] = "adding"
    BY TypeOK DEF RequestOf, Message, TypeOK
  <2>4. \A n \in MixId : c \notin WaitersIn(mailbox[n])
    BY <2>1 DEF QueuedInv, Requesting, Ending
  <2>5. /\ OneRequestEach(mailbox'[m])
        /\ \A d : d \in AddsIn(mailbox'[m]) <=>
                    d \in AddsIn(mailbox[m]) \/ (pc[c] = "adding" /\ d = c)
        /\ \A d : d \in WaitersIn(mailbox'[m]) <=>
                    d \in WaitersIn(mailbox[m]) \/ (pc[c] # "forwarding" /\ d = c)
    <3>1. mailbox'[m] = Append(mailbox[m], msg)
      BY <1>t, <2>1, <2>2
    <3>2. OneRequestEach(mailbox[m])
      BY <2>2 DEF MixersInv
    <3> QED
      BY <2>2, <2>3, <2>4, <3>1, <3>2, AppendQueue
  <2>6. \A n \in MixId : n # m => mailbox'[n] = mailbox[n]
    BY <1>t, <2>1
  <2> HIDE DEF m, msg
  <2>7. MixersInv'
    BY <2>1, <2>2, <2>5, <2>6 DEF MixersInv
  <2>8. RepliesInv'
    BY <1>t, <2>1 DEF RepliesInv, Requesting, Ending
  <2>9. ModesInv'
    BY <1>t, <2>1 DEF ModesInv, Reaches, Requesting, Ending
  <2>10. QueuedInv'
    BY <1>t, <2>1, <2>2, <2>4, <2>5, <2>6, AddsWait DEF QueuedInv, Requesting, Ending, m
  <2>11. PlaceInv'
    BY <1>t, <2>1 DEF PlaceInv, Placed, ModesInv, Requesting, Ending, Absent, Inside, Gone
  <2> QED
    BY <2>7, <2>8, <2>9, <2>10, <2>11
<1> QED
  BY <1>1, <1>2, <1>3, <1>4, <1>5, <1>6, <1>7, <1>8, <1>9, <1>10, <1>11, <1>12, <1>13,
     <1>14 DEF ActorRuns

-----------------------------------------------------------------------------
(* Where the state of a channel is: the mixers' steps *)

\* A mixer that takes a request takes the only one of its channel.
TakesRequest(m, c, rest) ==
  /\ c \in Channel
  /\ OneRequestEach(rest)
  /\ c \in WaitersIn(mailbox[m])
  /\ \A d : d \in AddsIn(rest) <=> d \in AddsIn(mailbox[m]) /\ d # c
  /\ \A d : d \in WaitersIn(rest) <=> d \in WaitersIn(mailbox[m]) /\ d # c

\* The Add or Remove a mixer handles was the only request of its channel.
LEMMA HandledRequest ==
  ASSUME TypeOK, CustodyInv, NEW m \in MixId, Incoming(m, "Add") \/ Incoming(m, "Remove")
  PROVE  /\ TakesRequest(m, Head(mailbox[m]).ch, Tail(mailbox[m]))
         /\ Incoming(m, "Add") <=> Head(mailbox[m]).ch \in AddsIn(mailbox[m])
<1> DEFINE c == Head(mailbox[m]).ch
<1>1. c \in Channel
  BY IncomingType DEF TypeOK
<1>2. mailbox[m] \in Seq(Message) /\ mailbox[m] # <<>> /\ Head(mailbox[m]).op \in {"Add", "Remove"}
  BY DEF Incoming, TypeOK, MixTypeOK
<1>3. OneRequestEach(mailbox[m])
  BY DEF CustodyInv, MixersInv
<1>4. Incoming(m, "Add") <=> Head(mailbox[m]).op = "Add"
  BY DEF Incoming
<1> QED
  BY <1>1, <1>2, <1>3, <1>4, TailQueue DEF TakesRequest

\* Handling a Forward disturbs no request.
LEMMA HandledForward ==
  ASSUME TypeOK, CustodyInv, NEW m \in MixId, Incoming(m, "Forward"),
         NEW rest, rest = Tail(mailbox[m])
  PROVE  /\ OneRequestEach(rest)
         /\ \A d : d \in AddsIn(rest) <=> d \in AddsIn(mailbox[m])
         /\ \A d : d \in WaitersIn(rest) <=> d \in WaitersIn(mailbox[m])
<1>1. mailbox[m] \in Seq(Message) /\ mailbox[m] # <<>> /\ Head(mailbox[m]).op = "Forward"
  BY DEF Incoming, TypeOK, MixTypeOK
<1>2. OneRequestEach(mailbox[m])
  BY DEF CustodyInv, MixersInv
<1> QED
  BY <1>1, <1>2, TailQueue

\* Only an actor that awaits the answer can be handed its channel's state.
LEMMA RemovedMember ==
  ASSUME TypeOK, CustodyInv, NEW m \in MixId, NEW c \in Channel,
         c \in WaitersIn(mailbox[m]), c \notin AddsIn(mailbox[m])
  PROVE  /\ reply[c] = "pending" =>
              /\ handle[c] = m /\ mode[c] = "mixed"
              /\ pc[c] \in {"leaving", "removing", "reclaiming"}
         /\ reply[c] # "pending" => pc[c] \in Ending
         /\ c \in members[m] =>
              /\ reply[c] = "pending" /\ c \notin evicted
              /\ pc[c] \in {"leaving", "removing"}
         /\ reply[c] = "pending" /\ c \notin members[m] => c \in evicted
         /\ \A n \in MixId : c \in members[n] => n = m
<1> USE DEF CustodyInv
<1>t. pc[c] \in PC /\ mode[c] \in Mode /\ reply[c] \in Reply
  BY DEF TypeOK, MixTypeOK
<1>1. CASE reply[c] = "pending"
  <2>1. m = handle[c] /\ pc[c] # "adding"
    BY <1>1 DEF QueuedInv, RepliesInv, Ending
  <2>2. pc[c] \in {"leaving", "removing", "reclaiming"}
    BY <1>1, <1>t, <2>1 DEF RepliesInv, PC, Requesting, Ending
  <2>3. mode[c] = "mixed"
    BY <1>1, <1>t, <2>2 DEF ModesInv, Mode, Ending
  <2> QED
    BY <1>1, <2>1, <2>2, <2>3 DEF PlaceInv, Placed, Gone, Absent, Inside, Ending
<1>2. CASE reply[c] # "pending"
  <2>1. pc[c] \in Ending /\ mode[c] # "local"
    BY <1>2 DEF QueuedInv
  <2>2. Absent(c)
    BY <1>t, <2>1 DEF PlaceInv, Placed, Gone, Mode, Ending
  <2> QED
    BY <1>2, <2>1, <2>2 DEF Absent
<1> QED
  BY <1>1, <1>2

\* The mixers keep track of the states handed to them and back.
LEMMA CustodyMixer ==
  ASSUME TypeOK, CustodyInv, NEW m \in MixId,
         MixerAdd(m) \/ MixerForward(m) \/ MixerRemove(m)
  PROVE  CustodyInv'
<1> USE DEF CustodyInv
<1>t. /\ pc \in [Channel -> PC] /\ mode \in [Channel -> Mode]
      /\ reply \in [Channel -> Reply] /\ handle \in [Channel -> MixId \cup {NoMix}]
      /\ mailbox \in [MixId -> Seq(Message)] /\ members \in [MixId -> SUBSET Channel]
      /\ MixTypeOK
  BY DEF TypeOK, MixTypeOK
<1>1. ASSUME MixerAdd(m) PROVE CustodyInv'
  <2> DEFINE c == Head(mailbox[m]).ch
  <2>1. /\ Incoming(m, "Add")
        /\ mailbox' = [mailbox EXCEPT ![m] = Tail(@)]
        /\ members' = [members EXCEPT ![m] = @ \cup {c}]
        /\ UNCHANGED <<mixer, pc, mode, handle, evicted>>
    BY <1>1 DEF MixerAdd, HandleAdd, actorVars, eventVars
  <2>2. /\ c \in Channel
        /\ OneRequestEach(mailbox'[m])
        /\ c \in WaitersIn(mailbox[m]) /\ c \in AddsIn(mailbox[m])
        /\ \A d : d \in AddsIn(mailbox'[m]) <=> d \in AddsIn(mailbox[m]) /\ d # c
        /\ \A d : d \in WaitersIn(mailbox'[m]) <=> d \in WaitersIn(mailbox[m]) /\ d # c
        /\ \A n \in MixId : n # m => mailbox'[n] = mailbox[n]
    <3>1. mailbox'[m] = Tail(mailbox[m]) /\ \A n \in MixId : n # m => mailbox'[n] = mailbox[n]
      BY <1>t, <2>1
    <3> QED
      BY <2>1, <3>1, HandledRequest DEF TakesRequest
  <2>3. reply[c] = "pending" /\ pc[c] = "adding" /\ handle[c] = m
    BY <2>2 DEF QueuedInv
  <2>4. reply' = [reply EXCEPT ![c] = "ok"]
    BY <1>1, <2>3 DEF MixerAdd, HandleAdd, Answer
  <2>5. c \notin evicted /\ Absent(c)
    <3>1. mode[c] = "placeholder"
      BY <1>t, <2>2, <2>3 DEF ModesInv, Mode, Ending
    <3> QED
      BY <2>2, <2>3, <3>1 DEF PlaceInv, Placed
  <2>6. mixer[m] = "running"
    BY <2>1 DEF Incoming
  <2> HIDE DEF c
  <2>7. MixersInv'
    BY <1>t, <2>1, <2>2, <2>6 DEF MixersInv
  <2>8. RepliesInv'
    BY <1>t, <2>1, <2>3, <2>4 DEF RepliesInv, Ending
  <2>9. ModesInv'
    BY <1>t, <2>1, <2>3, <2>4 DEF ModesInv
  <2>10. QueuedInv'
    BY <1>t, <2>1, <2>2, <2>3, <2>4, AddsWait DEF QueuedInv, Ending
  <2>11. PlaceInv'
    BY <1>t, <2>1, <2>2, <2>3, <2>4, <2>5 DEF PlaceInv, Placed, ModesInv, Ending, Absent, Inside, Gone
  <2> QED
    BY <2>7, <2>8, <2>9, <2>10, <2>11
<1>2. ASSUME MixerForward(m) PROVE CustodyInv'
  <2> DEFINE c == Head(mailbox[m]).ch
  <2>1. /\ Incoming(m, "Forward")
        /\ mailbox' = [mailbox EXCEPT ![m] = Tail(@)]
        /\ UNCHANGED <<mixer, members, reply, pc, mode, handle, evicted>>
    BY <1>2 DEF MixerForward, HandleForward, actorVars
  <2>2. /\ OneRequestEach(mailbox'[m])
        /\ \A d : d \in AddsIn(mailbox'[m]) <=> d \in AddsIn(mailbox[m])
        /\ \A d : d \in WaitersIn(mailbox'[m]) <=> d \in WaitersIn(mailbox[m])
        /\ \A n \in MixId : n # m => mailbox'[n] = mailbox[n]
    <3>1. mailbox'[m] = Tail(mailbox[m]) /\ \A n \in MixId : n # m => mailbox'[n] = mailbox[n]
      BY <1>t, <2>1
    <3> QED
      BY <2>1, <3>1, HandledForward
  <2>3. mixer[m] = "running"
    BY <2>1 DEF Incoming
  <2>7. MixersInv'
    BY <2>1, <2>2, <2>3 DEF MixersInv
  <2>8. RepliesInv' /\ ModesInv' /\ PlaceInv'
    BY <2>1 DEF RepliesInv, ModesInv, PlaceInv, Placed, Absent, Inside, Gone
  <2>9. QueuedInv'
    BY <1>t, <2>1, <2>2 DEF QueuedInv, ModesInv
  <2> QED
    BY <2>7, <2>8, <2>9
<1>3. ASSUME MixerRemove(m) PROVE CustodyInv'
  <2>0. PICK c \in Channel : c = Head(mailbox[m]).ch
    BY <1>3, IncomingType DEF MixerRemove, HandleRemove, TypeOK
  <2> DEFINE rest == Tail(mailbox[m])
             r == IF c \in members[m] THEN "member" ELSE "absent"
             answered == Answer(c, r)
  <2>1. /\ Incoming(m, "Remove") /\ mixer[m] = "running"
        /\ UNCHANGED <<pc, mode, handle, evicted>>
    BY <1>3 DEF MixerRemove, HandleRemove, Incoming, actorVars, eventVars
  <2>2. /\ OneRequestEach(rest)
        /\ c \in WaitersIn(mailbox[m]) /\ c \notin AddsIn(mailbox[m])
        /\ \A d : d \in AddsIn(rest) <=> d \in AddsIn(mailbox[m]) /\ d # c
        /\ \A d : d \in WaitersIn(rest) <=> d \in WaitersIn(mailbox[m]) /\ d # c
    <3>1. ~Incoming(m, "Add")
      BY <2>1 DEF Incoming
    <3> QED
      BY <2>0, <2>1, <3>1, HandledRequest DEF TakesRequest
  <2>3. /\ answered \in [Channel -> Reply]
        /\ \A d \in Channel : answered[d] = IF d = c /\ reply[c] = "pending" THEN r ELSE reply[d]
    BY <1>t, <2>2, AnswerType DEF Outcome
  <2>4. /\ reply[c] = "pending" =>
             /\ handle[c] = m /\ mode[c] = "mixed"
             /\ pc[c] \in {"leaving", "removing", "reclaiming"}
        /\ reply[c] # "pending" => pc[c] \in Ending
        /\ c \in members[m] =>
             /\ reply[c] = "pending" /\ c \notin evicted
             /\ pc[c] \in {"leaving", "removing"}
        /\ reply[c] = "pending" /\ c \notin members[m] => c \in evicted
        /\ \A n \in MixId : c \in members[n] => n = m
    BY <2>2, RemovedMember
  <2>5. r \in {"member", "absent"} /\ (r = "member" <=> c \in members[m])
    OBVIOUS
  <2>6. \/ /\ members[m] \ {c} = {}
           /\ StopWith(m, rest, answered)
        \/ /\ members' = [members EXCEPT ![m] = members[m] \ {c}]
           /\ mailbox' = [mailbox EXCEPT ![m] = rest]
           /\ reply' = answered
           /\ UNCHANGED mixer
    BY <1>3, <2>0 DEF MixerRemove, HandleRemove
  <2> HIDE DEF rest, r, answered
  <2>7. CASE members[m] \ {c} = {} /\ StopWith(m, rest, answered)
    <3>1. /\ mixer' = [mixer EXCEPT ![m] = "stopped"]
          /\ mailbox' = [mailbox EXCEPT ![m] = <<>>]
          /\ members' = [members EXCEPT ![m] = {}]
          /\ \A d \in Channel :
               reply'[d] = IF answered[d] = "pending" /\ d \in WaitersIn(rest)
                             THEN "gone" ELSE answered[d]
      BY <2>7 DEF StopWith
    <3>2. \A d \in Channel : reply'[d] =
             IF d = c /\ reply[c] = "pending" THEN r
             ELSE IF reply[d] = "pending" /\ d \in WaitersIn(mailbox[m]) THEN "gone"
             ELSE reply[d]
      BY <2>2, <2>3, <2>5, <3>1
    <3>3. MixersInv'
      BY <1>t, <3>1, EmptyQueue DEF MixersInv, MixTypeOK
    <3>4. RepliesInv'
      BY <2>1, <2>4, <2>5, <3>2 DEF RepliesInv, Ending
    <3>5. ModesInv'
      BY <2>1, <2>4, <2>5, <3>2 DEF ModesInv
    <3>6. QueuedInv'
      <4>1. ASSUME NEW d \in Channel, NEW n \in MixId, d \in WaitersIn(mailbox'[n])
            PROVE  /\ d \in WaitersIn(mailbox[n]) /\ reply'[d] = reply[d]
                   /\ d \in AddsIn(mailbox'[n]) <=> d \in AddsIn(mailbox[n])
        <5>1. CASE n = m
          BY <4>1, <5>1, <1>t, <3>1, EmptyQueue
        <5>2. CASE n # m
          <6>1. mailbox'[n] = mailbox[n]
            BY <1>t, <3>1, <5>2
          <6>2. d \in WaitersIn(mailbox[m]) => reply[d] # "pending"
            BY <4>1, <5>2, <6>1 DEF QueuedInv, RepliesInv, Ending
          <6> QED
            BY <2>2, <3>2, <4>1, <6>1, <6>2
        <5> QED
          BY <5>1, <5>2
      <4>2. ASSUME NEW d \in Channel, pc[d] = "adding", reply'[d] = "pending"
            PROVE  d \in AddsIn(mailbox'[handle[d]])
        <5>1. handle[d] \in MixId /\ d # c /\ reply[d] = "pending"
          BY <2>4, <2>5, <4>2, <3>2 DEF ModesInv, Ending
        <5>2. d \in AddsIn(mailbox[handle[d]])
          BY <4>2, <5>1 DEF QueuedInv
        <5> QED
          BY <1>t, <2>2, <3>1, <3>2, <4>2, <5>1, <5>2, AddsWait
      <4> QED
        BY <2>1, <4>1, <4>2 DEF QueuedInv
    <3>7. \A d \in Channel : d \in members[m] => d = c
      BY <2>7
    <3>8. \A d \in Channel : Absent(d) => Absent(d)'
      BY <1>t, <3>1 DEF Absent
    <3>9. Absent(c)'
      BY <1>t, <2>4, <3>1 DEF Absent
    <3>10. \A d \in Channel : d # c /\ Inside(d) => Inside(d)' /\ handle[d] # m
      BY <1>t, <2>1, <3>1, <3>7 DEF Inside
    <3>11. ASSUME NEW d \in Channel, reply'[d] = "gone", reply[d] # "gone"
           PROVE  d # c /\ handle[d] = m /\ reply[d] = "pending"
      BY <2>1, <2>4, <2>5, <3>2, <3>11 DEF QueuedInv, RepliesInv, Ending
    <3>12. ASSUME NEW d \in Channel PROVE Placed(d)'
      <4>1. CASE d = c
        <5>1. CASE reply[c] = "pending"
          BY <2>1, <2>4, <2>5, <3>2, <3>9, <4>1, <5>1 DEF Placed, Ending, Gone
        <5>2. CASE reply[c] # "pending"
          BY <2>1, <2>4, <3>2, <3>9, <4>1, <5>2
             DEF PlaceInv, Placed, ModesInv, RepliesInv, Ending, Gone
        <5> QED
          BY <5>1, <5>2
      <4>2. CASE d # c
        BY <1>t, <2>1, <3>2, <3>8, <3>10, <3>11, <4>2
           DEF PlaceInv, Placed, ModesInv, RepliesInv, Ending, Gone
      <4> QED
        BY <4>1, <4>2
    <3> QED
      BY <3>3, <3>4, <3>5, <3>6, <3>12 DEF PlaceInv
  <2>8. CASE /\ members' = [members EXCEPT ![m] = members[m] \ {c}]
             /\ mailbox' = [mailbox EXCEPT ![m] = rest]
             /\ reply' = answered
             /\ UNCHANGED mixer
    <3>1. /\ mailbox'[m] = rest
          /\ \A n \in MixId : n # m => mailbox'[n] = mailbox[n]
          /\ \A n \in MixId : members'[n] = members[n] \ (IF n = m THEN {c} ELSE {})
          /\ \A d \in Channel : reply'[d] = IF d = c /\ reply[c] = "pending" THEN r ELSE reply[d]
      BY <1>t, <2>3, <2>8
    <3>2. MixersInv'
      BY <2>1, <2>2, <2>8, <3>1 DEF MixersInv
    <3>3. RepliesInv'
      BY <2>1, <2>4, <2>5, <3>1 DEF RepliesInv, Ending
    <3>4. ModesInv'
      BY <2>1, <2>4, <2>5, <3>1 DEF ModesInv
    <3>5. QueuedInv'
      <4>1. ASSUME NEW d \in Channel, NEW n \in MixId, d \in WaitersIn(mailbox'[n])
            PROVE  /\ d \in WaitersIn(mailbox[n]) /\ reply'[d] = reply[d]
                   /\ d \in AddsIn(mailbox'[n]) <=> d \in AddsIn(mailbox[n])
        <5>1. CASE n = m
          BY <4>1, <5>1, <2>2, <3>1
        <5>2. CASE n # m
          <6>1. mailbox'[n] = mailbox[n]
            BY <1>t, <3>1, <5>2
          <6>2. d = c => reply[c] # "pending"
            BY <2>4, <4>1, <5>2, <6>1 DEF QueuedInv, Ending
          <6> QED
            BY <4>1, <6>1, <6>2, <3>1
        <5> QED
          BY <5>1, <5>2
      <4>2. ASSUME NEW d \in Channel, pc[d] = "adding", reply'[d] = "pending"
            PROVE  d \in AddsIn(mailbox'[handle[d]])
        <5>1. handle[d] \in MixId /\ d # c /\ reply[d] = "pending"
          BY <2>4, <2>5, <4>2, <3>1 DEF ModesInv, Ending
        <5>2. d \in AddsIn(mailbox[handle[d]])
          BY <4>2, <5>1 DEF QueuedInv
        <5> QED
          BY <1>t, <2>2, <3>1, <5>1, <5>2
      <4> QED
        BY <2>1, <4>1, <4>2 DEF QueuedInv
    <3>6. \A d \in Channel : Absent(d) => Absent(d)'
      BY <3>1 DEF Absent
    <3>7. Absent(c)'
      BY <2>4, <3>1 DEF Absent
    <3>8. \A d \in Channel : d # c /\ Inside(d) /\ handle[d] \in MixId => Inside(d)'
      BY <2>1, <3>1 DEF Inside
    <3>9. ASSUME NEW d \in Channel PROVE Placed(d)'
      <4>1. CASE d = c
        <5>1. CASE reply[c] = "pending"
          BY <2>1, <2>4, <2>5, <3>1, <3>7, <4>1, <5>1 DEF Placed, Ending, Gone
        <5>2. CASE reply[c] # "pending"
          BY <2>1, <2>4, <3>1, <3>7, <4>1, <5>2
             DEF PlaceInv, Placed, ModesInv, RepliesInv, Ending, Gone
        <5> QED
          BY <5>1, <5>2
      <4>2. CASE d # c
        BY <1>t, <2>1, <3>1, <3>6, <3>8, <4>2
           DEF PlaceInv, Placed, ModesInv, RepliesInv, Ending, Gone, Mode
      <4> QED
        BY <4>1, <4>2
    <3> QED
      BY <3>2, <3>3, <3>4, <3>5, <3>9 DEF PlaceInv
  <2> QED
    BY <2>6, <2>7, <2>8
<1> QED
  BY <1>1, <1>2, <1>3

\* A mixer that nothing refers to has no members.
LEMMA UnheldEmpty ==
  ASSUME TypeOK, CustodyInv, NEW m \in MixId, ~Held(m)
  PROVE  members[m] = {}
<1>1. ASSUME NEW c \in Channel, c \in members[m] PROVE FALSE
  <2>1. pc[c] \in PC /\ mode[c] \in Mode /\ reply[c] \in Reply /\ handle[c] # m
    BY DEF Held, TypeOK, MixTypeOK
  <2>2. ~Absent(c) /\ ~Inside(c)
    BY <1>1, <2>1 DEF Absent, Inside
  <2>3. Placed(c)
    BY DEF CustodyInv, PlaceInv
  <2> QED
    BY <2>1, <2>2, <2>3 DEF Placed, Gone, CustodyInv, ModesInv, RepliesInv, Mode, PC,
                            Requesting, Ending
<1> QED
  BY <1>1 DEF TypeOK, MixTypeOK

\* A mixer that ends for want of handles, or sweeps an idle member, does not
\* disturb where the other channels are.
LEMMA CustodyEnd ==
  ASSUME TypeOK, CustodyInv, NEW m \in MixId,
         MixerUnheld(m) \/ \E c \in Channel : MixerEvict(m, c)
  PROVE  CustodyInv'
<1> USE DEF CustodyInv
<1>t. /\ pc \in [Channel -> PC] /\ mode \in [Channel -> Mode]
      /\ reply \in [Channel -> Reply] /\ handle \in [Channel -> MixId \cup {NoMix}]
      /\ mailbox \in [MixId -> Seq(Message)] /\ members \in [MixId -> SUBSET Channel]
      /\ mixer \in [MixId -> MixerState] /\ evicted \in SUBSET Channel
  BY DEF TypeOK, MixTypeOK
<1>1. ASSUME MixerUnheld(m) PROVE CustodyInv'
  <2>1. /\ mailbox[m] = <<>> /\ mixer[m] = "running"
        /\ mixer' = [mixer EXCEPT ![m] = "stopped"]
        /\ mailbox' = [mailbox EXCEPT ![m] = <<>>]
        /\ members' = [members EXCEPT ![m] = {}]
        /\ reply' = [c \in Channel |-> IF reply[c] = "pending" /\ c \in WaitersIn(<<>>)
                                         THEN "gone" ELSE reply[c]]
        /\ UNCHANGED <<pc, mode, handle, evicted>>
    BY <1>1 DEF MixerUnheld, HandlesDropped, StopWith, actorVars, eventVars
  <2>2. members[m] = {}
    BY <1>1, UnheldEmpty DEF MixerUnheld
  <2>3. reply' = reply
    BY <1>t, <2>1, EmptyQueue
  <2>4. mailbox' = mailbox /\ members' = members
    BY <1>t, <2>1, <2>2
  <2>5. MixersInv'
    BY <1>t, <2>1, <2>2, <2>4, EmptyQueue DEF MixersInv
  <2> QED
    BY <2>1, <2>3, <2>4, <2>5
       DEF RepliesInv, ModesInv, QueuedInv, PlaceInv, Placed, Gone, Inside, Absent
<1>2. ASSUME NEW c \in Channel, MixerEvict(m, c) PROVE CustodyInv'
  <2>1. /\ mixer[m] = "running" /\ c \in members[m]
        /\ members' = [members EXCEPT ![m] = @ \ {c}]
        /\ evicted' = evicted \cup {c}
        /\ UNCHANGED <<mixer, mailbox, reply, pc, mode, handle>>
    BY <1>2 DEF MixerEvict, EvictIdle, actorVars
  <2>2. \A n \in MixId : members'[n] = IF n = m THEN members[n] \ {c} ELSE members[n]
    BY <1>t, <2>1
  <2>3. MixersInv'
    BY <2>1, <2>2 DEF MixersInv
  <2>4. ASSUME NEW d \in Channel PROVE Placed(d)'
    <3>1. CASE d = c
      <4>1. ~Absent(c)
        BY <2>1 DEF Absent
      <4>2. Placed(c)
        BY DEF PlaceInv
      <4>3. Absent(c)' \/ ~Inside(c)
        BY <1>t, <2>1, <2>2 DEF Absent, Inside
      <4> QED
        BY <1>t, <2>1, <3>1, <4>1, <4>2, <4>3 DEF Placed, Gone, ModesInv
    <3>2. CASE d # c
      <4>1. Absent(d) => Absent(d)'
        BY <2>2 DEF Absent
      <4>2. Inside(d) => Inside(d)'
        BY <1>t, <2>1, <2>2, <3>2 DEF Inside
      <4> QED
        BY <2>1, <3>2, <4>1, <4>2 DEF PlaceInv, Placed, Gone
    <3> QED
      BY <3>1, <3>2
  <2>5. RepliesInv' /\ ModesInv' /\ QueuedInv'
    BY <2>1 DEF RepliesInv, ModesInv, QueuedInv
  <2> QED
    BY <2>3, <2>4, <2>5 DEF PlaceInv
<1> QED
  BY <1>1, <1>2

\* What the invariant depends on.
custodyVars == <<mixer, mailbox, members, reply, pc, mode, handle, evicted>>

\* Steps that touch none of these variables move no channel's state.
LEMMA CustodyFrame ==
  ASSUME CustodyInv, UNCHANGED custodyVars
  PROVE  CustodyInv'
BY DEF custodyVars, CustodyInv, MixersInv, RepliesInv, ModesInv, QueuedInv, PlaceInv, Placed,
       Gone, Inside, Absent

\* The facade only fills queues and spawns mixers and actors.
LEMMA CustodyFacade ==
  ASSUME TypeOK, CustodyInv, FacadeStep
  PROVE  CustodyInv'
<1>1. ASSUME NEW c \in Channel, Open(c) PROVE CustodyInv'
  <2>1. /\ pc[c] = "unborn" /\ pc' = [pc EXCEPT ![c] = "loop"]
        /\ UNCHANGED <<mixer, mailbox, members, reply, mode, handle, evicted>>
    BY <1>1 DEF Open, mixVars, eventVars
  <2>2. pc \in [Channel -> PC] /\ mode[c] \in Mode
    BY DEF TypeOK
  <2>3. mode[c] = "local"
    BY <2>1, <2>2 DEF CustodyInv, ModesInv, Mode, Ending
  <2> QED
    BY <2>1, <2>2, <2>3
       DEF CustodyInv, MixersInv, RepliesInv, ModesInv, QueuedInv, PlaceInv, Placed, Gone,
           Inside, Absent, Ending
<1>2. ASSUME NEW a \in Channel, NEW b \in Channel, Mix(a, b) PROVE CustodyInv'
  <2>1. /\ \A m \in MixId : mixer'[m] # "running" => mixer[m] # "running"
        /\ UNCHANGED <<mailbox, members, reply, pc, mode, handle, evicted>>
    BY <1>2 DEF Mix, Spawn, eventVars, TypeOK, MixTypeOK
  <2> QED
    BY <2>1
       DEF CustodyInv, MixersInv, RepliesInv, ModesInv, QueuedInv, PlaceInv, Placed, Gone,
           Inside, Absent
<1>3. ASSUME NEW c \in Channel, Register(c) \/ Close(c) \/ Operate(c) \/ Unmix(c)
      PROVE  CustodyInv'
  BY <1>3, CustodyFrame
     DEF Register, Close, Operate, Unmix, custodyVars, mixVars, actorVars, eventVars
<1>4. ASSUME Shutdown \/ ShutdownReturns PROVE CustodyInv'
  BY <1>4, CustodyFrame
     DEF Shutdown, ShutdownReturns, custodyVars, mixVars, actorVars, eventVars
<1> QED
  BY <1>1, <1>2, <1>3, <1>4 DEF FacadeStep

\* Every step preserves the custody invariant.
LEMMA CustodyStep == TypeOK /\ CustodyInv /\ [Next]_vars => CustodyInv'
<1> SUFFICES ASSUME TypeOK, CustodyInv, [Next]_vars PROVE CustodyInv'
  OBVIOUS
<1>1. CASE FacadeStep
  BY <1>1, CustodyFacade
<1>2. ASSUME NEW c \in Channel, ActorRuns(c) \/ IdleTimeout(c) \/ ReclaimTimesOut(c)
      PROVE  CustodyInv'
  BY <1>2, CustodyActor
<1>3. ASSUME NEW c \in Channel, RecvStops(c) \/ RecvFails(c) PROVE CustodyInv'
  BY <1>3, CustodyFrame DEF RecvStops, RecvFails, custodyVars, mixVars, eventVars
<1>4. ASSUME NEW m \in MixId, MixerRuns(m) \/ \E c \in Channel : MixerEvict(m, c)
      PROVE  CustodyInv'
  BY <1>4, CustodyMixer, CustodyEnd DEF MixerRuns
<1>5. CASE UNCHANGED vars
  BY <1>5, CustodyFrame DEF vars, custodyVars, mixVars, actorVars, eventVars
<1> QED
  BY <1>1, <1>2, <1>3, <1>4, <1>5 DEF Next

\* The place of every channel's state follows from its actor's own state.
THEOREM CustodyInductive == Spec => []CustodyInv
<1>1. Init => CustodyInv
  BY EmptyQueue, ChannelMixAssumption
     DEF Init, MixInit, CustodyInv, MixersInv, RepliesInv, ModesInv, QueuedInv, PlaceInv, Placed,
         Gone, Inside, Absent, Ending
<1> QED
  BY <1>1, TypeCorrect, CustodyStep, PTL DEF Spec

-----------------------------------------------------------------------------
(* What follows for the users of a channel *)

\* The state of a channel is in one place, or its actor is done, or it is lost.
LEMMA OnePlace ==
  ASSUME TypeOK, CustodyInv, NEW c \in Born
  PROVE  IF pc[c] = "done" \/ Lost(c) THEN Places(c) = {} ELSE \E x : Places(c) = {x}
<1> DEFINE In == {m \in MixId : c \in members[m]}
<1>t. /\ c \in Channel /\ pc[c] \in PC \ {"unborn"} /\ mode[c] \in Mode
      /\ reply[c] \in Reply
  BY DEF TypeOK, MixTypeOK, Born
<1>1. Placed(c)
  BY <1>t DEF CustodyInv, PlaceInv
<1>2. Absent(c) => In = {}
  BY DEF Absent
<1>3. Inside(c) /\ handle[c] \in MixId => In = {handle[c]}
  BY DEF Inside
<1>4. InMail(c) <=> pc[c] = "adding" /\ reply[c] = "pending"
  <2>1. ASSUME NEW m \in MixId, c \in AddsIn(mailbox[m])
        PROVE  pc[c] = "adding" /\ reply[c] = "pending"
    BY <1>t, <2>1, AddsWait DEF CustodyInv, QueuedInv
  <2>2. ASSUME pc[c] = "adding", reply[c] = "pending" PROVE InMail(c)
    BY <1>t, <2>2 DEF InMail, CustodyInv, QueuedInv, ModesInv
  <2> QED
    BY <2>1, <2>2 DEF InMail
<1>5. reply[c] = "member" => pc[c] \in {"leaving", "removing"} /\ mode[c] = "mixed"
  BY <1>t, <1>1 DEF Placed, CustodyInv, RepliesInv, ModesInv, PC, Requesting, Mode, Ending
<1>6. Places(c) = In \cup (IF InActor(c) THEN {"actor"} ELSE {})
                   \cup (IF InMail(c) THEN {"mail"} ELSE {})
                   \cup (IF InReply(c) THEN {"reply"} ELSE {})
  BY DEF Places
<1> HIDE DEF In
<1>7. CASE mode[c] = "local"
  <2>1. In = {} /\ ~Lost(c) /\ ~InMail(c) /\ ~InReply(c) /\ (InActor(c) <=> pc[c] # "done")
    BY <1>t, <1>1, <1>2, <1>4, <1>5, <1>7
       DEF Placed, Lost, InReply, InActor, CustodyInv, ModesInv, Ending
  <2> QED
    BY <1>6, <2>1
<1>8. CASE mode[c] = "placeholder" /\ pc[c] # "adding"
  <2>1. In = {} /\ Lost(c) /\ ~InMail(c) /\ ~InReply(c) /\ ~InActor(c)
    BY <1>1, <1>2, <1>4, <1>5, <1>8 DEF Placed, Lost, InReply, InActor
  <2> QED
    BY <1>6, <2>1
<1>9. CASE pc[c] = "adding"
  <2>1. /\ mode[c] = "placeholder" /\ handle[c] \in MixId
        /\ reply[c] \in {"unsent", "pending", "ok", "gone"}
    BY <1>t, <1>9 DEF CustodyInv, ModesInv, RepliesInv, Mode, Ending
  <2>2. CASE reply[c] = "ok"
    <3>1. ~InMail(c) /\ ~InReply(c) /\ ~InActor(c) /\ (Lost(c) <=> c \in evicted)
      BY <1>4, <1>5, <1>9, <2>1, <2>2 DEF Lost, InReply, InActor
    <3>2. IF c \in evicted THEN In = {} ELSE In = {handle[c]}
      BY <1>1, <1>2, <1>3, <1>9, <2>1, <2>2 DEF Placed, Gone
    <3> QED
      BY <1>6, <1>9, <3>1, <3>2
  <2>3. CASE reply[c] # "ok"
    <3>1. /\ In = {} /\ ~InReply(c) /\ (Lost(c) <=> reply[c] = "gone")
          /\ InActor(c) <=> reply[c] = "unsent"
      BY <1>1, <1>2, <1>5, <1>9, <2>1, <2>3 DEF Placed, Lost, InReply, InActor
    <3> QED
      BY <1>4, <1>6, <1>9, <2>1, <2>3, <3>1
  <2> QED
    BY <2>2, <2>3
<1>10. CASE mode[c] = "mixed"
  <2>1. /\ pc[c] # "adding" /\ (Lost(c) <=> c \in evicted) /\ ~InMail(c) /\ ~InActor(c)
        /\ pc[c] # "done" => handle[c] \in MixId
    BY <1>t, <1>4, <1>10 DEF Lost, InActor, CustodyInv, ModesInv, Ending
  <2>2. CASE pc[c] \in {"leaving", "removing"} /\ reply[c] = "member"
    <3>1. In = {} /\ c \notin evicted /\ InReply(c)
      BY <1>1, <1>2, <2>2 DEF Placed, InReply
    <3> QED
      BY <1>6, <2>1, <2>2, <3>1
  <2>3. CASE ~(pc[c] \in {"leaving", "removing"} /\ reply[c] = "member")
    <3>1. ~InReply(c)
      BY <1>5, <2>3 DEF InReply
    <3>2. \/ c \in evicted /\ In = {}
          \/ c \notin evicted /\ pc[c] # "done" /\ In = {handle[c]}
      BY <1>t, <1>1, <1>2, <1>3, <1>10, <2>1, <2>3
         DEF Placed, Gone, CustodyInv, ModesInv, RepliesInv, Ending
    <3> QED
      BY <1>6, <2>1, <3>1, <3>2
  <2> QED
    BY <2>2, <2>3
<1> QED
  BY <1>t, <1>7, <1>8, <1>9, <1>10 DEF Mode

\* Through every hand-over, whatever its timing, a channel's state is in
\* exactly one place until its actor is done with it or it is lost.
THEOREM CustodyHolds == Spec => []Custody
<1>1. TypeOK /\ CustodyInv => Custody
  <2> SUFFICES ASSUME TypeOK, CustodyInv, NEW c \in Born
               PROVE  Cardinality(Places(c)) = IF pc[c] = "done" \/ Lost(c) THEN 0 ELSE 1
    BY DEF Custody
  <2>1. CASE pc[c] = "done" \/ Lost(c)
    BY <2>1, OnePlace, FS_EmptySet
  <2>2. CASE ~(pc[c] = "done" \/ Lost(c))
    <3>1. PICK x : Places(c) = {x}
      BY <2>2, OnePlace
    <3> QED
      BY <2>2, <3>1, FS_Singleton
  <2> QED
    BY <2>1, <2>2
<1> QED
  BY <1>1, TypeCorrect, CustodyInductive, PTL

\* JavaScript is told mix/start, and not yet mix/finished, only while the
\* state is with a mixer or on its way back.
THEOREM MixingHolds == Spec => []MixingIsTrue
<1>1. TypeOK /\ CustodyInv /\ EndingInv => MixingIsTrue
  <2> SUFFICES ASSUME TypeOK, CustodyInv, EndingInv, NEW c \in Channel \ evicted, mixing[c]
               PROVE  InReply(c) \/ \E m \in MixId : c \in members[m]
    BY DEF MixingIsTrue
  <2>1. mode[c] = "mixed" /\ Placed(c) /\ pc[c] \in PC /\ reply[c] \in Reply
    BY DEF EndingInv, CustodyInv, PlaceInv, TypeOK, MixTypeOK
  <2>2. reply[c] = "member" \/ (Inside(c) /\ handle[c] \in MixId)
    BY <2>1 DEF Placed, Gone, CustodyInv, ModesInv, RepliesInv, Ending
  <2> QED
    BY <2>2 DEF InReply, Inside
<1> QED
  BY <1>1, TypeCorrect, CustodyInductive, EndingAlways, PTL

\* A channel whose state was dropped, and not lost, has stopped its recv_loop.
THEOREM SocketsReleased == Spec => []SocketReleased
<1>1. TypeOK /\ CustodyInv /\ EndingInv => SocketReleased
  <2> SUFFICES ASSUME TypeOK, CustodyInv, EndingInv, NEW c \in Born, Places(c) = {}, ~Lost(c)
               PROVE  recv[c] # "running"
    BY DEF SocketReleased
  <2>1. c \in Channel /\ mode[c] \in Mode /\ pc[c] = "done"
    BY OnePlace DEF Born, TypeOK
  <2>2. mode[c] = "local"
    BY <2>1 DEF Lost, CustodyInv, PlaceInv, Placed, Gone, Mode, Ending
  <2> QED
    BY <2>1, <2>2 DEF EndingInv
<1> QED
  BY <1>1, TypeCorrect, CustodyInductive, EndingAlways, PTL

\* A mixer never stops with a channel inside.
THEOREM StopsHandBack == Spec => StopsEmpty
<1>1. TypeOK /\ CustodyInv /\ [Next]_vars =>
        [\A m \in MixId : mixer[m] = "running" /\ mixer'[m] = "stopped"
           => \A c \in members[m] : reply'[c] = "member"]_vars
  <2> SUFFICES ASSUME TypeOK, CustodyInv, Next, NEW m \in MixId,
                      mixer[m] = "running", mixer'[m] = "stopped", NEW c \in members[m]
               PROVE  reply'[c] = "member"
    OBVIOUS
  <2>t. mixer \in [MixId -> MixerState] /\ members \in [MixId -> SUBSET Channel]
    BY DEF TypeOK, MixTypeOK
  <2>1. MixerRemove(m) \/ MixerUnheld(m)
    <3>1. ~FacadeStep
      BY <2>t DEF FacadeStep, Open, Register, Close, Operate, Mix, Spawn, Unmix, Shutdown,
                  ShutdownReturns, mixVars
    <3>2. \A d \in Channel : ~(ActorRuns(d) \/ IdleTimeout(d) \/ ReclaimTimesOut(d))
      BY DEF ActorRuns, IdleTimeout, ReclaimTimesOut, TakeClose, TakeEnterMix, TakeLeaveMix,
             TakeApply, SendRequest, Deliver, SendFails, Bounce, FinishAdd, FinishLeave,
             FinishRemove, FinishReclaim, Teardown, PostClose, mixVars
    <3>3. \A d \in Channel : ~(RecvStops(d) \/ RecvFails(d))
      BY DEF RecvStops, RecvFails, mixVars
    <3>4. PICK n \in MixId : MixerRuns(n) \/ \E d \in Channel : MixerEvict(n, d)
      BY <3>1, <3>2, <3>3 DEF Next
    <3>5. MixerRemove(n) \/ MixerUnheld(n)
      BY <3>4 DEF MixerRuns, MixerAdd, HandleAdd, MixerForward, HandleForward, MixerEvict,
                  EvictIdle
    <3>6. n = m
      BY <2>t, <3>5 DEF MixerRemove, HandleRemove, MixerUnheld, HandlesDropped, StopWith
    <3> QED
      BY <3>5, <3>6
  <2>2. MixerRemove(m)
    BY <2>1, UnheldEmpty DEF MixerUnheld
  <2> DEFINE d == Head(mailbox[m]).ch
             answered == Answer(d, IF d \in members[m] THEN "member" ELSE "absent")
  <2>3. /\ Incoming(m, "Remove") /\ members[m] \ {d} = {}
        /\ StopWith(m, Tail(mailbox[m]), answered)
    BY <2>2 DEF MixerRemove, HandleRemove
  <2>4. c = d /\ c \in Channel
    BY <2>t, <2>3
  <2>5. c \in WaitersIn(mailbox[m]) /\ c \notin AddsIn(mailbox[m])
    <3>1. ~Incoming(m, "Add")
      BY <2>3 DEF Incoming
    <3> QED
      BY <2>3, <2>4, <3>1, HandledRequest DEF TakesRequest
  <2>6. reply[c] = "pending"
    BY <2>4, <2>5, RemovedMember
  <2>7. answered[c] = "member"
    BY <2>4, <2>6, AnswerType DEF Outcome, TypeOK
  <2> QED
    BY <2>3, <2>4, <2>7 DEF StopWith
<1> QED
  BY <1>1, TypeCorrect, CustodyInductive, PTL DEF Spec, StopsEmpty

-----------------------------------------------------------------------------
(* Where the token is, by the state of the channel's own actor *)

\* The actor's state is with the mixer that it refers to, unless it was swept.
Mixes(c) ==
  \/ pc[c] = "adding" /\ reply[c] = "ok"
  \/ mode[c] = "mixed" /\ pc[c] \in {"loop", "forwarding"}
  \/ /\ mode[c] = "mixed"
     /\ pc[c] \in {"leaving", "removing"}
     /\ reply[c] \in {"unsent", "pending"}

Spot(c) ==
  IF pc[c] = "unborn" THEN "nowhere"
  ELSE IF pc[c] = "done" THEN "gone"
  ELSE IF mode[c] = "local" THEN "actor"
  ELSE IF pc[c] = "adding" /\ reply[c] \in {"unsent", "pending"} THEN "leaving"
  ELSE IF c \in evicted THEN "gone"
  ELSE IF reply[c] = "member" THEN "returning"
  ELSE IF Mixes(c) THEN "mixer"
  ELSE "gone"

\* The mapping of the refinement looks into mailboxes and mixers; by CustodyInv
\* it needs none of that.
LEMMA SpotIsRight ==
  ASSUME TypeOK, CustodyInv, EndingInv, NEW c \in Channel
  PROVE  WhereIs(c) = Spot(c)
<1>t. pc[c] \in PC /\ mode[c] \in Mode /\ reply[c] \in Reply
  BY DEF TypeOK, MixTypeOK
<1>i. Placed(c)
  BY DEF CustodyInv, PlaceInv
<1>b. c \in Born <=> pc[c] # "unborn"
  BY DEF Born
<1>1. CASE pc[c] = "unborn"
  <2>1. mode[c] = "local" /\ reply[c] = "idle"
    BY <1>1 DEF EndingInv, CustodyInv, RepliesInv
  <2>2. \A m \in MixId : c \notin members[m]
    BY <1>i, <2>1 DEF Placed, Absent
  <2> QED
    BY <1>1, <1>b, <2>1, <2>2 DEF WhereIs, Spot, InActor, InReply
<1>2. CASE pc[c] # "unborn" /\ mode[c] = "local"
  <2>1. pc[c] \in {"loop"} \cup Ending /\ reply[c] = "idle"
    BY <1>2 DEF CustodyInv, ModesInv, RepliesInv
  <2>2. \A m \in MixId : c \notin members[m]
    BY <1>2, <1>i DEF Placed, Absent
  <2> QED
    BY <1>2, <1>b, <2>1, <2>2 DEF WhereIs, Spot, InActor, InReply, Ending
<1>3. CASE pc[c] = "adding"
  <2>1. mode[c] = "placeholder" /\ reply[c] \in {"unsent", "pending", "ok", "gone"}
    BY <1>3, <1>t DEF CustodyInv, ModesInv, RepliesInv, Mode, Ending
  <2>2. reply[c] = "pending" => InMail(c)
    BY <1>3 DEF CustodyInv, QueuedInv, ModesInv, InMail
  <2>3. InMail(c) => reply[c] = "pending"
    BY <1>3, AddsWait DEF CustodyInv, QueuedInv, InMail, Ending
  <2>4. reply[c] = "ok" => Gone(c) \/ (c \notin evicted /\ Inside(c))
    BY <1>3, <1>i, <2>1 DEF Placed
  <2>5. reply[c] # "ok" => Absent(c) /\ c \notin evicted
    BY <1>3, <1>i, <2>1 DEF Placed
  <2>6. handle[c] \in MixId
    BY <1>3 DEF CustodyInv, ModesInv
  <2> QED
    BY <1>3, <2>1, <2>2, <2>3, <2>4, <2>5, <2>6
       DEF WhereIs, Spot, Mixes, InActor, InReply, Gone, Absent, Inside
<1>4. CASE pc[c] \notin {"unborn", "adding"} /\ mode[c] = "placeholder"
  <2>1. pc[c] \in {"reclaiming"} \cup Ending
    BY <1>4 DEF CustodyInv, ModesInv
  <2>2. reply[c] # "member"
    BY <1>4, <2>1 DEF CustodyInv, ModesInv, RepliesInv, Ending
  <2>3. Absent(c)
    BY <1>4, <1>i DEF Placed
  <2> QED
    BY <1>4, <2>1, <2>2, <2>3 DEF WhereIs, Spot, Mixes, InActor, InReply, Absent, Ending
<1>5. CASE pc[c] \notin {"unborn", "adding"} /\ mode[c] = "mixed"
  <2>1. pc[c] \in {"loop", "forwarding", "leaving", "removing", "reclaiming"} \cup Ending
    BY <1>5 DEF CustodyInv, ModesInv
  <2>2. CASE pc[c] \in {"loop", "forwarding"}
    <3>1. Gone(c) \/ (c \notin evicted /\ Inside(c))
      BY <1>5, <1>i, <2>2 DEF Placed
    <3>2. handle[c] \in MixId /\ reply[c] # "member"
      BY <1>5, <2>2 DEF CustodyInv, ModesInv, RepliesInv
    <3> QED
      BY <1>5, <2>2, <3>1, <3>2
         DEF WhereIs, Spot, Mixes, InActor, InReply, Gone, Absent, Inside
  <2>3. CASE pc[c] \in {"leaving", "removing"} /\ reply[c] \in {"unsent", "pending"}
    <3>1. Gone(c) \/ (c \notin evicted /\ Inside(c))
      BY <1>i, <2>3 DEF Placed
    <3>2. handle[c] \in MixId
      BY <1>5, <2>3 DEF CustodyInv, ModesInv
    <3> QED
      BY <1>5, <2>3, <3>1, <3>2
         DEF WhereIs, Spot, Mixes, InActor, InReply, Gone, Absent, Inside
  <2>4. CASE pc[c] \in {"leaving", "removing"} /\ reply[c] = "member"
    <3>1. c \notin evicted /\ Absent(c)
      BY <1>i, <2>4 DEF Placed
    <3> QED
      BY <1>5, <2>4, <3>1 DEF WhereIs, Spot, InActor, InReply, Absent
  <2>5. CASE pc[c] \in {"leaving", "removing"} /\ reply[c] \notin {"unsent", "pending", "member"}
    <3>1. reply[c] \in {"absent", "gone"}
      BY <2>5 DEF CustodyInv, RepliesInv
    <3>2. Gone(c)
      BY <1>i, <2>5, <3>1 DEF Placed
    <3> QED
      BY <1>5, <2>5, <3>1, <3>2 DEF WhereIs, Spot, Mixes, InActor, InReply, Gone, Absent
  <2>6. CASE pc[c] \in {"reclaiming"} \cup Ending
    <3>1. Gone(c) /\ reply[c] # "member"
      BY <1>5, <1>i, <2>6 DEF Placed
    <3> QED
      BY <1>5, <2>6, <3>1 DEF WhereIs, Spot, Mixes, InActor, InReply, Gone, Absent, Ending
  <2> QED
    BY <2>1, <2>2, <2>3, <2>4, <2>5, <2>6
<1> QED
  BY <1>t, <1>1, <1>2, <1>3, <1>4, <1>5 DEF Mode

-----------------------------------------------------------------------------
(* How often a channel's Close is told *)

\* Once by the mixer that sweeps it, and once by its actor.
ToldInv ==
  \A c \in Channel :
    closes[c] = (IF c \in evicted THEN 1 ELSE 0) + (IF pc[c] = "done" THEN 1 ELSE 0)

\* What a mixer holds is not swept, and nothing else of it is anywhere.
LEMMA HeldSpot ==
  ASSUME TypeOK, CustodyInv, NEW m \in MixId, NEW c \in members[m]
  PROVE  c \in Channel /\ c \notin evicted /\ pc[c] # "done" /\ Spot(c) = "mixer"
<1>t. c \in Channel /\ pc[c] \in PC /\ mode[c] \in Mode /\ reply[c] \in Reply
  BY DEF TypeOK, MixTypeOK
<1>i. Placed(c) /\ ~Absent(c)
  BY <1>t DEF CustodyInv, PlaceInv, Absent
<1>1. mode[c] # "local"
  BY <1>i DEF Placed
<1>2. CASE mode[c] = "placeholder"
  <2>1. pc[c] = "adding" /\ reply[c] = "ok"
    BY <1>i, <1>2 DEF Placed
  <2>2. c \notin evicted
    BY <1>i, <2>1 DEF Placed, Gone
  <2> QED
    BY <1>t, <1>2, <2>1, <2>2 DEF Spot, Mixes
<1>3. CASE mode[c] = "mixed"
  <2>1. pc[c] \in {"loop", "forwarding", "leaving", "removing"}
    BY <1>t, <1>i, <1>3 DEF Placed, Gone, CustodyInv, ModesInv, PC, Requesting, Ending
  <2>2. pc[c] \in {"leaving", "removing"} => reply[c] \in {"unsent", "pending"}
    BY <1>t, <1>i, <1>3 DEF Placed, Gone, CustodyInv, RepliesInv
  <2>3. c \notin evicted
    BY <1>i, <1>3, <2>1, <2>2 DEF Placed, Gone
  <2>4. pc[c] \in {"loop", "forwarding"} => reply[c] # "member"
    BY <1>t DEF CustodyInv, RepliesInv
  <2> QED
    BY <1>t, <1>3, <2>1, <2>2, <2>3, <2>4 DEF Spot, Mixes
<1> QED
  BY <1>t, <1>1, <1>2, <1>3 DEF Mode

\* Only PostClose and the sweep of a mixer post a Close event.
LEMMA ToldStep == TypeOK /\ CustodyInv /\ ToldInv /\ [Next]_vars => ToldInv'
<1> SUFFICES ASSUME TypeOK, CustodyInv, ToldInv, [Next]_vars PROVE ToldInv'
  OBVIOUS
<1> USE DEF facadeVars, statVars, recvVars, actorVars, eventVars
<1>t. /\ pc \in [Channel -> PC] /\ closes \in [Channel -> Nat] /\ evicted \in SUBSET Channel
  BY DEF TypeOK
<1>1. ASSUME UNCHANGED <<closes, evicted>>,
             \A c \in Channel : pc'[c] = "done" <=> pc[c] = "done"
      PROVE  ToldInv'
  BY <1>1 DEF ToldInv
<1>2. CASE FacadeStep
  BY <1>1, <1>2, <1>t DEF FacadeStep, Open, Register, Close, Operate, Mix, Unmix, Shutdown, ShutdownReturns
<1>3. ASSUME NEW c \in Channel, ActorRuns(c), ~PostClose(c) PROVE ToldInv'
  <2>1. CASE TakeClose(c) \/ TakeEnterMix(c) \/ TakeLeaveMix(c) \/ TakeApply(c)
    BY <1>1, <1>t, <2>1 DEF TakeClose, TakeEnterMix, TakeLeaveMix, TakeApply, Take, Ask, Goto
  <2>2. CASE SendRequest(c) \/ SendFails(c)
    BY <1>1, <1>t, <2>2 DEF SendRequest, SendFails, AfterSend, Goto, Requesting
  <2>3. CASE FinishAdd(c)
    BY <1>1, <1>t, <2>3 DEF FinishAdd, Ask, Goto
  <2>4. CASE FinishLeave(c) \/ FinishRemove(c) \/ FinishReclaim(c)
    BY <1>1, <1>t, <2>4
       DEF FinishLeave, FinishRemove, FinishReclaim, Ask, Goto
  <2>5. CASE Teardown(c)
    BY <1>1, <1>t, <2>5 DEF Teardown, Goto
  <2> QED
    BY <1>3, <2>1, <2>2, <2>3, <2>4, <2>5 DEF ActorRuns
<1>4. ASSUME NEW c \in Channel, PostClose(c) PROVE ToldInv'
  BY <1>4, <1>t DEF PostClose, Goto, ToldInv
<1>5. ASSUME NEW c \in Channel, IdleTimeout(c) \/ ReclaimTimesOut(c) \/ RecvStops(c) \/ RecvFails(c)
      PROVE  ToldInv'
  BY <1>1, <1>5, <1>t DEF IdleTimeout, ReclaimTimesOut, RecvStops, RecvFails, Goto
<1>6. ASSUME NEW m \in MixId, MixerRuns(m) PROVE ToldInv'
  BY <1>1, <1>6 DEF MixerRuns, MixerAdd, MixerRemove, MixerForward, MixerUnheld
<1>7. ASSUME NEW m \in MixId, NEW c \in Channel, MixerEvict(m, c) PROVE ToldInv'
  <2>1. c \notin evicted
    BY <1>7, HeldSpot DEF MixerEvict, EvictIdle
  <2> QED
    BY <1>7, <1>t, <2>1 DEF MixerEvict, ToldInv
<1>8. CASE UNCHANGED vars
  BY <1>1, <1>8 DEF vars
<1> QED
  BY <1>2, <1>3, <1>4, <1>5, <1>6, <1>7, <1>8 DEF Next, ActorRuns

\* Close events are counted right in every reachable state.
LEMMA ToldAlways == Spec => []ToldInv
<1>1. Init => ToldInv
  BY DEF Init, ToldInv
<1> QED
  BY <1>1, TypeCorrect, CustodyInductive, ToldStep, PTL DEF Spec

-----------------------------------------------------------------------------
(* A step of one channel's token *)

Untold(c) == closes'[c] = closes[c] /\ (c \in evicted' <=> c \in evicted)

\* A step of ChannelLife, by the actor's own state.
Passes(c) ==
  \/ Untold(c) /\ Spot(c)' = Spot(c)
  \/ Untold(c) /\ <<Spot(c), Spot(c)'>> \in Life!Moves \cup {<<"leaving", "gone">>}
  \/ /\ Spot(c) = "actor" \/ (Spot(c) = "gone" /\ closes[c] = IF c \in evicted THEN 1 ELSE 0)
     /\ Spot(c)' = "gone"
     /\ closes'[c] = closes[c] + 1
     /\ c \in evicted' <=> c \in evicted
  \/ /\ Spot(c) = "mixer"
     /\ Spot(c)' = "gone"
     /\ closes'[c] = closes[c] + 1
     /\ c \in evicted'

\* A channel whose actor, request and history are as they were stays where it is.
LEMMA StaysPut ==
  ASSUME NEW c,
         pc'[c] = pc[c], mode'[c] = mode[c], reply'[c] = reply[c],
         closes'[c] = closes[c], c \in evicted' <=> c \in evicted
  PROVE  Passes(c)
BY DEF Passes, Untold, Spot, Mixes

\* No call of the facade moves a token, except that open_channel makes one.
LEMMA PassesFacade ==
  ASSUME TypeOK, CustodyInv, EndingInv, FacadeStep, NEW d \in Channel
  PROVE  Passes(d)
<1> USE DEF facadeVars, statVars, recvVars, actorVars, eventVars, mixVars
<1>1. ASSUME NEW c \in Channel, Open(c) PROVE Passes(d)
  <2>t. pc \in [Channel -> PC] /\ mode[c] \in Mode
    BY DEF TypeOK
  <2>1. mode[c] = "local" /\ pc[c] = "unborn" /\ pc' = [pc EXCEPT ![c] = "loop"]
    BY <1>1 DEF Open, EndingInv
  <2>2. UNCHANGED <<mode, reply, closes, evicted>>
    BY <1>1 DEF Open
  <2>3. CASE d = c
    BY <2>t, <2>1, <2>2, <2>3 DEF Passes, Untold, Spot, Mixes, Life!Moves
  <2>4. CASE d # c
    BY <2>t, <2>1, <2>2, <2>4, StaysPut
  <2> QED
    BY <2>3, <2>4
<1>2. ASSUME NEW c \in Channel, Register(c) \/ Close(c) \/ Operate(c) \/ Unmix(c)
      PROVE  Passes(d)
  BY <1>2, StaysPut DEF Register, Close, Operate, Unmix
<1>3. ASSUME NEW a \in Channel, NEW b \in Channel, Mix(a, b) PROVE Passes(d)
  BY <1>3, StaysPut DEF Mix
<1>4. CASE Shutdown \/ ShutdownReturns
  BY <1>4, StaysPut DEF Shutdown, ShutdownReturns
<1> QED
  BY <1>1, <1>2, <1>3, <1>4 DEF FacadeStep

\* A step of a channel's actor moves that channel's token only, as ChannelLife allows.
LEMMA PassesActor ==
  ASSUME TypeOK, CustodyInv, EndingInv, ToldInv, NEW c \in Channel, NEW d \in Channel,
         ActorRuns(c) \/ IdleTimeout(c) \/ ReclaimTimesOut(c) \/ RecvStops(c) \/ RecvFails(c)
  PROVE  Passes(d)
<1> USE DEF facadeVars, statVars, recvVars, actorVars, eventVars, mixVars
<1>t. /\ pc \in [Channel -> PC] /\ mode \in [Channel -> Mode] /\ reply \in [Channel -> Reply]
      /\ closes \in [Channel -> Nat] /\ evicted \in SUBSET Channel
      /\ handle \in [Channel -> MixId \cup {NoMix}]
  BY DEF TypeOK, MixTypeOK
<1>i. /\ Placed(c)
      /\ mode[c] = "local" => pc[c] \in {"unborn", "loop"} \cup Ending
      /\ mode[c] = "placeholder" => pc[c] \in {"adding", "reclaiming"} \cup Ending
      /\ mode[c] = "mixed" =>
           pc[c] \in {"loop", "forwarding", "leaving", "removing", "reclaiming"} \cup Ending
      /\ mode[c] = "mixed" /\ pc[c] # "done" => handle[c] \in MixId
      /\ mode[c] = "placeholder" /\ pc[c] = "reclaiming" => reply[c] \in {"unsent", "gone"}
      /\ pc[c] \in {"unborn", "loop"} \cup Ending => reply[c] = "idle"
      /\ pc[c] = "forwarding" => reply[c] = "unsent"
      /\ pc[c] = "adding" => reply[c] \in {"unsent", "pending", "ok", "gone"}
      /\ pc[c] \in {"leaving", "removing", "reclaiming"} =>
           reply[c] \in {"unsent", "pending", "member", "absent", "gone"}
  BY DEF CustodyInv, PlaceInv, ModesInv, RepliesInv
<1>o. ASSUME d # c, ActorRuns(c) \/ IdleTimeout(c) \/ ReclaimTimesOut(c) \/ RecvStops(c) \/ RecvFails(c)
      PROVE  Passes(d)
  <2>1. /\ pc'[d] = pc[d] /\ mode'[d] = mode[d] /\ reply'[d] = reply[d]
        /\ closes'[d] = closes[d] /\ evicted' = evicted
    <3>1. CASE TakeClose(c) \/ TakeEnterMix(c) \/ TakeLeaveMix(c) \/ TakeApply(c)
      BY <1>t, <1>o, <3>1 DEF TakeClose, TakeEnterMix, TakeLeaveMix, TakeApply, Take, Ask, Goto
    <3>2. CASE SendRequest(c) \/ SendFails(c)
      BY <1>t, <1>o, <3>2 DEF SendRequest, SendFails, Deliver, Bounce, AfterSend, Goto
    <3>3. CASE FinishAdd(c) \/ FinishLeave(c) \/ FinishRemove(c) \/ FinishReclaim(c)
      BY <1>t, <1>o, <3>3
         DEF FinishAdd, FinishLeave, FinishRemove, FinishReclaim, RestoreIfFound, BackToLocal,
             KeepMode, Ask, Goto
    <3>4. CASE Teardown(c) \/ PostClose(c)
      BY <1>t, <1>o, <3>4 DEF Teardown, PostClose, Goto
    <3>5. CASE IdleTimeout(c) \/ ReclaimTimesOut(c) \/ RecvStops(c) \/ RecvFails(c)
      BY <1>t, <1>o, <3>5 DEF IdleTimeout, ReclaimTimesOut, RecvStops, RecvFails, Goto
    <3> QED
      BY <1>o, <3>1, <3>2, <3>3, <3>4, <3>5 DEF ActorRuns
  <2> QED
    BY <2>1, StaysPut
<1> SUFFICES ASSUME d = c PROVE Passes(c)
  BY <1>o
<1>1. CASE TakeClose(c)
  BY <1>1, <1>t, <1>i
     DEF TakeClose, Take, Ask, Goto, Passes, Untold, Spot, Mixes, Life!Moves, Placed, Gone, Ending, Mode
<1>2. CASE TakeEnterMix(c)
  BY <1>2, <1>t, <1>i
     DEF TakeEnterMix, Take, Ask, Goto, Passes, Untold, Spot, Mixes, Life!Moves, Placed, Gone, Ending, Mode
<1>3. CASE TakeLeaveMix(c)
  BY <1>3, <1>t, <1>i
     DEF TakeLeaveMix, Take, Ask, Goto, Passes, Untold, Spot, Mixes, Life!Moves, Placed, Gone, Ending, Mode
<1>4. CASE TakeApply(c)
  BY <1>4, <1>t, <1>i
     DEF TakeApply, Take, Ask, Goto, Passes, Untold, Spot, Mixes, Life!Moves, Placed, Gone, Ending, Mode
<1>5. CASE SendRequest(c)
  <2>1. /\ reply[c] = "unsent"
        /\ reply' = [reply EXCEPT ![c] = IF RequestOf(c).op = "Forward" THEN "idle" ELSE "pending"]
        /\ RequestOf(c).op = "Forward" <=> pc[c] = "forwarding"
    BY <1>5 DEF SendRequest, Deliver, RequestOf, Requesting
  <2>2. UNCHANGED <<mode, closes, evicted>>
    BY <1>5 DEF SendRequest
  <2>3. pc'[c] = IF pc[c] = "forwarding" THEN "loop" ELSE pc[c]
    BY <1>5, <1>t DEF SendRequest, AfterSend, Goto
  <2>4. mode[c] = "mixed" \/ pc[c] = "adding"
    BY <1>5 DEF SendRequest, Reaches
  <2> QED
    BY <1>t, <1>i, <2>1, <2>2, <2>3, <2>4
       DEF Passes, Untold, Spot, Mixes, Placed, Gone, Ending, Mode
<1>6. CASE SendFails(c)
  <2>1. /\ reply[c] = "unsent" /\ pc[c] \in Requesting
        /\ reply' = [reply EXCEPT ![c] = IF RequestOf(c).op = "Forward" THEN "idle" ELSE "gone"]
        /\ RequestOf(c).op = "Forward" <=> pc[c] = "forwarding"
    BY <1>6 DEF SendFails, Bounce, RequestOf, Requesting
  <2>2. UNCHANGED <<mode, closes, evicted>>
    BY <1>6 DEF SendFails
  <2>3. pc'[c] = IF pc[c] = "forwarding" THEN "loop" ELSE pc[c]
    BY <1>6, <1>t DEF SendFails, AfterSend, Goto
  <2>4. mode[c] = "mixed" => members[handle[c]] = {}
    BY <1>6, <1>i, <2>1 DEF SendFails, Reaches, CustodyInv, MixersInv, Requesting
  <2>5. mode[c] = "mixed" => c \in evicted
    BY <1>i, <2>1, <2>4 DEF Placed, Gone, Inside, Ending
  <2> QED
    BY <1>t, <1>i, <2>1, <2>2, <2>3, <2>5
       DEF Passes, Untold, Spot, Mixes, Life!Moves, Requesting, Ending, Mode
<1>7. CASE FinishAdd(c)
  BY <1>7, <1>t, <1>i
     DEF FinishAdd, Ask, Goto, Passes, Untold, Spot, Mixes, Life!Moves, Placed, Gone, Ending, Mode
<1>8. CASE FinishLeave(c)
  BY <1>8, <1>t, <1>i
     DEF FinishLeave, RestoreIfFound, BackToLocal, KeepMode, Goto, Outcome, Passes, Untold, Spot,
         Mixes, Life!Moves, Placed, Gone, Ending, Mode
<1>9. CASE FinishRemove(c)
  BY <1>9, <1>t, <1>i
     DEF FinishRemove, RestoreIfFound, BackToLocal, KeepMode, Ask, Goto, Outcome, Passes, Untold,
         Spot, Mixes, Life!Moves, Placed, Gone, Ending, Mode
<1>10. CASE FinishReclaim(c)
  BY <1>10, <1>t, <1>i
     DEF FinishReclaim, RestoreIfFound, BackToLocal, KeepMode, Goto, Outcome, Passes, Untold, Spot,
         Mixes, Life!Moves, Placed, Gone, Ending, Mode
<1>11. CASE Teardown(c)
  BY <1>11, <1>t, <1>i
     DEF Teardown, Goto, Passes, Untold, Spot, Mixes, Placed, Gone, Ending, Mode
<1>12. CASE PostClose(c)
  <2>1. closes[c] = IF c \in evicted THEN 1 ELSE 0
    BY <1>12 DEF PostClose, ToldInv
  <2> QED
    BY <1>12, <1>t, <1>i, <2>1
       DEF PostClose, Goto, Passes, Spot, Mixes, Placed, Gone, Ending, Mode
<1>13. CASE IdleTimeout(c)
  BY <1>13, <1>t DEF IdleTimeout, Goto, Passes, Untold, Spot
<1>14. CASE ReclaimTimesOut(c)
  BY <1>14, <1>t, <1>i
     DEF ReclaimTimesOut, Goto, Passes, Untold, Spot, Mixes, Placed, Gone, Ending, Mode
<1>15. CASE RecvStops(c) \/ RecvFails(c)
  BY <1>15, StaysPut DEF RecvStops, RecvFails
<1> QED
  BY <1>1, <1>2, <1>3, <1>4, <1>5, <1>6, <1>7, <1>8, <1>9, <1>10, <1>11, <1>12, <1>13, <1>14,
     <1>15 DEF ActorRuns

\* So does a step of a mixer.
LEMMA PassesMixer ==
  ASSUME TypeOK, CustodyInv, NEW m \in MixId, NEW d \in Channel,
         MixerRuns(m) \/ \E c \in Channel : MixerEvict(m, c)
  PROVE  Passes(d)
<1> USE DEF facadeVars, statVars, recvVars, actorVars, eventVars
<1>t. /\ pc \in [Channel -> PC] /\ mode \in [Channel -> Mode] /\ reply \in [Channel -> Reply]
      /\ closes \in [Channel -> Nat] /\ evicted \in SUBSET Channel
      /\ members \in [MixId -> SUBSET Channel] /\ MixTypeOK
  BY DEF TypeOK, MixTypeOK
<1>1. ASSUME MixerAdd(m) PROVE Passes(d)
  <2> DEFINE c == Head(mailbox[m]).ch
  <2>1. Incoming(m, "Add") /\ reply' = Answer(c, "ok") /\ UNCHANGED <<pc, mode, closes, evicted>>
    BY <1>1 DEF MixerAdd, HandleAdd
  <2>2. c \in Channel /\ c \in WaitersIn(mailbox[m]) /\ c \in AddsIn(mailbox[m])
    BY <2>1, HandledRequest DEF TakesRequest
  <2>3. reply[c] = "pending" /\ pc[c] = "adding"
    BY <2>2 DEF CustodyInv, QueuedInv
  <2>4. mode[c] = "placeholder"
    BY <1>t, <2>2, <2>3 DEF CustodyInv, ModesInv, Mode, Ending
  <2>5. c \notin evicted
    BY <2>2, <2>3, <2>4 DEF CustodyInv, PlaceInv, Placed
  <2>6. reply' = [reply EXCEPT ![c] = "ok"]
    BY <2>1, <2>3 DEF Answer
  <2> HIDE DEF c
  <2>7. CASE d = c
    BY <1>t, <2>1, <2>2, <2>3, <2>4, <2>5, <2>6, <2>7
       DEF Passes, Untold, Spot, Mixes, Life!Moves
  <2>8. CASE d # c
    BY <1>t, <2>1, <2>6, <2>8, StaysPut
  <2> QED
    BY <2>7, <2>8
<1>2. ASSUME MixerRemove(m) PROVE Passes(d)
  <2> DEFINE c == Head(mailbox[m]).ch
             outcome == IF c \in members[m] THEN "member" ELSE "absent"
             answered == Answer(c, outcome)
  <2>1. /\ Incoming(m, "Remove") /\ UNCHANGED <<pc, mode, closes, evicted>>
        /\ \/ members[m] \ {c} = {} /\ StopWith(m, Tail(mailbox[m]), answered)
           \/ reply' = answered
    BY <1>2 DEF MixerRemove, HandleRemove
  <2>2. /\ c \in Channel /\ c \in WaitersIn(mailbox[m]) /\ c \notin AddsIn(mailbox[m])
        /\ \A e : e \in WaitersIn(Tail(mailbox[m])) => e \in WaitersIn(mailbox[m]) /\ e # c
    <3>1. ~Incoming(m, "Add")
      BY <2>1 DEF Incoming
    <3> QED
      BY <2>1, <3>1, HandledRequest DEF TakesRequest
  <2>3. \A e \in Channel : answered[e] = IF e = c /\ reply[c] = "pending" THEN outcome ELSE reply[e]
    BY <1>t, <2>2, AnswerType DEF Outcome
  <2>4. /\ reply[c] = "pending" => mode[c] = "mixed" /\ pc[c] \in {"leaving", "removing", "reclaiming"}
        /\ c \in members[m] => c \notin evicted /\ pc[c] \in {"leaving", "removing"}
        /\ reply[c] = "pending" /\ c \notin members[m] => c \in evicted
    BY <2>2, RemovedMember
  <2>5. \/ reply'[d] = answered[d]
        \/ /\ members[m] \ {c} = {} /\ reply'[d] = "gone" /\ answered[d] = "pending"
           /\ d \in WaitersIn(Tail(mailbox[m]))
    BY <2>1 DEF StopWith
  <2> HIDE DEF c, answered
  <2>6. CASE d = c
    <3>1. reply'[d] = IF reply[c] = "pending" THEN outcome ELSE reply[c]
      BY <2>2, <2>3, <2>5, <2>6
    <3> QED
      BY <1>t, <2>1, <2>2, <2>4, <2>6, <3>1 DEF Passes, Untold, Spot, Mixes, Life!Moves
  <2>7. CASE d # c /\ reply'[d] = answered[d]
    BY <2>1, <2>3, <2>7, StaysPut
  <2>8. CASE d # c /\ reply'[d] # answered[d]
    <3>1. /\ reply[d] = "pending" /\ reply'[d] = "gone"
          /\ d \in WaitersIn(mailbox[m]) /\ d \notin members[m]
      BY <2>2, <2>3, <2>5, <2>8
    <3>2. CASE d \in AddsIn(mailbox[m])
      <4>1. pc[d] = "adding"
        BY <3>1, <3>2 DEF CustodyInv, QueuedInv
      <4>2. mode[d] # "local"
        BY <4>1 DEF CustodyInv, ModesInv, Ending
      <4> QED
        BY <1>t, <2>1, <3>1, <4>1, <4>2 DEF Passes, Untold, Spot, Mixes
    <3>3. CASE d \notin AddsIn(mailbox[m])
      <4>1. mode[d] = "mixed" /\ pc[d] \in {"leaving", "removing", "reclaiming"} /\ d \in evicted
        BY <3>1, <3>3, RemovedMember
      <4> QED
        BY <1>t, <2>1, <3>1, <4>1 DEF Passes, Untold, Spot, Mixes
    <3> QED
      BY <3>2, <3>3
  <2> QED
    BY <2>6, <2>7, <2>8
<1>3. ASSUME MixerForward(m) PROVE Passes(d)
  BY <1>3, StaysPut DEF MixerForward, HandleForward
<1>4. ASSUME MixerUnheld(m) PROVE Passes(d)
  <2>1. reply'[d] = reply[d]
    BY <1>4, EmptyQueue DEF MixerUnheld, HandlesDropped, StopWith
  <2> QED
    BY <1>4, <2>1, StaysPut DEF MixerUnheld
<1>5. ASSUME NEW c \in Channel, MixerEvict(m, c) PROVE Passes(d)
  <2>1. /\ c \in members[m] /\ evicted' = evicted \cup {c}
        /\ closes' = [closes EXCEPT ![c] = @ + 1]
        /\ UNCHANGED <<pc, mode, reply>>
    BY <1>5 DEF MixerEvict, EvictIdle
  <2>2. c \notin evicted /\ pc[c] # "done" /\ Spot(c) = "mixer"
    BY <2>1, HeldSpot
  <2>3. CASE d = c
    BY <1>t, <2>1, <2>2, <2>3 DEF Passes, Spot, Mixes
  <2>4. CASE d # c
    BY <1>t, <2>1, <2>4, StaysPut
  <2> QED
    BY <2>3, <2>4
<1> QED
  BY <1>1, <1>2, <1>3, <1>4, <1>5 DEF MixerRuns

-----------------------------------------------------------------------------
(* The refinement *)

\* The mapping of the refinement, for all channels.
LEMMA SpotsAreRight ==
  TypeOK /\ CustodyInv /\ EndingInv => \A c \in Channel : WhereIs(c) = Spot(c)
BY SpotIsRight

\* Every step moves every channel's token as ChannelLife allows, or not at all.
LEMMA LifeStep ==
  ASSUME TypeOK, CustodyInv, EndingInv, ToldInv, TypeOK', CustodyInv', EndingInv', [Next]_vars
  PROVE  [Life!Next]_(Life!vars)
<1>1. ASSUME NEW d \in Channel PROVE Passes(d)
  <2>1. CASE FacadeStep
    BY <2>1, PassesFacade
  <2>2. ASSUME NEW c \in Channel,
               ActorRuns(c) \/ IdleTimeout(c) \/ ReclaimTimesOut(c) \/ RecvStops(c) \/ RecvFails(c)
        PROVE  Passes(d)
    BY <2>2, PassesActor
  <2>3. ASSUME NEW m \in MixId, MixerRuns(m) \/ \E c \in Channel : MixerEvict(m, c)
        PROVE  Passes(d)
    BY <2>3, PassesMixer
  <2>4. CASE UNCHANGED vars
    BY <2>4, StaysPut DEF vars, mixVars, actorVars, eventVars
  <2> QED
    BY <2>1, <2>2, <2>3, <2>4 DEF Next
<1>2. ASSUME NEW d \in Channel PROVE WhereIs(d) = Spot(d) /\ WhereIs(d)' = Spot(d)'
  <2>1. (TypeOK /\ CustodyInv /\ EndingInv => \A c \in Channel : WhereIs(c) = Spot(c))'
    BY SpotsAreRight, PTL
  <2> QED
    BY <2>1, SpotsAreRight
<1>3. ASSUME NEW d \in Channel PROVE Life!Step(d)
  <2>1. Passes(d) /\ WhereIs(d) = Spot(d) /\ WhereIs(d)' = Spot(d)'
    BY <1>1, <1>2
  <2> QED
    BY <2>1
       DEF Passes, Untold, Life!Step, Life!HandOver, Life!Finish, Life!Lose, Life!Sweep,
           Life!CloseWithout, Life!Rest, Life!Silent
<1> QED
  BY <1>3 DEF Life!Next

\* ChannelMix implements ChannelLife: actors, mixers and their messages hand a
\* channel's state over, close and lose it only as the abstract module allows.
THEOREM LifeImplemented == Spec => LifeSpec
<1>1. Init => Life!Init
  BY DEF Init, MixInit, WhereIs, InReply, InActor, Born, Life!Init
<1>2. TypeOK /\ CustodyInv /\ EndingInv /\ ToldInv /\ TypeOK' /\ CustodyInv' /\ EndingInv' /\ [Next]_vars
        => [Life!Next]_(Life!vars)
  BY LifeStep
<1> QED
  BY <1>1, <1>2, TypeCorrect, CustodyInductive, EndingAlways, ToldAlways, PTL
     DEF Spec, LifeSpec, Life!Spec

-----------------------------------------------------------------------------
(* What JavaScript is told *)

\* The channel's actor is done, and nothing of it is with a mixer.
LEMMA ClosedIsGone ==
  ASSUME TypeOK, CustodyInv, EndingInv, NEW c \in Channel, c \notin evicted, closes[c] > 0
  PROVE  pc[c] = "done" /\ \A m \in MixId : c \notin members[m]
<1>1. pc[c] = "done" /\ mode[c] \in Mode /\ Placed(c)
  BY DEF EndingInv, CustodyInv, PlaceInv, TypeOK
<1>2. Absent(c)
  BY <1>1 DEF Placed, Gone, Mode, Ending
<1> QED
  BY <1>1, <1>2 DEF Absent

\* Once it has closed, nothing that was still on its way has an effect on a
\* channel or tells JavaScript of it.
THEOREM SilenceKept == Spec => SilentAfterClose
<1> DEFINE Silence(c) == closes'[c] = closes[c] /\ mixing'[c] = mixing[c] /\ applied'[c] = applied[c]
<1>1. ASSUME TypeOK, CustodyInv, EndingInv, [Next]_vars, NEW d \in Channel, d \notin evicted, closes[d] > 0
      PROVE  Silence(d)
  <2> USE DEF facadeVars, statVars, recvVars, actorVars, eventVars
  <2>t. /\ closes \in [Channel -> Nat] /\ mixing \in [Channel -> BOOLEAN] /\ applied \in [Channel -> Nat]
        /\ MixTypeOK
    BY <1>1 DEF TypeOK
  <2>d. pc[d] = "done" /\ \A m \in MixId : d \notin members[m]
    BY <1>1, ClosedIsGone
  <2>1. CASE FacadeStep
    BY <2>1 DEF FacadeStep, Open, Register, Close, Operate, Mix, Unmix, Shutdown, ShutdownReturns
  <2>2. ASSUME NEW c \in Channel, ActorRuns(c) PROVE Silence(d)
    <3>1. CASE TakeClose(c) \/ TakeEnterMix(c) \/ TakeLeaveMix(c) \/ TakeApply(c)
      BY <2>t, <2>d, <3>1 DEF TakeClose, TakeEnterMix, TakeLeaveMix, TakeApply, Take
    <3>2. CASE SendRequest(c) \/ SendFails(c)
      BY <3>2 DEF SendRequest, SendFails
    <3>3. CASE FinishAdd(c) \/ FinishLeave(c) \/ FinishRemove(c) \/ FinishReclaim(c)
      BY <2>t, <2>d, <3>3
         DEF FinishAdd, FinishLeave, FinishRemove, FinishReclaim, RestoreIfFound, BackToLocal, KeepMode
    <3>4. CASE Teardown(c) \/ PostClose(c)
      BY <2>t, <2>d, <3>4 DEF Teardown, PostClose
    <3> QED
      BY <2>2, <3>1, <3>2, <3>3, <3>4 DEF ActorRuns
  <2>3. ASSUME NEW c \in Channel, IdleTimeout(c) \/ ReclaimTimesOut(c) \/ RecvStops(c) \/ RecvFails(c)
        PROVE  Silence(d)
    BY <2>3 DEF IdleTimeout, ReclaimTimesOut, RecvStops, RecvFails
  <2>4. ASSUME NEW m \in MixId, MixerRuns(m) \/ \E c \in Channel : MixerEvict(m, c)
        PROVE  Silence(d)
    BY <2>4, <2>t, <2>d
       DEF MixerRuns, MixerAdd, MixerRemove, MixerForward, MixerUnheld, MixerEvict, EvictIdle
  <2>5. CASE UNCHANGED vars
    BY <2>5 DEF vars
  <2> QED
    BY <1>1, <2>1, <2>2, <2>3, <2>4, <2>5 DEF Next
<1>2. TypeOK /\ CustodyInv /\ EndingInv /\ [Next]_vars =>
        [\A c \in Channel \ evicted :
           closes[c] > 0 => /\ closes'[c] = closes[c]
                            /\ mixing'[c] = mixing[c]
                            /\ applied'[c] = applied[c]]_vars
  BY <1>1
<1> QED
  BY <1>2, TypeCorrect, CustodyInductive, EndingAlways, PTL DEF Spec, SilentAfterClose

-----------------------------------------------------------------------------
(* The counts of stats() *)

\* The channels that have been registered are finitely many, and those that are
\* still in the registry are among them.
CountInv ==
  /\ IsFiniteSet(Born)
  /\ registry \subseteq Born \ {opening}
  /\ StatsBalance

\* A step of a channel that was opened before.
LEMMA CountFrame ==
  ASSUME CountInv, Born' = Born, UNCHANGED <<opening, shutdown, registry, closed>>
  PROVE  CountInv'
BY DEF CountInv, StatsBalance

\* Register and Teardown are the steps that move a channel between the counts.
LEMMA CountStep == TypeOK /\ EndingInv /\ CountInv /\ [Next]_vars => CountInv'
<1> SUFFICES ASSUME TypeOK, EndingInv, CountInv, [Next]_vars PROVE CountInv'
  OBVIOUS
<1> USE ChannelMixAssumption
<1> USE DEF facadeVars, statVars, recvVars, actorVars, eventVars
<1>t. /\ pc \in [Channel -> PC] /\ registry \in SUBSET Channel /\ closed \in Nat
  BY DEF TypeOK
<1>f. ASSUME NEW S, S \subseteq Born PROVE IsFiniteSet(S) /\ Cardinality(S) \in Nat
  BY <1>f, FS_Subset, FS_CardinalityType DEF CountInv
<1>1. ASSUME NEW c \in Channel, Open(c) PROVE CountInv'
  <2>1. c \notin Born /\ Born' = Born \cup {c} /\ opening' = c /\ opening = NoChannel
    BY <1>1, <1>t DEF Open, Born, PC
  <2>2. IsFiniteSet(Born')
    BY <2>1, FS_AddElement DEF CountInv
  <2>3. Born' \ {opening'} = Born \ {opening}
    BY <2>1 DEF Born
  <2> QED
    BY <1>1, <2>1, <2>2, <2>3 DEF Open, CountInv, StatsBalance
<1>2. ASSUME NEW c \in Channel, Register(c) PROVE CountInv'
  <2>1. /\ opening = c /\ opening' = NoChannel /\ registry' = registry \cup {c}
        /\ UNCHANGED <<pc, closed, shutdown>>
    BY <1>2 DEF Register
  <2>2. c \in Born /\ c \notin registry /\ Born' = Born
    BY <2>1 DEF EndingInv, Born
  <2>3. IsFiniteSet(registry) /\ Cardinality(registry') = Cardinality(registry) + 1
    BY <1>f, <2>1, <2>2, FS_AddElement DEF CountInv
  <2>4. Cardinality(Born' \ {opening'}) = Cardinality(Born \ {opening}) + 1
    <3>1. Born' \ {opening'} = (Born \ {c}) \cup {c} /\ c \notin Born \ {c}
      BY <2>1, <2>2 DEF Born
    <3> QED
      BY <1>f, <2>1, <3>1, FS_AddElement
  <2>5. Cardinality(registry) \in Nat /\ Cardinality(Born \ {opening}) \in Nat
    BY <1>f DEF CountInv
  <2> QED
    BY <1>t, <2>1, <2>2, <2>3, <2>4, <2>5 DEF CountInv, StatsBalance, Born
<1>3. ASSUME NEW c \in Channel, Close(c) \/ Operate(c) \/ Unmix(c) PROVE CountInv'
  BY <1>3, CountFrame DEF Close, Operate, Unmix, Born
<1>4. ASSUME NEW a \in Channel, NEW b \in Channel, Mix(a, b) PROVE CountInv'
  BY <1>4, CountFrame DEF Mix, Born
<1>5. CASE Shutdown
  BY <1>5 DEF Shutdown, CountInv, StatsBalance, Born
<1>6. CASE ShutdownReturns
  BY <1>6 DEF ShutdownReturns, CountInv, StatsBalance, Born
<1>7. ASSUME NEW c \in Channel, ActorRuns(c), ~Teardown(c) PROVE CountInv'
  <2>1. CASE TakeClose(c) \/ TakeEnterMix(c) \/ TakeLeaveMix(c) \/ TakeApply(c)
    BY <1>t, <2>1, CountFrame
       DEF TakeClose, TakeEnterMix, TakeLeaveMix, TakeApply, Take, Ask, Goto, Born
  <2>2. CASE SendRequest(c) \/ SendFails(c)
    BY <1>t, <2>2, CountFrame DEF SendRequest, SendFails, AfterSend, Goto, Born
  <2>3. CASE FinishAdd(c) \/ FinishLeave(c) \/ FinishRemove(c) \/ FinishReclaim(c)
    BY <1>t, <2>3, CountFrame
       DEF FinishAdd, FinishLeave, FinishRemove, FinishReclaim, Ask, Goto, Born
  <2>4. CASE PostClose(c)
    BY <1>t, <2>4, CountFrame DEF PostClose, Goto, Born
  <2> QED
    BY <1>7, <2>1, <2>2, <2>3, <2>4 DEF ActorRuns
<1>8. ASSUME NEW c \in Channel, Teardown(c) PROVE CountInv'
  <2>1. /\ registry' = registry \ {c} /\ closed' = IF c \in registry THEN closed + 1 ELSE closed
        /\ UNCHANGED <<opening, shutdown>>
        /\ Born' = Born
    BY <1>8, <1>t DEF Teardown, Unregister, Goto, Born
  <2>2. IsFiniteSet(registry) /\ Cardinality(registry) \in Nat
    BY <1>f DEF CountInv
  <2>3. Cardinality(registry') = IF c \in registry THEN Cardinality(registry) - 1 ELSE Cardinality(registry)
    BY <2>1, <2>2, FS_RemoveElement
  <2> QED
    BY <1>t, <2>1, <2>2, <2>3 DEF CountInv, StatsBalance
<1>9. ASSUME NEW c \in Channel, IdleTimeout(c) \/ ReclaimTimesOut(c) \/ RecvStops(c) \/ RecvFails(c)
      PROVE  CountInv'
  BY <1>9, <1>t, CountFrame DEF IdleTimeout, ReclaimTimesOut, RecvStops, RecvFails, Goto, Born
<1>10. ASSUME NEW m \in MixId, MixerRuns(m) \/ \E c \in Channel : MixerEvict(m, c) PROVE CountInv'
  BY <1>10, CountFrame
     DEF MixerRuns, MixerAdd, MixerRemove, MixerForward, MixerUnheld, MixerEvict, Born
<1>11. CASE UNCHANGED vars
  BY <1>11, CountFrame DEF vars, Born
<1> QED
  BY <1>1, <1>2, <1>3, <1>4, <1>5, <1>6, <1>7, <1>8, <1>9, <1>10, <1>11 DEF Next, FacadeStep, ActorRuns

\* stats() counts every channel once: as one of the registry or as closed.
THEOREM StatsAddUp == Spec => []StatsBalance
<1>1. Init => CountInv
  <2>1. ASSUME Init PROVE CountInv
    <3>1. Born = {} /\ Born \ {opening} = {} /\ registry = {} /\ closed = 0
      BY <2>1 DEF Init, Born
    <3> QED
      BY <3>1, FS_EmptySet DEF CountInv, StatsBalance
  <2> QED
    BY <2>1
<1>2. CountInv => StatsBalance
  BY DEF CountInv
<1> QED
  BY <1>1, <1>2, TypeCorrect, EndingAlways, CountStep, PTL DEF Spec

-----------------------------------------------------------------------------
(* The facade's idea of a channel's group *)

Group == MixId \cup {NoMix}

\* w[i] is what the slot was when the first i commands had been sent: it begins
\* with the actor's group, only mix commands change it, and a channel is never
\* sent from one group into another.
IsPath(w, q, from, to) ==
  /\ w \in [0 .. Len(q) -> Group]
  /\ w[0] = from
  /\ w[Len(q)] = to
  /\ \A i \in 1 .. Len(q) :
       /\ q[i].op \in MixCommands => w[i] = q[i].mix
       /\ q[i].op = "EnterMix" => w[i - 1] \in {NoMix, w[i]}
  /\ \A i, j \in 0 .. Len(q) :
       i < j => w[i] = w[j] \/ \E k \in i + 1 .. j : q[k].op \in MixCommands

Path(q, from, to) == \E w : IsPath(w, q, from, to)

\* An empty queue leads nowhere.
LEMMA PathEmpty ==
  ASSUME NEW g \in Group
  PROVE  Path(<<>>, g, g)
<1>1. IsPath([i \in 0 .. 0 |-> g], <<>>, g, g)
  BY DEF IsPath
<1> QED
  BY <1>1 DEF Path

\* A command is sent.
LEMMA PathAppend ==
  ASSUME NEW q \in Seq(Command), NEW from, NEW to, Path(q, from, to), NEW cmd \in Command,
         NEW next \in Group,
         cmd.op \in MixCommands => next = cmd.mix,
         cmd.op = "EnterMix" => to \in {NoMix, next},
         cmd.op \notin MixCommands => next = to
  PROVE  Path(Append(q, cmd), from, next)
<1>1. PICK w : IsPath(w, q, from, to)
  BY DEF Path
<1> DEFINE n == Len(q)
           r == Append(q, cmd)
           v == [i \in 0 .. n + 1 |-> IF i = n + 1 THEN next ELSE w[i]]
<1>2. n \in Nat /\ Len(r) = n + 1 /\ \A i \in 1 .. n + 1 : r[i] = IF i = n + 1 THEN cmd ELSE q[i]
  OBVIOUS
<1>3. w \in [0 .. n -> Group] /\ w[0] = from /\ w[n] = to
  BY <1>1 DEF IsPath
<1> HIDE DEF n, r
<1>4. v \in [0 .. n + 1 -> Group] /\ v[0] = from /\ v[n + 1] = next /\ \A i \in 0 .. n : v[i] = w[i]
  BY <1>2, <1>3
<1>5. ASSUME NEW i \in 1 .. n + 1
      PROVE  /\ r[i].op \in MixCommands => v[i] = r[i].mix
             /\ r[i].op = "EnterMix" => v[i - 1] \in {NoMix, v[i]}
  <2>1. CASE i = n + 1
    <3>1. r[i] = cmd /\ v[i] = next /\ v[i - 1] = to
      BY <1>2, <1>3, <1>4, <2>1
    <3> QED
      BY <3>1
  <2>2. CASE i # n + 1
    <3>1. i \in 1 .. n /\ i - 1 \in 0 .. n /\ r[i] = q[i] /\ v[i] = w[i] /\ v[i - 1] = w[i - 1]
      BY <1>2, <1>4, <2>2
    <3> QED
      BY <1>1, <3>1 DEF IsPath, n
  <2> QED
    BY <2>1, <2>2
<1>6. ASSUME NEW i \in 0 .. n + 1, NEW j \in 0 .. n + 1, i < j
      PROVE  v[i] = v[j] \/ \E k \in i + 1 .. j : r[k].op \in MixCommands
  <2>0. \A h, k \in 0 .. n : h < k => w[h] = w[k] \/ \E l \in h + 1 .. k : q[l].op \in MixCommands
    BY <1>1 DEF IsPath, n
  <2>1. CASE j # n + 1
    BY <1>2, <1>4, <1>6, <2>0, <2>1
  <2>2. CASE j = n + 1 /\ cmd.op \in MixCommands
    BY <1>2, <1>6, <2>2
  <2>3. CASE j = n + 1 /\ cmd.op \notin MixCommands
    <3>1. v[j] = w[n] /\ i \in 0 .. n /\ v[i] = w[i]
      BY <1>2, <1>3, <1>4, <1>6, <2>3
    <3>2. CASE i = n
      BY <3>1, <3>2
    <3>3. CASE i # n
      <4>1. w[i] = w[n] \/ \E l \in i + 1 .. n : q[l].op \in MixCommands
        BY <1>2, <2>0, <3>1, <3>3
      <4> QED
        BY <1>2, <2>3, <3>1, <4>1
    <3> QED
      BY <3>2, <3>3
  <2> QED
    BY <2>1, <2>2, <2>3
<1>7. IsPath(v, r, from, next)
  <2> HIDE DEF v
  <2> QED
    BY <1>2, <1>4, <1>5, <1>6 DEF IsPath
<1> QED
  BY <1>7 DEF Path, r

\* A command is taken.
LEMMA PathTail ==
  ASSUME NEW q \in Seq(Command), q # <<>>, NEW from, NEW to, Path(q, from, to)
  PROVE  \E next \in Group :
           /\ Path(Tail(q), next, to)
           /\ Head(q).op \in MixCommands => next = Head(q).mix
           /\ Head(q).op = "EnterMix" => from \in {NoMix, next}
           /\ Head(q).op \notin MixCommands => next = from
<1>1. PICK w : IsPath(w, q, from, to)
  BY DEF Path
<1> DEFINE n == Len(q) - 1
           r == Tail(q)
           v == [i \in 0 .. n |-> w[i + 1]]
<1>2. n \in Nat /\ Len(q) = n + 1 /\ Len(r) = n /\ \A i \in 1 .. n : r[i] = q[i + 1]
  OBVIOUS
<1>3. Head(q) = q[1] /\ 1 \in 1 .. n + 1 /\ 0 \in 0 .. n + 1 /\ 1 \in 0 .. n + 1
  BY <1>2
<1> HIDE DEF n, r
<1>4. /\ w \in [0 .. n + 1 -> Group] /\ w[0] = from /\ w[n + 1] = to
      /\ \A i \in 1 .. n + 1 :
           /\ q[i].op \in MixCommands => w[i] = q[i].mix
           /\ q[i].op = "EnterMix" => w[i - 1] \in {NoMix, w[i]}
      /\ \A i, j \in 0 .. n + 1 :
           i < j => w[i] = w[j] \/ \E k \in i + 1 .. j : q[k].op \in MixCommands
  BY <1>1, <1>2 DEF IsPath
<1>5. v \in [0 .. n -> Group] /\ v[0] = w[1] /\ v[n] = to /\ \A i \in 0 .. n : v[i] = w[i + 1]
  BY <1>2, <1>4
<1>6. ASSUME NEW i \in 1 .. n
      PROVE  /\ r[i].op \in MixCommands => v[i] = r[i].mix
             /\ r[i].op = "EnterMix" => v[i - 1] \in {NoMix, v[i]}
  <2>1. i + 1 \in 1 .. n + 1 /\ r[i] = q[i + 1] /\ v[i] = w[i + 1] /\ v[i - 1] = w[(i + 1) - 1]
    BY <1>2, <1>5
  <2> QED
    BY <1>4, <2>1
<1>7. ASSUME NEW i \in 0 .. n, NEW j \in 0 .. n, i < j
      PROVE  v[i] = v[j] \/ \E k \in i + 1 .. j : r[k].op \in MixCommands
  <2>1. w[i + 1] = w[j + 1] \/ \E k \in (i + 1) + 1 .. j + 1 : q[k].op \in MixCommands
    <3>1. i + 1 \in 0 .. n + 1 /\ j + 1 \in 0 .. n + 1 /\ i + 1 < j + 1
      BY <1>2, <1>7
    <3> QED
      BY <1>4, <3>1
  <2>2. ASSUME NEW k \in (i + 1) + 1 .. j + 1, q[k].op \in MixCommands
        PROVE  \E l \in i + 1 .. j : r[l].op \in MixCommands
    <3>1. k - 1 \in i + 1 .. j /\ k - 1 \in 1 .. n /\ r[k - 1] = q[(k - 1) + 1] /\ (k - 1) + 1 = k
      BY <1>2
    <3> QED
      BY <2>2, <3>1
  <2> QED
    BY <1>5, <2>1, <2>2
<1>8. IsPath(v, r, w[1], to)
  <2> HIDE DEF v
  <2> QED
    BY <1>2, <1>5, <1>6, <1>7 DEF IsPath
<1>9. /\ w[1] \in Group
      /\ Head(q).op \in MixCommands => w[1] = Head(q).mix
      /\ Head(q).op = "EnterMix" => from \in {NoMix, w[1]}
  <2>1. w[1 - 1] = from
    BY <1>4
  <2> QED
    BY <1>3, <1>4, <2>1
<1>10. Head(q).op \notin MixCommands => w[1] = from
  <2>1. w[0] = w[1] \/ \E k \in 0 + 1 .. 1 : q[k].op \in MixCommands
    BY <1>3, <1>4
  <2> QED
    BY <1>3, <1>4, <2>1
<1> QED
  BY <1>8, <1>9, <1>10 DEF Path, r

\* Without a mix command in the queue, the slot is the actor's group.
LEMMA PathStraight ==
  ASSUME NEW q \in Seq(Command), NEW from, NEW to, Path(q, from, to),
         \A i \in DOMAIN q : q[i].op \notin MixCommands
  PROVE  from = to
<1>1. PICK w : IsPath(w, q, from, to)
  BY DEF Path
<1>2. CASE Len(q) = 0
  BY <1>1, <1>2 DEF IsPath
<1>3. CASE Len(q) # 0
  <2>1. Len(q) \in Nat /\ 0 \in 0 .. Len(q) /\ Len(q) \in 0 .. Len(q) /\ 0 < Len(q)
    BY <1>3
  <2>2. w[0] = w[Len(q)] \/ \E k \in 0 + 1 .. Len(q) : q[k].op \in MixCommands
    BY <1>1, <2>1 DEF IsPath
  <2> QED
    BY <1>1, <2>1, <2>2 DEF IsPath
<1> QED
  BY <1>2, <1>3

\* Where the actor's group will be when its request has been answered.
Heading(c) == IF pc[c] = "leaving" THEN NoMix ELSE handle[c]

Following(c) ==
  c \notin refused \cup evicted /\ pc[c] \in {"unborn", "loop", "adding", "leaving", "forwarding"}

\* The commands between the actor and the facade lead from the one's group to
\* the other's, and an actor that is local has none.
SlotInv ==
  \A c \in Channel :
    /\ Following(c) => Path(cmds[c], Heading(c), slot[c])
    /\ mode[c] = "local" => handle[c] = NoMix

\* Of a channel that nothing happens to.
LEMMA SlotFrame ==
  ASSUME SlotInv, NEW c \in Channel,
         cmds'[c] = cmds[c], slot'[c] = slot[c], pc'[c] = pc[c], handle'[c] = handle[c],
         mode'[c] = mode[c], refused \subseteq refused', evicted \subseteq evicted'
  PROVE  /\ Following(c)' => Path(cmds'[c], Heading(c)', slot'[c])
         /\ mode'[c] = "local" => handle'[c] = NoMix
BY DEF SlotInv, Following, Heading

\* A command is sent, and the slot kept or set by it.
LEMMA SlotSend ==
  ASSUME TypeOK, SlotInv, NEW c \in Channel, NEW cmd \in Command,
         cmds'[c] = Append(cmds[c], cmd),
         slot'[c] \in Group,
         cmd.op \in MixCommands => slot'[c] = cmd.mix,
         cmd.op = "EnterMix" => slot[c] \in {NoMix, slot'[c]},
         cmd.op \notin MixCommands => slot'[c] = slot[c],
         pc'[c] = pc[c], handle'[c] = handle[c],
         mode'[c] = mode[c], refused \subseteq refused', evicted \subseteq evicted'
  PROVE  /\ Following(c)' => Path(cmds'[c], Heading(c)', slot'[c])
         /\ mode'[c] = "local" => handle'[c] = NoMix
<1>1. cmds[c] \in Seq(Command)
  BY DEF TypeOK
<1>2. ASSUME Following(c)' PROVE Path(cmds'[c], Heading(c)', slot'[c])
  <2>1. Following(c) /\ Heading(c)' = Heading(c)
    BY <1>2 DEF Following, Heading
  <2>2. Path(cmds[c], Heading(c), slot[c])
    BY <2>1 DEF SlotInv
  <2> QED
    BY <1>1, <2>1, <2>2, PathAppend
<1> QED
  BY <1>2 DEF SlotInv

\* The facade sets a slot and sends the command that leads to it in one step.
LEMMA SlotFacade ==
  ASSUME TypeOK, SlotInv, EndingInv, FacadeStep
  PROVE  SlotInv'
<1> USE DEF facadeVars, statVars, recvVars, actorVars, eventVars
<1> USE ChannelMixAssumption
<1>t. /\ cmds \in [Channel -> Seq(Command)] /\ slot \in [Channel -> Group]
      /\ pc \in [Channel -> PC]
  BY DEF TypeOK, Group
<1> DEFINE Fine(d) == /\ Following(d)' => Path(cmds'[d], Heading(d)', slot'[d])
                      /\ mode'[d] = "local" => handle'[d] = NoMix
<1> SUFFICES ASSUME NEW d \in Channel PROVE Fine(d)
  BY DEF SlotInv
<1>1. ASSUME NEW c \in Channel, Open(c) PROVE Fine(d)
  <2>1. /\ pc[c] = "unborn" /\ pc' = [pc EXCEPT ![c] = "loop"]
        /\ UNCHANGED <<cmds, slot, handle, mode, refused, evicted>>
    BY <1>1 DEF Open
  <2>2. CASE d = c
    BY <1>t, <2>1, <2>2 DEF SlotInv, Following, Heading
  <2>3. CASE d # c
    BY <1>t, <2>1, <2>3, SlotFrame
  <2> QED
    BY <2>2, <2>3
<1>2. ASSUME NEW c \in Channel, Register(c) PROVE Fine(d)
  BY <1>2, SlotFrame DEF Register
<1>3. ASSUME NEW c \in Channel, NEW cmd \in Command, cmd.op \notin MixCommands,
             cmds' = TrySend(cmds, c, cmd), UNCHANGED <<slot, pc, handle, mode, refused, evicted>>
      PROVE  Fine(d)
  <2>1. CASE d = c /\ Accepts(c)
    BY <1>t, <1>3, <2>1, SlotSend DEF TrySend
  <2>2. CASE ~(d = c /\ Accepts(c))
    <3>1. cmds'[d] = cmds[d]
      BY <1>t, <1>3, <2>2 DEF TrySend
    <3> QED
      BY <1>3, <3>1, SlotFrame
  <2> QED
    BY <2>1, <2>2
<1>4. ASSUME NEW c \in Channel, Close(c) PROVE Fine(d)
  <2> DEFINE cmd == [op |-> "Close", mix |-> NoMix, seq |-> 0]
  <2>1. cmd \in Command /\ cmd.op \notin MixCommands
    BY DEF Command, MixCommands
  <2>2. cmds' = TrySend(cmds, c, cmd) /\ UNCHANGED <<slot, pc, handle, mode, refused, evicted>>
    BY <1>4 DEF Close
  <2> HIDE DEF cmd
  <2> QED
    BY <1>3, <2>1, <2>2
<1>5. ASSUME NEW c \in Channel, Operate(c) PROVE Fine(d)
  <2> DEFINE cmd == [op |-> "Apply", mix |-> NoMix, seq |-> sent[c] + 1]
  <2>0. sent[c] + 1 \in Nat
    <3>1. sent \in [Channel -> Nat]
      BY DEF TypeOK
    <3> QED
      BY <3>1
  <2>1. cmd \in Command /\ cmd.op \notin MixCommands
    BY <2>0 DEF Command, MixCommands
  <2>2. cmds' = TrySend(cmds, c, cmd) /\ UNCHANGED <<slot, pc, handle, mode, refused, evicted>>
    BY <1>5 DEF Operate
  <2> HIDE DEF cmd
  <2> QED
    BY <1>3, <2>1, <2>2
<1>6. ASSUME NEW c \in Channel, Unmix(c) PROVE Fine(d)
  <2> DEFINE cmd == [op |-> "LeaveMix", mix |-> NoMix, seq |-> 0]
  <2>1. cmd \in Command /\ cmd.op \in MixCommands /\ cmd.op # "EnterMix" /\ cmd.mix = NoMix
    BY DEF Command, MixCommands
  <2>2. /\ cmds' = TrySend(cmds, c, cmd) /\ slot' = [slot EXCEPT ![c] = NoMix]
        /\ refused' = Refuses({c}) /\ UNCHANGED <<pc, handle, mode, evicted>>
    BY <1>6 DEF Unmix
  <2>3. refused \subseteq refused' /\ (pc[c] # "done" /\ ~Accepts(c) => c \in refused')
    BY <2>2 DEF Refuses
  <2> HIDE DEF cmd
  <2>4. CASE d = c /\ Accepts(c)
    <3>1. cmds'[d] = Append(cmds[d], cmd) /\ slot'[d] = NoMix /\ slot'[d] \in Group
      BY <1>t, <2>2, <2>4 DEF TrySend, Group
    <3> QED
      BY <2>1, <2>2, <2>3, <3>1, SlotSend
  <2>5. CASE d = c /\ ~Accepts(c)
    BY <2>2, <2>3, <2>5 DEF Following, SlotInv
  <2>6. CASE d # c
    <3>1. cmds'[d] = cmds[d] /\ slot'[d] = slot[d]
      BY <1>t, <2>2, <2>6 DEF TrySend
    <3> QED
      BY <2>2, <2>3, <3>1, SlotFrame
  <2> QED
    BY <2>4, <2>5, <2>6
<1>7. ASSUME NEW a \in Channel, NEW b \in Channel, Mix(a, b) PROVE Fine(d)
  <2>1. PICK m \in MixId :
          /\ slot[a] \in {NoMix, m} /\ slot[b] \in {NoMix, m}
          /\ slot' = [slot EXCEPT ![a] = m, ![b] = m]
          /\ cmds' = TrySend(TrySend(cmds, a, EnterCommand(m)), b, EnterCommand(m))
    BY <1>7 DEF Mix
  <2>2. /\ a # b /\ refused' = Refuses({a, b}) /\ UNCHANGED <<pc, handle, mode, evicted>>
    BY <1>7 DEF Mix
  <2>3. /\ refused \subseteq refused'
        /\ \A c \in {a, b} : pc[c] # "done" /\ ~Accepts(c) => c \in refused'
    BY <2>2 DEF Refuses
  <2> DEFINE cmd == EnterCommand(m)
  <2>4. cmd \in Command /\ cmd.op = "EnterMix" /\ cmd.op \in MixCommands /\ cmd.mix = m
    BY DEF EnterCommand, Command, MixCommands
  <2>5. \A c \in Channel :
          cmds'[c] = IF c \in {a, b} /\ Accepts(c) THEN Append(cmds[c], cmd) ELSE cmds[c]
    BY <1>t, <2>1, <2>2 DEF TrySend
  <2> HIDE DEF cmd
  <2>6. CASE d \in {a, b} /\ Accepts(d)
    <3>1. cmds'[d] = Append(cmds[d], cmd) /\ slot'[d] = m /\ m \in Group /\ slot[d] \in {NoMix, m}
      BY <1>t, <2>1, <2>5, <2>6 DEF Group
    <3> QED
      BY <2>2, <2>3, <2>4, <3>1, SlotSend
  <2>7. CASE d \in {a, b} /\ ~Accepts(d)
    BY <2>2, <2>3, <2>7 DEF Following, SlotInv
  <2>8. CASE d \notin {a, b}
    <3>1. cmds'[d] = cmds[d] /\ slot'[d] = slot[d]
      BY <1>t, <2>1, <2>5, <2>8
    <3> QED
      BY <2>2, <2>3, <3>1, SlotFrame
  <2> QED
    BY <2>6, <2>7, <2>8
<1>8. CASE Shutdown
  <2> DEFINE cmd == [op |-> "Close", mix |-> NoMix, seq |-> 0]
  <2>1. cmd \in Command /\ cmd.op \notin MixCommands /\ cmd.op # "EnterMix"
    BY DEF Command, MixCommands
  <2>2. cmds'[d] \in {Append(cmds[d], cmd), cmds[d]} /\ UNCHANGED <<slot, pc, handle, mode, refused, evicted>>
    BY <1>8 DEF Shutdown
  <2> HIDE DEF cmd
  <2>3. CASE cmds'[d] = cmds[d]
    BY <2>2, <2>3, SlotFrame
  <2>4. CASE cmds'[d] = Append(cmds[d], cmd)
    BY <1>t, <2>1, <2>2, <2>4, SlotSend
  <2> QED
    BY <2>2, <2>3, <2>4
<1>9. CASE ShutdownReturns
  BY <1>9, SlotFrame DEF ShutdownReturns
<1> QED
  BY <1>1, <1>2, <1>4, <1>5, <1>6, <1>7, <1>8, <1>9 DEF FacadeStep

\* The actor at the head of a path takes one step along it.
LEMMA SlotActor ==
  ASSUME TypeOK, CustodyInv, SlotInv, NEW c \in Channel,
         ActorRuns(c) \/ IdleTimeout(c) \/ ReclaimTimesOut(c)
  PROVE  SlotInv'
<1> USE ChannelMixAssumption
<1> USE DEF facadeVars, statVars, recvVars, eventVars
<1>t. /\ cmds \in [Channel -> Seq(Command)] /\ slot \in [Channel -> Group]
      /\ pc \in [Channel -> PC] /\ handle \in [Channel -> Group] /\ mode \in [Channel -> Mode]
      /\ reply \in [Channel -> Reply] /\ MixTypeOK
  BY DEF TypeOK, Group, MixTypeOK
<1>p. Following(c) => Path(cmds[c], Heading(c), slot[c])
  BY DEF SlotInv
<1>n. mode[c] = "local" => handle[c] = NoMix
  BY DEF SlotInv
<1>m. /\ mode[c] = "local" => pc[c] \in {"unborn", "loop"} \cup Ending
      /\ mode[c] = "mixed" /\ pc[c] # "done" => handle[c] \in MixId
  BY DEF CustodyInv, ModesInv
<1> DEFINE Fine(d) == /\ Following(d)' => Path(cmds'[d], Heading(d)', slot'[d])
                      /\ mode'[d] = "local" => handle'[d] = NoMix
<1>a. ASSUME NEW op, Take(c, op), Following(c)
      PROVE  /\ pc[c] = "loop" /\ cmds'[c] = Tail(cmds[c])
             /\ Head(cmds[c]) \in Command /\ Head(cmds[c]).op = op
             /\ \E next \in Group :
                  /\ Path(cmds'[c], next, slot[c])
                  /\ op \in MixCommands => next = Head(cmds[c]).mix
                  /\ op = "EnterMix" => handle[c] \in {NoMix, next}
                  /\ op \notin MixCommands => next = handle[c]
  <2>1. /\ pc[c] = "loop" /\ cmds[c] # <<>> /\ Head(cmds[c]).op = op
        /\ cmds' = [cmds EXCEPT ![c] = Tail(@)]
    BY <1>a DEF Take
  <2>2. cmds[c] \in Seq(Command) /\ cmds'[c] = Tail(cmds[c]) /\ Heading(c) = handle[c]
    BY <1>t, <2>1 DEF Heading
  <2>3. Path(cmds[c], handle[c], slot[c])
    BY <1>a, <1>p, <2>2
  <2>4. Head(cmds[c]) \in Command
    BY <2>1, <2>2
  <2> QED
    BY <2>1, <2>2, <2>3, <2>4, PathTail
<1>1. ASSUME TakeClose(c) PROVE Fine(c)
  <2>1. pc'[c] \in {"closing", "removing"} /\ UNCHANGED <<mode, handle>>
    BY <1>1, <1>t DEF TakeClose, Take, Goto, Ask
  <2> QED
    BY <2>1, <1>n DEF Following
<1>2. ASSUME TakeEnterMix(c) PROVE Fine(c)
  <2>1. Take(c, "EnterMix") /\ UNCHANGED <<slot, refused, evicted>> /\ pc[c] = "loop"
    BY <1>2 DEF TakeEnterMix, Take
  <2>2. ASSUME Following(c)
        PROVE  /\ Path(cmds'[c], Head(cmds[c]).mix, slot[c])
               /\ handle[c] \in {NoMix, Head(cmds[c]).mix}
    BY <2>1, <2>2, <1>a DEF MixCommands
  <2>3. Following(c)' => Following(c)
    BY <2>1 DEF Following
  <2>4. CASE mode[c] = "local"
    <3>1. /\ pc'[c] = "adding" /\ mode'[c] = "placeholder" /\ handle'[c] = Head(cmds[c]).mix
          /\ slot'[c] = slot[c]
      BY <1>2, <1>t, <2>4 DEF TakeEnterMix, Ask, Goto
    <3> QED
      BY <2>2, <2>3, <3>1 DEF Heading
  <2>5. CASE mode[c] # "local"
    <3>1. /\ pc'[c] = "loop" /\ mode'[c] = mode[c] /\ handle'[c] = handle[c] /\ mode[c] = "mixed"
          /\ slot'[c] = slot[c]
      BY <1>2, <2>1, <2>5 DEF TakeEnterMix
    <3>2. handle[c] \in MixId /\ handle[c] # NoMix
      BY <1>m, <2>1, <3>1
    <3> QED
      BY <2>2, <2>3, <2>5, <3>1, <3>2 DEF Heading
  <2> QED
    BY <2>4, <2>5
<1>3. ASSUME TakeLeaveMix(c) PROVE Fine(c)
  <2>1. /\ Take(c, "LeaveMix") /\ pc[c] = "loop"
        /\ UNCHANGED <<slot, refused, evicted, mode, handle>>
    BY <1>3 DEF TakeLeaveMix, Take
  <2>2. ASSUME Following(c)
        PROVE  Path(cmds'[c], NoMix, slot[c])
    <3>1. Head(cmds[c]) \in Command /\ Head(cmds[c]).op = "LeaveMix"
      BY <2>1, <2>2, <1>a
    <3>2. Head(cmds[c]).mix = NoMix
      BY <3>1 DEF Command
    <3> QED
      BY <2>1, <2>2, <3>2, <1>a DEF MixCommands
  <2>3. Following(c)' => Following(c)
    BY <2>1 DEF Following
  <2>4. pc'[c] = "leaving" \/ (mode[c] = "local" /\ pc'[c] = "loop")
    BY <1>3, <1>t, <2>1 DEF TakeLeaveMix, Ask, Goto
  <2>5. Heading(c)' = NoMix
    BY <1>n, <2>1, <2>4 DEF Heading
  <2> QED
    BY <1>n, <2>1, <2>2, <2>3, <2>5
<1>4. ASSUME TakeApply(c) PROVE Fine(c)
  <2>1. /\ Take(c, "Apply") /\ pc[c] = "loop"
        /\ UNCHANGED <<slot, refused, evicted, mode, handle>>
    BY <1>4 DEF TakeApply, Take
  <2>2. ASSUME Following(c)
        PROVE  Path(cmds'[c], handle[c], slot[c])
    BY <2>1, <2>2, <1>a DEF MixCommands
  <2>3. pc'[c] \in {"loop", "forwarding"}
    BY <1>4, <1>t, <2>1 DEF TakeApply, Ask, Goto
  <2>4. Heading(c)' = handle[c] /\ (Following(c)' => Following(c))
    BY <2>1, <2>3 DEF Heading, Following
  <2> QED
    BY <1>n, <2>1, <2>2, <2>4
<1>5. ASSUME SendRequest(c) \/ SendFails(c) PROVE Fine(c)
  <2>1. UNCHANGED <<slot, refused, evicted, mode, handle, cmds>> /\ pc[c] \in Requesting /\ AfterSend(c)
    BY <1>5 DEF SendRequest, SendFails
  <2>2. pc'[c] = IF pc[c] = "forwarding" THEN "loop" ELSE pc[c]
    BY <1>t, <2>1 DEF AfterSend, Goto
  <2>3. Heading(c)' = Heading(c) /\ (Following(c)' => Following(c))
    BY <2>1, <2>2 DEF Heading, Following, Requesting
  <2> QED
    BY <1>p, <1>n, <2>1, <2>3
<1>6. ASSUME FinishAdd(c) PROVE Fine(c)
  <2>1. UNCHANGED <<slot, refused, evicted, cmds>> /\ pc[c] = "adding"
    BY <1>6 DEF FinishAdd
  <2>2. \/ pc'[c] = "loop" /\ mode'[c] = "mixed" /\ handle'[c] = handle[c]
        \/ pc'[c] = "reclaiming" /\ handle'[c] = NoMix
    BY <1>6, <1>t DEF FinishAdd, Goto, Ask
  <2>3. CASE pc'[c] = "loop" /\ mode'[c] = "mixed" /\ handle'[c] = handle[c]
    <3>1. Heading(c)' = Heading(c) /\ (Following(c)' => Following(c))
      BY <2>1, <2>3 DEF Heading, Following
    <3> QED
      BY <1>p, <2>1, <2>3, <3>1
  <2>4. CASE pc'[c] = "reclaiming" /\ handle'[c] = NoMix
    BY <2>4 DEF Following
  <2> QED
    BY <2>2, <2>3, <2>4
<1>7. ASSUME FinishLeave(c) PROVE Fine(c)
  <2>1. /\ UNCHANGED <<slot, refused, evicted, cmds>> /\ pc[c] = "leaving" /\ pc'[c] = "loop"
        /\ reply[c] \in Outcome /\ RestoreIfFound(c)
    BY <1>7, <1>t DEF FinishLeave, Goto
  <2>2. CASE reply[c] = "member"
    <3>1. handle'[c] = NoMix
      BY <1>t, <2>1, <2>2 DEF RestoreIfFound, BackToLocal
    <3>2. Heading(c)' = Heading(c) /\ (Following(c)' => Following(c))
      BY <2>1, <3>1 DEF Heading, Following
    <3> QED
      BY <1>p, <2>1, <3>1, <3>2
  <2>3. CASE reply[c] # "member"
    <3>1. reply[c] \in {"absent", "gone"}
      BY <2>1, <2>3 DEF CustodyInv, RepliesInv, Outcome
    <3>2. c \in evicted
      BY <2>1, <3>1 DEF CustodyInv, PlaceInv, Placed, Gone
    <3>3. UNCHANGED <<mode, handle>>
      BY <2>1, <2>3 DEF RestoreIfFound, KeepMode
    <3> QED
      BY <1>n, <2>1, <3>2, <3>3 DEF Following
  <2> QED
    BY <2>2, <2>3
<1>8. ASSUME FinishRemove(c) \/ FinishReclaim(c) PROVE Fine(c)
  <2>1. pc'[c] \in {"closing", "reclaiming"} /\ RestoreIfFound(c)
    BY <1>8, <1>t DEF FinishRemove, FinishReclaim, Goto, Ask
  <2>2. handle'[c] = NoMix \/ UNCHANGED <<mode, handle>>
    BY <1>t, <2>1 DEF RestoreIfFound, BackToLocal, KeepMode
  <2> QED
    BY <1>n, <2>1, <2>2 DEF Following
<1>9. ASSUME Teardown(c) \/ IdleTimeout(c) \/ ReclaimTimesOut(c) PROVE Fine(c)
  <2>1. pc'[c] \in {"posting", "closing"} /\ UNCHANGED <<mode, handle>>
    BY <1>9, <1>t DEF Teardown, IdleTimeout, ReclaimTimesOut, Goto
  <2> QED
    BY <1>n, <2>1 DEF Following
<1>10. ASSUME PostClose(c) PROVE Fine(c)
  <2>1. pc'[c] = "done" /\ handle'[c] = NoMix
    BY <1>10, <1>t DEF PostClose, Goto
  <2> QED
    BY <2>1 DEF Following
<1>11. Fine(c)
  BY <1>1, <1>2, <1>3, <1>4, <1>5, <1>6, <1>7, <1>8, <1>9, <1>10 DEF ActorRuns
<1>12. ASSUME NEW d \in Channel, d # c PROVE Fine(d)
  <2>1. /\ UNCHANGED <<slot, refused, evicted>> /\ cmds'[d] = cmds[d] /\ pc'[d] = pc[d]
        /\ handle'[d] = handle[d] /\ mode'[d] = mode[d]
    <3>1. CASE TakeClose(c) \/ TakeEnterMix(c) \/ TakeLeaveMix(c) \/ TakeApply(c)
      BY <1>t, <1>12, <3>1 DEF TakeClose, TakeEnterMix, TakeLeaveMix, TakeApply, Take, Ask, Goto
    <3>2. CASE SendRequest(c) \/ SendFails(c)
      BY <1>t, <1>12, <3>2 DEF SendRequest, SendFails, AfterSend, Goto
    <3>3. CASE FinishAdd(c) \/ FinishLeave(c) \/ FinishRemove(c) \/ FinishReclaim(c)
      BY <1>t, <1>12, <3>3
         DEF FinishAdd, FinishLeave, FinishRemove, FinishReclaim, RestoreIfFound, BackToLocal, KeepMode,
             Ask, Goto
    <3>4. CASE Teardown(c) \/ PostClose(c)
      BY <1>t, <1>12, <3>4 DEF Teardown, PostClose, Goto
    <3>5. CASE IdleTimeout(c) \/ ReclaimTimesOut(c)
      BY <1>t, <1>12, <3>5 DEF IdleTimeout, ReclaimTimesOut, Goto
    <3> QED
      BY <3>1, <3>2, <3>3, <3>4, <3>5 DEF ActorRuns
  <2> QED
    BY <2>1, SlotFrame
<1> QED
  BY <1>11, <1>12 DEF SlotInv

\* Mixers and recv_loops touch neither end of a path.
LEMMA SlotStep == TypeOK /\ CustodyInv /\ EndingInv /\ SlotInv /\ [Next]_vars => SlotInv'
<1> SUFFICES ASSUME TypeOK, CustodyInv, EndingInv, SlotInv, [Next]_vars PROVE SlotInv'
  OBVIOUS
<1> USE DEF facadeVars, statVars, recvVars, actorVars, eventVars
<1>1. CASE FacadeStep
  BY <1>1, SlotFacade
<1>2. ASSUME NEW c \in Channel, ActorRuns(c) \/ IdleTimeout(c) \/ ReclaimTimesOut(c)
      PROVE  SlotInv'
  BY <1>2, SlotActor
<1>3. ASSUME UNCHANGED <<cmds, slot, pc, handle, mode, refused>>, evicted \subseteq evicted'
      PROVE  SlotInv'
  <2>1. ASSUME NEW d \in Channel
        PROVE  /\ Following(d)' => Path(cmds'[d], Heading(d)', slot'[d])
               /\ mode'[d] = "local" => handle'[d] = NoMix
    BY <1>3, SlotFrame
  <2> QED
    BY <2>1 DEF SlotInv
<1>4. ASSUME NEW c \in Channel, RecvStops(c) \/ RecvFails(c) PROVE SlotInv'
  BY <1>3, <1>4 DEF RecvStops, RecvFails
<1>5. ASSUME NEW m \in MixId, MixerRuns(m) \/ \E c \in Channel : MixerEvict(m, c) PROVE SlotInv'
  BY <1>3, <1>5 DEF MixerRuns, MixerAdd, MixerRemove, MixerForward, MixerUnheld, MixerEvict
<1>6. CASE UNCHANGED vars
  BY <1>3, <1>6 DEF vars
<1> QED
  BY <1>1, <1>2, <1>4, <1>5, <1>6 DEF Next

LEMMA SlotAlways == Spec => []SlotInv
<1>1. Init => SlotInv
  <2>1. ASSUME Init, NEW c \in Channel
        PROVE  cmds[c] = <<>> /\ handle[c] = NoMix /\ slot[c] = NoMix /\ pc[c] = "unborn"
    BY <2>1 DEF Init
  <2>2. ASSUME Init, NEW c \in Channel
        PROVE  Path(cmds[c], Heading(c), slot[c]) /\ handle[c] = NoMix
    <3>1. Path(<<>>, NoMix, NoMix)
      BY PathEmpty DEF Group
    <3> QED
      BY <2>1, <2>2, <3>1 DEF Heading
  <2> QED
    BY <2>2 DEF SlotInv
<1> QED
  BY <1>1, TypeCorrect, CustodyInductive, EndingAlways, SlotStep, PTL DEF Spec

\* The facade is right about the group of a channel that has caught up with
\* its mix commands, unless a full queue refused one of them.
THEOREM SlotsAgree == Spec => []SlotAgreement
<1>1. TypeOK /\ SlotInv => SlotAgreement
  <2>1. ASSUME TypeOK, SlotInv, NEW c \in Born \ refused, pc[c] = "loop", ~Lost(c),
               \A i \in DOMAIN cmds[c] : cmds[c][i].op \notin MixCommands
        PROVE  slot[c] = handle[c]
    <3>1. c \in Channel /\ Following(c) /\ Heading(c) = handle[c]
      BY <2>1 DEF Born, Lost, Following, Heading
    <3>2. cmds[c] \in Seq(Command) /\ Path(cmds[c], handle[c], slot[c])
      BY <2>1, <3>1 DEF SlotInv, TypeOK
    <3> QED
      BY <2>1, <3>2, PathStraight
  <2> QED
    BY <2>1 DEF SlotAgreement
<1> QED
  BY <1>1, TypeCorrect, SlotAlways, PTL

-----------------------------------------------------------------------------
(* Commands on their way *)

LEMMA InNumbers ==
  ASSUME NEW queue, NEW kind, NEW n
  PROVE  n \in Numbers(queue, kind) <=> \E i \in DOMAIN queue : queue[i] \in kind /\ queue[i].seq = n
BY DEF Numbers

\* Nothing to order.
LEMMA NoNumbers ==
  ASSUME NEW queue, NEW kind, Numbers(queue, kind) = {}
  PROVE  Rising(queue, kind) /\ \A i \in DOMAIN queue : queue[i] \notin kind
<1>1. ASSUME NEW i \in DOMAIN queue, queue[i] \in kind
      PROVE  FALSE
  <2>1. queue[i].seq \in Numbers(queue, kind)
    BY <1>1 DEF Numbers
  <2> QED
    BY <2>1
<1> QED
  BY <1>1 DEF Rising

LEMMA EmptyNumbers ==
  ASSUME NEW kind
  PROVE  Numbers(<<>>, kind) = {} /\ Rising(<<>>, kind)
<1>1. DOMAIN <<>> = {}
  OBVIOUS
<1> QED
  BY <1>1 DEF Numbers, Rising

\* Queueing one behind the others.
LEMMA NumbersAppend ==
  ASSUME NEW T, NEW queue \in Seq(T), NEW e \in T, NEW kind
  PROVE  /\ Numbers(Append(queue, e), kind) =
              Numbers(queue, kind) \cup (IF e \in kind THEN {e.seq} ELSE {})
         /\ Rising(queue, kind) /\ (e \in kind => \A n \in Numbers(queue, kind) : n < e.seq)
              => Rising(Append(queue, e), kind)
<1> DEFINE new == Append(queue, e)
           k == Len(queue) + 1
<1>1. /\ k \in Nat /\ DOMAIN queue = 1 .. k - 1 /\ DOMAIN new = 1 .. k
      /\ new[k] = e
      /\ \A i \in 1 .. k - 1 : new[i] = queue[i]
  OBVIOUS
<1>2. \A i \in DOMAIN new : (i \in DOMAIN queue /\ new[i] = queue[i] /\ i < k) \/ (i = k /\ new[i] = e)
  BY <1>1
<1>3. \A i \in DOMAIN queue : i \in DOMAIN new /\ new[i] = queue[i] /\ ~(k < i)
  BY <1>1
<1>4. k \in DOMAIN new /\ new[k] = e /\ ~(k < k)
  BY <1>1
<1> HIDE DEF new, k
<1>5. \A n : n \in Numbers(new, kind) <=> n \in Numbers(queue, kind) \/ (e \in kind /\ n = e.seq)
  BY <1>2, <1>3, <1>4, InNumbers
<1>6. ASSUME Rising(queue, kind), e \in kind => \A n \in Numbers(queue, kind) : n < e.seq
      PROVE  Rising(new, kind)
  <2> SUFFICES ASSUME NEW i \in DOMAIN new, NEW j \in DOMAIN new,
                      new[i] \in kind, new[j] \in kind, i < j
               PROVE  new[i].seq < new[j].seq
    BY DEF Rising
  <2>1. CASE i \in DOMAIN queue /\ j \in DOMAIN queue
    BY <1>3, <1>6, <2>1 DEF Rising
  <2>2. CASE i \in DOMAIN queue /\ j = k
    BY <1>3, <1>4, <1>6, <2>2, InNumbers
  <2>3. CASE i = k
    BY <1>2, <1>3, <1>4, <2>3
  <2> QED
    BY <1>2, <2>1, <2>2, <2>3
<1>7. Numbers(new, kind) = Numbers(queue, kind) \cup (IF e \in kind THEN {e.seq} ELSE {})
  BY <1>5
<1> QED
  BY <1>6, <1>7 DEF new

\* Taking the first one off.
LEMMA NumbersTail ==
  ASSUME NEW T, NEW queue \in Seq(T), queue # <<>>, NEW kind
  PROVE  /\ Numbers(queue, kind) =
              (IF Head(queue) \in kind THEN {Head(queue).seq} ELSE {}) \cup Numbers(Tail(queue), kind)
         /\ Rising(queue, kind) =>
              /\ Rising(Tail(queue), kind)
              /\ Head(queue) \in kind => \A n \in Numbers(Tail(queue), kind) : Head(queue).seq < n
<1> DEFINE rest == Tail(queue)
           e == Head(queue)
<1>1. /\ Len(queue) \in Nat \ {0} /\ DOMAIN queue = 1 .. Len(queue)
      /\ DOMAIN rest = 1 .. Len(queue) - 1
      /\ e = queue[1]
      /\ \A i \in 1 .. Len(queue) - 1 : rest[i] = queue[i + 1]
  OBVIOUS
<1>2. \A i \in DOMAIN rest : i + 1 \in DOMAIN queue /\ 1 < i + 1 /\ rest[i] = queue[i + 1]
  BY <1>1
<1>3. \A i \in DOMAIN queue : i = 1 \/ (i - 1 \in DOMAIN rest /\ rest[i - 1] = queue[i])
  BY <1>1
<1>4. 1 \in DOMAIN queue /\ e = queue[1]
  BY <1>1
<1>5. \A i, j \in DOMAIN rest : i < j => i + 1 < j + 1
  BY <1>1
<1> HIDE DEF rest, e
<1>6. \A n : n \in Numbers(queue, kind) <=> n \in Numbers(rest, kind) \/ (e \in kind /\ n = e.seq)
  BY <1>2, <1>3, <1>4, InNumbers
<1>7. ASSUME Rising(queue, kind)
      PROVE  /\ Rising(rest, kind)
             /\ e \in kind => \A n \in Numbers(rest, kind) : e.seq < n
  <2>1. Rising(rest, kind)
    BY <1>2, <1>5, <1>7 DEF Rising
  <2>2. ASSUME e \in kind, NEW n \in Numbers(rest, kind)
        PROVE  e.seq < n
    <3>1. PICK i \in DOMAIN rest : rest[i] \in kind /\ rest[i].seq = n
      BY InNumbers
    <3> QED
      BY <1>2, <1>4, <1>7, <2>2, <3>1 DEF Rising
  <2> QED
    BY <2>1, <2>2
<1>8. Numbers(queue, kind) = (IF e \in kind THEN {e.seq} ELSE {}) \cup Numbers(rest, kind)
  BY <1>6
<1> QED
  BY <1>7, <1>8 DEF rest, e

\* A request to leave is behind the commands, and stays there.
LEMMA FirstAppend ==
  ASSUME NEW box \in Seq(Message), NEW msg \in Message, NEW c \in Channel, ForwardsFirst(box, c),
         msg \in ForwardsOf(c) => c \notin WaitersIn(box)
  PROVE  ForwardsFirst(Append(box, msg), c)
<1> DEFINE new == Append(box, msg)
           k == Len(box) + 1
<1>1. /\ k \in Nat /\ DOMAIN box = 1 .. k - 1 /\ DOMAIN new = 1 .. k
      /\ new[k] = msg
      /\ \A i \in 1 .. k - 1 : new[i] = box[i]
  OBVIOUS
<1>2. \A i \in DOMAIN new : (i \in DOMAIN box /\ new[i] = box[i] /\ i < k) \/ (i = k /\ new[i] = msg)
  BY <1>1
<1>f. msg \in ForwardsOf(c) => msg.op = "Forward"
  BY DEF ForwardsOf
<1> HIDE DEF new, k
<1> SUFFICES ASSUME NEW i \in DOMAIN new, NEW j \in DOMAIN new,
                    new[i] \in ForwardsOf(c), new[j].op # "Forward", new[j].ch = c
             PROVE  i < j
  BY DEF ForwardsFirst, new
<1>3. CASE i \in DOMAIN box /\ j \in DOMAIN box /\ new[i] = box[i] /\ new[j] = box[j]
  BY <1>3 DEF ForwardsFirst
<1>4. CASE i < k /\ j = k
  BY <1>4
<1>5. CASE i = k /\ new[i] = msg /\ j \in DOMAIN box /\ new[j] = box[j]
  BY <1>5, InWaiters
<1>6. CASE i = k /\ new[i] = msg /\ j = k
  BY <1>6, <1>f
<1> QED
  BY <1>2, <1>3, <1>4, <1>5, <1>6

\* When it is the first, there are none.
LEMMA FirstTail ==
  ASSUME NEW box \in Seq(Message), box # <<>>, NEW c \in Channel, ForwardsFirst(box, c)
  PROVE  /\ ForwardsFirst(Tail(box), c)
         /\ Head(box).op # "Forward" /\ Head(box).ch = c => Numbers(box, ForwardsOf(c)) = {}
<1> DEFINE rest == Tail(box)
<1>1. /\ Len(box) \in Nat \ {0} /\ DOMAIN box = 1 .. Len(box) /\ DOMAIN rest = 1 .. Len(box) - 1
      /\ Head(box) = box[1]
      /\ \A i \in 1 .. Len(box) - 1 : rest[i] = box[i + 1]
  OBVIOUS
<1>2. \A i \in DOMAIN rest : i + 1 \in DOMAIN box /\ rest[i] = box[i + 1]
  BY <1>1
<1>3. \A i, j \in DOMAIN rest : i + 1 < j + 1 => i < j
  BY <1>1
<1>4. 1 \in DOMAIN box /\ Head(box) = box[1] /\ \A i \in DOMAIN box : ~(i < 1)
  BY <1>1
<1> HIDE DEF rest
<1>5. ForwardsFirst(rest, c)
  BY <1>2, <1>3 DEF ForwardsFirst
<1>6. ASSUME Head(box).op # "Forward", Head(box).ch = c
      PROVE  Numbers(box, ForwardsOf(c)) = {}
  BY <1>4, <1>6, InNumbers DEF ForwardsFirst
<1> QED
  BY <1>5, <1>6 DEF rest

\* A command is sent, ...
LEMMA ChainSend ==
  ASSUME NEW X, NEW Y, NEW Z, NEW a \in Nat, NEW s \in Nat, Chain(X, Y, Z, a + 1, s)
  PROVE  /\ Chain(X, Y, Z \cup {s + 1}, a + 1, s + 1)
         /\ \A z \in Z : z < s + 1
<1>1. X \cup Y \cup Z = a + 1 .. s /\ a + 1 <= s + 1
  BY DEF Chain
<1>2. \A n \in X \cup Y \cup Z : n \in Nat /\ n <= s
  BY <1>1
<1>3. a + 1 .. s + 1 = (a + 1 .. s) \cup {s + 1}
  BY <1>1
<1>4. X \cup Y \cup (Z \cup {s + 1}) = a + 1 .. s + 1
  BY <1>1, <1>3
<1>5. \A x \in X \cup Y \cup Z : x < s + 1
  BY <1>2
<1> QED
  BY <1>1, <1>4, <1>5 DEF Chain

\* ... taken in hand, ...
LEMMA ChainTake ==
  ASSUME NEW X, NEW Z, NEW n, NEW a \in Nat, NEW s \in Nat, Chain(X, {}, {n} \cup Z, a + 1, s),
         \A z \in Z : n < z
  PROVE  Chain(X, {n}, Z, a + 1, s) /\ n # 0
<1>1. n \in a + 1 .. s
  BY DEF Chain
<1> QED
  BY <1>1 DEF Chain

\* ... passed on, ...
LEMMA ChainPass ==
  ASSUME NEW X, NEW Z, NEW n, NEW a \in Nat, NEW s \in Nat, Chain(X, {n}, Z, a + 1, s)
  PROVE  Chain(X \cup {n}, {}, Z, a + 1, s) /\ \A x \in X : x < n
BY DEF Chain

\* ... and applied.
LEMMA ChainApply ==
  ASSUME NEW X, NEW Y, NEW Z, NEW n, NEW a \in Nat, NEW s \in Nat,
         Chain({n} \cup X, Y, Z, a + 1, s), \A x \in X : n < x
  PROVE  n \in Nat /\ Chain(X, Y, Z, n + 1, s)
<1> DEFINE W == X \cup Y \cup Z
<1>1. {n} \cup W = a + 1 .. s /\ a + 1 <= s + 1 /\ \A w \in W : n < w
  BY DEF Chain
<1> HIDE DEF W
<1>2. n \in a + 1 .. s /\ a + 1 \in {n} \cup W
  BY <1>1
<1>3. n = a + 1
  BY <1>1, <1>2
<1>4. W = n + 1 .. s
  <2>1. \A w \in W : w \in a + 1 .. s /\ n < w
    BY <1>1
  <2>2. \A w \in n + 1 .. s : w \in a + 1 .. s /\ w # n
    BY <1>3
  <2>3. \A w \in W : w \in n + 1 .. s
    BY <1>2, <2>1
  <2>4. \A w \in n + 1 .. s : w \in W
    BY <1>1, <2>2
  <2> QED
    BY <2>3, <2>4
<1>5. X \cup Y \cup Z = n + 1 .. s
  BY <1>4 DEF W
<1> QED
  BY <1>2, <1>3, <1>5 DEF Chain

-----------------------------------------------------------------------------
(* Commands through the hand-overs *)

Going(c) == pc[c] \in Flowing /\ ~Lost(c)

\* The commands of this channel that are in mailboxes, and their order.
MailKept(d) ==
  \A m \in MixId :
    /\ Numbers(mailbox'[m], ForwardsOf(d)) = Numbers(mailbox[m], ForwardsOf(d))
    /\ Rising(mailbox[m], ForwardsOf(d)) => Rising(mailbox'[m], ForwardsOf(d))
    /\ ForwardsFirst(mailbox[m], d) => ForwardsFirst(mailbox'[m], d)

\* Of a channel whose commands are not touched.
LEMMA FlowFrame ==
  ASSUME TypeOK, CustodyInv, FlowInv, NEW d \in Channel,
         Going(d)' => Going(d),
         cmds'[d] = cmds[d], pc'[d] = pc[d], handle'[d] = handle[d], hand'[d] = hand[d],
         sent'[d] = sent[d], applied'[d] = applied[d],
         Going(d) => MailKept(d),
         reply'[d] = "member" =>
           \/ reply[d] = "member"
           \/ Going(d) => \A m \in MixId : Numbers(mailbox[m], ForwardsOf(d)) = {}
  PROVE  Going(d)' => Flows(d)'
<1> SUFFICES ASSUME Going(d), Going(d)' PROVE Flows(d)'
  OBVIOUS
<1>1. Flows(d) /\ MailKept(d)
  BY DEF FlowInv, Going
<1>2. handle[d] = NoMix \/ handle[d] \in MixId
  BY DEF TypeOK
<1>3. pc[d] = "leaving" => handle[d] \in MixId
  BY DEF TypeOK, Mode, CustodyInv, ModesInv, Ending
<1>4. /\ Numbers(MailOf(d)', ForwardsOf(d)) = Numbers(MailOf(d), ForwardsOf(d))
      /\ Rising(MailOf(d)', ForwardsOf(d))
  BY <1>1, <1>2 DEF MailOf, MailKept, Flows
<1>5. \A m \in MixId :
        m # handle[d] \/ pc[d] = "adding" \/ reply'[d] = "member" =>
          Numbers(mailbox'[m], ForwardsOf(d)) = {}
  BY <1>1 DEF MailKept, Flows
<1>6. pc[d] = "leaving" => ForwardsFirst(mailbox'[handle[d]], d)
  BY <1>1, <1>3 DEF MailKept, Flows
<1> QED
  BY <1>1, <1>4, <1>5, <1>6 DEF Flows

LEMMA AppendKept ==
  ASSUME TypeOK, NEW d \in Channel, NEW m \in MixId, NEW msg \in Message, msg.ch # d,
         mailbox' = [mailbox EXCEPT ![m] = Append(@, msg)]
  PROVE  MailKept(d)
<1>1. mailbox \in [MixId -> Seq(Message)]
  BY DEF TypeOK, MixTypeOK
<1>2. msg \notin ForwardsOf(d)
  BY DEF ForwardsOf
<1>3. mailbox[m] \in Seq(Message) /\ mailbox'[m] = Append(mailbox[m], msg)
  BY <1>1
<1>4. /\ Numbers(mailbox'[m], ForwardsOf(d)) = Numbers(mailbox[m], ForwardsOf(d))
      /\ Rising(mailbox[m], ForwardsOf(d)) => Rising(mailbox'[m], ForwardsOf(d))
  <2> DEFINE F == ForwardsOf(d)
             box == mailbox[m]
  <2> HIDE DEF F, box
  <2>1. box \in Seq(Message) /\ msg \notin F
    BY <1>2, <1>3 DEF F, box
  <2>2. /\ Numbers(Append(box, msg), F) = Numbers(box, F) \cup (IF msg \in F THEN {msg.seq} ELSE {})
        /\ Rising(box, F) /\ (msg \in F => \A n \in Numbers(box, F) : n < msg.seq)
             => Rising(Append(box, msg), F)
    BY <2>1, NumbersAppend
  <2>3. Numbers(Append(box, msg), F) = Numbers(box, F) /\ (Rising(box, F) => Rising(Append(box, msg), F))
    BY <2>1, <2>2
  <2> QED
    BY <1>3, <2>3 DEF F, box
<1>5. ForwardsFirst(mailbox[m], d) => ForwardsFirst(mailbox'[m], d)
  BY <1>2, <1>3, FirstAppend
<1>6. \A k \in MixId : k # m => mailbox'[k] = mailbox[k]
  BY <1>1
<1> QED
  BY <1>4, <1>5, <1>6 DEF MailKept

LEMMA TailKept ==
  ASSUME TypeOK, NEW d \in Channel, NEW m \in MixId, mailbox[m] # <<>>,
         Head(mailbox[m]) \notin ForwardsOf(d),
         mailbox' = [mailbox EXCEPT ![m] = Tail(@)]
  PROVE  MailKept(d)
<1>1. mailbox \in [MixId -> Seq(Message)]
  BY DEF TypeOK, MixTypeOK
<1>2. mailbox[m] \in Seq(Message) /\ mailbox'[m] = Tail(mailbox[m])
  BY <1>1
<1>3. /\ Numbers(mailbox'[m], ForwardsOf(d)) = Numbers(mailbox[m], ForwardsOf(d))
      /\ Rising(mailbox[m], ForwardsOf(d)) => Rising(mailbox'[m], ForwardsOf(d))
  <2> DEFINE F == ForwardsOf(d)
             box == mailbox[m]
  <2> HIDE DEF F, box
  <2>1. box \in Seq(Message) /\ box # <<>> /\ Head(box) \notin F
    BY <1>2 DEF F, box
  <2>2. /\ Numbers(box, F) =
              (IF Head(box) \in F THEN {Head(box).seq} ELSE {}) \cup Numbers(Tail(box), F)
        /\ Rising(box, F) => Rising(Tail(box), F)
    BY <2>1, NumbersTail
  <2>3. Numbers(Tail(box), F) = Numbers(box, F) /\ (Rising(box, F) => Rising(Tail(box), F))
    BY <2>1, <2>2
  <2> QED
    BY <1>2, <2>3 DEF F, box
<1>4. ForwardsFirst(mailbox[m], d) => ForwardsFirst(mailbox'[m], d)
  BY <1>2, FirstTail
<1>5. \A k \in MixId : k # m => mailbox'[k] = mailbox[k]
  BY <1>1
<1> QED
  BY <1>3, <1>4, <1>5 DEF MailKept

LEMMA SameKept ==
  ASSUME NEW d \in Channel, mailbox' = mailbox
  PROVE  MailKept(d)
BY DEF MailKept

\* A channel that is lost stays lost.
LEMMA StaysGoing ==
  ASSUME NEW d \in Channel, pc'[d] = pc[d], mode'[d] = mode[d], evicted \subseteq evicted',
         reply'[d] = reply[d] \/ reply[d] = "pending"
  PROVE  Going(d)' => Going(d)
BY DEF Going, Lost

\* Only a mixer that has the channel has commands for it.
LEMMA InGroup ==
  ASSUME TypeOK, CustodyInv, SlotInv, FlowInv, NEW c \in Channel, Going(c), NEW m \in MixId,
         Numbers(mailbox[m], ForwardsOf(c)) # {}
  PROVE  m = handle[c] /\ c \in members[m] /\ mode[c] = "mixed"
<1>1. Flows(c)
  BY DEF FlowInv, Going
<1>2. m = handle[c] /\ pc[c] # "adding" /\ reply[c] # "member"
  BY <1>1 DEF Flows
<1>3. handle[c] # NoMix
  BY <1>2, ChannelMixAssumption
<1>4. mode[c] = "mixed"
  BY <1>2, <1>3 DEF SlotInv, CustodyInv, ModesInv, TypeOK, Mode, Going, Flowing, Ending
<1>5. pc[c] \in {"loop", "leaving", "forwarding"}
  BY <1>2, <1>4 DEF Going, Flowing, CustodyInv, ModesInv, Ending
<1>6. c \notin evicted
  BY DEF Going, Lost
<1>7. ~Gone(c)
  BY <1>6 DEF Gone
<1>8. Placed(c)
  BY DEF CustodyInv, PlaceInv
<1>9. pc[c] = "leaving" => reply[c] \in {"unsent", "pending"}
  BY <1>2, <1>7, <1>8 DEF Placed, CustodyInv, RepliesInv
<1>10. Inside(c)
  BY <1>4, <1>5, <1>7, <1>8, <1>9 DEF Placed
<1> QED
  BY <1>2, <1>4, <1>10 DEF Inside

\* When a mixer handles the request to leave, it has handled the commands.
LEMMA LeavesLast ==
  ASSUME TypeOK, CustodyInv, FlowInv, NEW m \in MixId, Incoming(m, "Remove"),
         NEW c \in Channel, c = Head(mailbox[m]).ch, Going(c)
  PROVE  \A k \in MixId : Numbers(mailbox[k], ForwardsOf(c)) = {}
<1>1. mailbox[m] \in Seq(Message) /\ mailbox[m] # <<>> /\ Head(mailbox[m]).op = "Remove"
  BY DEF TypeOK, MixTypeOK, Incoming
<1>2. OneRequestEach(mailbox[m])
  BY DEF CustodyInv, MixersInv
<1>3. c \in WaitersIn(mailbox[m]) /\ c \notin AddsIn(mailbox[m])
  BY <1>1, <1>2, TailQueue
<1>4. reply[c] = "pending" /\ m = handle[c] /\ pc[c] # "adding"
  BY <1>3 DEF CustodyInv, QueuedInv, Going, Flowing, Ending
<1>5. pc[c] = "leaving"
  BY <1>4 DEF CustodyInv, RepliesInv, Going, Flowing
<1>6. Flows(c)
  BY DEF FlowInv, Going
<1>7. Numbers(mailbox[m], ForwardsOf(c)) = {}
  BY <1>1, <1>4, <1>5, <1>6, FirstTail DEF Flows
<1> QED
  BY <1>4, <1>6, <1>7 DEF Flows

LEMMA FlowMixer ==
  ASSUME TypeOK, CustodyInv, SlotInv, FlowInv, NEW m \in MixId,
         MixerRuns(m) \/ \E c \in Channel : MixerEvict(m, c)
  PROVE  FlowInv'
<1> USE DEF facadeVars, statVars, recvVars, actorVars
<1>t. /\ mailbox \in [MixId -> Seq(Message)] /\ members \in [MixId -> SUBSET Channel]
      /\ reply \in [Channel -> Reply] /\ applied \in [Channel -> Nat] /\ sent \in [Channel -> Nat]
  BY DEF TypeOK, MixTypeOK
<1> SUFFICES ASSUME NEW d \in Channel PROVE Going(d)' => Flows(d)'
  BY DEF FlowInv, Going
<1>u. /\ UNCHANGED <<cmds, pc, mode, handle, hand, sent>>
      /\ evicted \subseteq evicted'
      /\ MixerForward(m) \/ UNCHANGED applied
  BY DEF MixerRuns, MixerAdd, MixerRemove, MixerForward, MixerUnheld, MixerEvict, eventVars
<1>1. ASSUME MixerAdd(m) PROVE Going(d)' => Flows(d)'
  <2>1. /\ mailbox[m] # <<>> /\ Head(mailbox[m]).op = "Add"
        /\ mailbox' = [mailbox EXCEPT ![m] = Tail(@)]
        /\ reply' = Answer(Head(mailbox[m]).ch, "ok")
        /\ UNCHANGED applied
    BY <1>1 DEF MixerAdd, HandleAdd, Incoming, eventVars
  <2>2. /\ reply'[d] = reply[d] \/ reply[d] = "pending"
        /\ reply'[d] = "member" => reply[d] = "member"
    BY <1>t, <2>1 DEF Answer
  <2>3. MailKept(d)
    BY <2>1, TailKept DEF ForwardsOf
  <2>4. Going(d)' => Going(d)
    BY <1>u, <2>2, StaysGoing
  <2> QED
    BY <1>u, <2>1, <2>2, <2>3, <2>4, FlowFrame
<1>2. ASSUME MixerRemove(m) PROVE Going(d)' => Flows(d)'
  <2> DEFINE c == Head(mailbox[m]).ch
             left == members[m] \ {c}
             answered == Answer(c, IF c \in members[m] THEN "member" ELSE "absent")
  <2>1. /\ Incoming(m, "Remove")
        /\ \/ left = {} /\ StopWith(m, Tail(mailbox[m]), answered)
           \/ mailbox' = [mailbox EXCEPT ![m] = Tail(@)] /\ reply' = answered
        /\ UNCHANGED applied
    BY <1>2 DEF MixerRemove, HandleRemove, eventVars
  <2>2. mailbox[m] # <<>> /\ Head(mailbox[m]).op = "Remove" /\ c \in Channel
    <3>1. mailbox[m] # <<>> /\ Head(mailbox[m]).op = "Remove" /\ mailbox[m] \in Seq(Message)
      BY <1>t, <2>1 DEF Incoming
    <3>2. Head(mailbox[m]) \in Message
      BY <3>1, HeadTail
    <3> QED
      BY <3>1, <3>2 DEF Message
  <2>a. answered \in [Channel -> Reply]
    BY <1>t DEF Answer, Reply, Outcome
  <2>3. /\ answered[d] = reply[d] \/ reply[d] = "pending"
        /\ answered[d] = "member" => reply[d] = "member" \/ d = c
    BY <1>t, <2>2 DEF Answer
  <2>e. Going(d) /\ d = c => \A k \in MixId : Numbers(mailbox[k], ForwardsOf(d)) = {}
    BY <2>1, <2>2, LeavesLast
  <2> HIDE DEF answered, c
  <2>4. CASE left = {} /\ StopWith(m, Tail(mailbox[m]), answered)
    <3>1. /\ mailbox' = [mailbox EXCEPT ![m] = <<>>]
          /\ reply'[d] \in {answered[d], "gone"}
          /\ reply'[d] = "gone" => answered[d] \in {"pending", "gone"}
      BY <2>a, <2>4 DEF StopWith
    <3>2. reply'[d] = reply[d] \/ reply[d] = "pending"
      BY <2>3, <3>1
    <3>3. Going(d)' => Going(d)
      BY <1>u, <3>2, StaysGoing
    <3>4. Going(d) => Numbers(mailbox[m], ForwardsOf(d)) = {}
      <4> SUFFICES ASSUME Going(d), Numbers(mailbox[m], ForwardsOf(d)) # {} PROVE FALSE
        OBVIOUS
      <4>1. d \in members[m]
        BY InGroup
      <4>2. d = c
        BY <2>4, <4>1
      <4> QED
        BY <2>e, <4>2
    <3>5. Numbers(mailbox'[m], ForwardsOf(d)) = {} /\ Rising(mailbox'[m], ForwardsOf(d))
          /\ ForwardsFirst(mailbox'[m], d)
      <4>1. mailbox'[m] = <<>>
        BY <1>t, <3>1
      <4> QED
        BY <4>1, EmptyNumbers DEF ForwardsFirst
    <3>6. Going(d) => MailKept(d)
      BY <1>t, <3>1, <3>4, <3>5 DEF MailKept
    <3>7. reply'[d] = "member" => reply[d] = "member" \/ d = c
      BY <2>3, <3>1
    <3> QED
      BY <1>u, <2>1, <2>e, <3>3, <3>6, <3>7, FlowFrame
  <2>5. CASE mailbox' = [mailbox EXCEPT ![m] = Tail(@)] /\ reply' = answered
    <3>1. MailKept(d)
      BY <2>2, <2>5, TailKept DEF ForwardsOf
    <3>2. Going(d)' => Going(d)
      BY <1>u, <2>3, <2>5, StaysGoing
    <3> QED
      BY <1>u, <2>1, <2>3, <2>5, <2>e, <3>1, <3>2, FlowFrame
  <2> QED
    BY <2>1, <2>4, <2>5
<1>3. ASSUME MixerForward(m) PROVE Going(d)' => Flows(d)'
  <2> DEFINE msg == Head(mailbox[m])
             c == msg.ch
             box == mailbox[m]
             rest == Tail(box)
  <2>1. /\ box # <<>> /\ msg.op = "Forward" /\ mailbox' = [mailbox EXCEPT ![m] = Tail(@)]
        /\ UNCHANGED <<members, reply, evicted>>
        /\ applied' = [applied EXCEPT ![c] = IF c \in members[m] THEN msg.seq ELSE @]
    BY <1>3 DEF MixerForward, HandleForward, Incoming
  <2>2. box \in Seq(Message)
    BY <1>t
  <2>3. msg \in Message
    BY <2>1, <2>2, HeadTail
  <2>4. mailbox'[m] = rest /\ \A k \in MixId : k # m => mailbox'[k] = mailbox[k]
    BY <1>t, <2>1
  <2>g. Going(d)' => Going(d)
    BY <1>u, <2>1, StaysGoing
  <2>5. CASE d # c
    <3>1. msg \notin ForwardsOf(d)
      BY <2>5 DEF ForwardsOf
    <3>2. MailKept(d)
      BY <2>1, <3>1, TailKept
    <3>3. applied'[d] = applied[d]
      BY <1>t, <2>1, <2>5
    <3> QED
      BY <1>u, <2>1, <2>g, <3>2, <3>3, FlowFrame
  <2>6. CASE d = c
    <3> SUFFICES ASSUME Going(d), Going(d)' PROVE Flows(d)'
      BY <2>g
    <3> DEFINE F == ForwardsOf(d)
               X == Numbers(rest, F)
               Y == {hand[d]} \ {0}
               Z == Numbers(cmds[d], Applies)
    <3>1. msg \in F
      BY <2>1, <2>3, <2>6 DEF ForwardsOf, Message
    <3>2. Numbers(box, F) = {msg.seq} \cup X
      BY <2>1, <2>2, <3>1, NumbersTail
    <3>3. m = handle[d] /\ d \in members[m] /\ mode[d] = "mixed"
      BY <3>2, InGroup
    <3>f. Flows(d)
      BY DEF FlowInv, Going
    <3>4. MailOf(d) = box /\ MailOf(d)' = rest
      BY <1>u, <2>4, <3>3, ChannelMixAssumption DEF MailOf
    <3>5. Rising(box, F) /\ Chain(Numbers(box, F), Y, Z, applied[d] + 1, sent[d]) /\ Rising(cmds[d], Applies)
      BY <3>f, <3>4 DEF Flows
    <3>6. Rising(rest, F) /\ \A x \in X : msg.seq < x
      BY <2>1, <2>2, <3>1, <3>5, NumbersTail
    <3>7. applied'[d] = msg.seq
      BY <1>t, <2>1, <2>6, <3>3
    <3>8. applied[d] \in Nat /\ sent[d] \in Nat
      BY <1>t
    <3>9. Chain({msg.seq} \cup X, Y, Z, applied[d] + 1, sent[d])
      BY <3>2, <3>5
    <3> HIDE DEF X, Y, Z, F
    <3>10. Chain(X, Y, Z, applied'[d] + 1, sent[d])
      BY <3>6, <3>7, <3>8, <3>9, ChainApply
    <3>11. \A k \in MixId : k # handle[d] \/ pc[d] = "adding" \/ reply[d] = "member" =>
                              Numbers(mailbox'[k], F) = {}
      <4>1. pc[d] # "adding" /\ reply[d] # "member"
        BY <3>2, <3>3, <3>f DEF Flows, F
      <4>2. \A k \in MixId : k # handle[d] => mailbox'[k] = mailbox[k]
        BY <2>4, <3>3
      <4> QED
        BY <3>f, <4>1, <4>2 DEF Flows, F
    <3>12. pc[d] = "leaving" => ForwardsFirst(mailbox'[handle[d]], d)
      BY <2>1, <2>2, <2>4, <3>3, <3>f, FirstTail DEF Flows
    <3>13. /\ Rising(MailOf(d)', F) /\ Rising(cmds'[d], Applies)
           /\ Chain(Numbers(MailOf(d)', F), {hand'[d]} \ {0}, Numbers(cmds'[d], Applies),
                    applied'[d] + 1, sent'[d])
      BY <1>u, <3>4, <3>5, <3>6, <3>10 DEF X, Y, Z
    <3> QED
      BY <1>u, <2>1, <3>f, <3>11, <3>12, <3>13 DEF Flows, F
  <2> QED
    BY <2>5, <2>6
<1>4. ASSUME MixerUnheld(m) PROVE Going(d)' => Flows(d)'
  <2>1. UNCHANGED <<mailbox, reply, applied>>
    BY <1>4, <1>t DEF MixerUnheld, HandlesDropped, StopWith, WaitersIn, eventVars
  <2> QED
    BY <1>u, <2>1, SameKept, StaysGoing, FlowFrame
<1>5. ASSUME NEW c \in Channel, MixerEvict(m, c) PROVE Going(d)' => Flows(d)'
  <2>1. UNCHANGED <<mailbox, reply, applied>>
    BY <1>5 DEF MixerEvict, EvictIdle
  <2> QED
    BY <1>u, <2>1, SameKept, StaysGoing, FlowFrame
<1> QED
  BY <1>1, <1>2, <1>3, <1>4, <1>5 DEF MixerRuns

\* A command goes behind the others, with the next number if it has one.
LEMMA FlowSend ==
  ASSUME TypeOK, FlowInv, NEW d \in Channel, NEW cmd \in Command,
         cmds'[d] = Append(cmds[d], cmd),
         IF cmd.op = "Apply" THEN cmd.seq = sent[d] + 1 /\ sent'[d] = sent[d] + 1
                             ELSE sent'[d] = sent[d],
         UNCHANGED <<mailbox, reply, pc, mode, handle, hand, applied, evicted>>
  PROVE  Going(d)' => Flows(d)'
<1> DEFINE X == Numbers(MailOf(d), ForwardsOf(d))
           Y == {hand[d]} \ {0}
           Z == Numbers(cmds[d], Applies)
<1> SUFFICES ASSUME Going(d)' PROVE Flows(d)'
  OBVIOUS
<1>1. Flows(d)
  <2>1. Going(d)
    BY DEF Going, Lost
  <2> QED
    BY <2>1 DEF FlowInv, Going
<1>2. cmds[d] \in Seq(Command) /\ sent[d] \in Nat /\ applied[d] \in Nat
  BY DEF TypeOK
<1>3. cmd \in Applies <=> cmd.op = "Apply"
  BY DEF Command, Applies
<1>4. /\ Numbers(cmds'[d], Applies) = Z \cup (IF cmd \in Applies THEN {cmd.seq} ELSE {})
      /\ Rising(cmds[d], Applies) /\ (cmd \in Applies => \A n \in Z : n < cmd.seq)
           => Rising(cmds'[d], Applies)
  BY <1>2, NumbersAppend
<1>5. Chain(X, Y, Z, applied[d] + 1, sent[d]) /\ Rising(cmds[d], Applies)
  BY <1>1 DEF Flows
<1> HIDE DEF X, Y, Z
<1>6. /\ Rising(cmds'[d], Applies)
      /\ Chain(X, Y, Numbers(cmds'[d], Applies), applied[d] + 1, sent'[d])
  <2>1. CASE cmd.op = "Apply"
    <3>1. Numbers(cmds'[d], Applies) = Z \cup {sent[d] + 1} /\ cmd.seq = sent[d] + 1
      BY <1>3, <1>4, <2>1
    <3>2. /\ Chain(X, Y, Z \cup {sent[d] + 1}, applied[d] + 1, sent[d] + 1)
          /\ \A z \in Z : z < sent[d] + 1
      BY <1>2, <1>5, ChainSend
    <3> QED
      BY <1>4, <1>5, <2>1, <3>1, <3>2
  <2>2. CASE cmd.op # "Apply"
    <3>1. Numbers(cmds'[d], Applies) = Z /\ Rising(cmds'[d], Applies)
      BY <1>3, <1>4, <1>5, <2>2
    <3> QED
      BY <1>5, <2>2, <3>1
  <2> QED
    BY <2>1, <2>2
<1>7. MailOf(d)' = MailOf(d)
  BY DEF MailOf
<1> QED
  BY <1>1, <1>6, <1>7 DEF Flows, X, Y, Z

\* The same, if the queue has room for it.
LEMMA FlowTrySend ==
  ASSUME TypeOK, CustodyInv, FlowInv, NEW d \in Channel, NEW c \in Channel, NEW cmd \in Command,
         cmd.op # "Apply", cmds' = TrySend(cmds, c, cmd),
         UNCHANGED <<sent, mailbox, reply, pc, mode, handle, hand, applied, evicted>>
  PROVE  Going(d)' => Flows(d)'
<1>t. cmds \in [Channel -> Seq(Command)]
  BY DEF TypeOK
<1>1. CASE d = c /\ Accepts(c)
  BY <1>t, <1>1, FlowSend DEF TrySend
<1>2. CASE ~(d = c /\ Accepts(c))
  <2>1. cmds'[d] = cmds[d]
    BY <1>t, <1>2 DEF TrySend
  <2> QED
    BY <2>1, SameKept, StaysGoing, FlowFrame
<1> QED
  BY <1>1, <1>2

LEMMA FlowFacade ==
  ASSUME TypeOK, CustodyInv, FlowInv, FacadeStep
  PROVE  FlowInv'
<1> USE DEF facadeVars, statVars, recvVars, actorVars, eventVars, mixVars
<1>t. /\ cmds \in [Channel -> Seq(Command)] /\ pc \in [Channel -> PC] /\ sent \in [Channel -> Nat]
  BY DEF TypeOK
<1> SUFFICES ASSUME NEW d \in Channel PROVE Going(d)' => Flows(d)'
  BY DEF FlowInv, Going
<1>1. ASSUME NEW c \in Channel, Open(c) PROVE Going(d)' => Flows(d)'
  <2>1. /\ pc[c] = "unborn" /\ pc' = [pc EXCEPT ![c] = "loop"]
        /\ UNCHANGED <<cmds, sent, mailbox, reply, mode, handle, hand, applied, evicted>>
    BY <1>1 DEF Open
  <2>2. CASE d = c
    <3>1. Going(d)' => Going(d)
      BY <1>t, <2>1, <2>2 DEF Going, Lost, Flowing
    <3>2. Going(d) => Flows(d)
      BY DEF FlowInv, Going
    <3> QED
      BY <1>t, <2>1, <2>2, <3>1, <3>2 DEF Flows, MailOf
  <2>3. CASE d # c
    <3>1. pc'[d] = pc[d]
      BY <1>t, <2>1, <2>3
    <3> QED
      BY <2>1, <3>1, SameKept, StaysGoing, FlowFrame
  <2> QED
    BY <2>2, <2>3
<1>2. ASSUME NEW c \in Channel, Register(c) PROVE Going(d)' => Flows(d)'
  BY <1>2, SameKept, StaysGoing, FlowFrame DEF Register
<1>3. ASSUME NEW c \in Channel, Close(c) PROVE Going(d)' => Flows(d)'
  <2> DEFINE cmd == [op |-> "Close", mix |-> NoMix, seq |-> 0]
  <2>1. cmd \in Command /\ cmd.op # "Apply"
    BY DEF Command
  <2>2. /\ cmds' = TrySend(cmds, c, cmd)
        /\ UNCHANGED <<sent, mailbox, reply, pc, mode, handle, hand, applied, evicted>>
    BY <1>3 DEF Close
  <2> HIDE DEF cmd
  <2> QED
    BY <2>1, <2>2, FlowTrySend
<1>4. ASSUME NEW c \in Channel, Operate(c) PROVE Going(d)' => Flows(d)'
  <2> DEFINE cmd == [op |-> "Apply", mix |-> NoMix, seq |-> sent[c] + 1]
  <2>0. sent[c] + 1 \in Nat
    BY <1>t
  <2>1. cmd \in Command /\ cmd.op = "Apply" /\ cmd.seq = sent[c] + 1
    BY <2>0 DEF Command
  <2>2. /\ cmds' = TrySend(cmds, c, cmd)
        /\ sent' = [sent EXCEPT ![c] = IF Accepts(c) THEN @ + 1 ELSE @]
        /\ UNCHANGED <<mailbox, reply, pc, mode, handle, hand, applied, evicted>>
    BY <1>4 DEF Operate
  <2> HIDE DEF cmd
  <2>3. CASE d = c /\ Accepts(c)
    <3>1. cmds'[d] = Append(cmds[d], cmd) /\ sent'[d] = sent[d] + 1
      BY <1>t, <2>2, <2>3 DEF TrySend
    <3> QED
      BY <2>1, <2>2, <2>3, <3>1, FlowSend
  <2>4. CASE ~(d = c /\ Accepts(c))
    <3>1. cmds'[d] = cmds[d] /\ sent'[d] = sent[d]
      BY <1>t, <2>2, <2>4 DEF TrySend
    <3> QED
      BY <2>2, <3>1, SameKept, StaysGoing, FlowFrame
  <2> QED
    BY <2>3, <2>4
<1>5. ASSUME NEW c \in Channel, Unmix(c) PROVE Going(d)' => Flows(d)'
  <2> DEFINE cmd == [op |-> "LeaveMix", mix |-> NoMix, seq |-> 0]
  <2>1. cmd \in Command /\ cmd.op # "Apply"
    BY DEF Command
  <2>2. /\ cmds' = TrySend(cmds, c, cmd)
        /\ UNCHANGED <<sent, mailbox, reply, pc, mode, handle, hand, applied, evicted>>
    BY <1>5 DEF Unmix
  <2> HIDE DEF cmd
  <2> QED
    BY <2>1, <2>2, FlowTrySend
<1>6. ASSUME NEW a \in Channel, NEW b \in Channel, Mix(a, b) PROVE Going(d)' => Flows(d)'
  <2>1. PICK m \in MixId : cmds' = TrySend(TrySend(cmds, a, EnterCommand(m)), b, EnterCommand(m))
    BY <1>6 DEF Mix
  <2>2. a # b /\ UNCHANGED <<sent, mailbox, reply, pc, mode, handle, hand, applied, evicted>>
    BY <1>6 DEF Mix
  <2> DEFINE cmd == EnterCommand(m)
  <2>3. cmd \in Command /\ cmd.op # "Apply"
    BY DEF EnterCommand, Command
  <2>4. cmds'[d] = IF d \in {a, b} /\ Accepts(d) THEN Append(cmds[d], cmd) ELSE cmds[d]
    BY <1>t, <2>1, <2>2 DEF TrySend
  <2> HIDE DEF cmd
  <2>5. CASE d \in {a, b} /\ Accepts(d)
    BY <2>2, <2>3, <2>4, <2>5, FlowSend
  <2>6. CASE ~(d \in {a, b} /\ Accepts(d))
    BY <2>2, <2>4, <2>6, SameKept, StaysGoing, FlowFrame
  <2> QED
    BY <2>5, <2>6
<1>7. CASE Shutdown
  <2> DEFINE cmd == [op |-> "Close", mix |-> NoMix, seq |-> 0]
  <2>1. cmd \in Command /\ cmd.op # "Apply"
    BY DEF Command
  <2>2. /\ cmds'[d] \in {Append(cmds[d], cmd), cmds[d]}
        /\ UNCHANGED <<sent, mailbox, reply, pc, mode, handle, hand, applied, evicted>>
    BY <1>7 DEF Shutdown
  <2> HIDE DEF cmd
  <2>3. CASE cmds'[d] = Append(cmds[d], cmd)
    BY <2>1, <2>2, <2>3, FlowSend
  <2>4. CASE cmds'[d] = cmds[d]
    BY <2>2, <2>4, SameKept, StaysGoing, FlowFrame
  <2> QED
    BY <2>2, <2>3, <2>4
<1>8. CASE ShutdownReturns
  BY <1>8, SameKept, StaysGoing, FlowFrame DEF ShutdownReturns
<1> QED
  BY <1>1, <1>2, <1>3, <1>4, <1>5, <1>6, <1>7, <1>8 DEF FacadeStep

\* What an actor does is no other channel's business.
LEMMA FlowOthers ==
  ASSUME TypeOK, CustodyInv, FlowInv, NEW c \in Channel,
         ActorRuns(c) \/ IdleTimeout(c) \/ ReclaimTimesOut(c),
         NEW d \in Channel, d # c
  PROVE  Going(d)' => Flows(d)'
<1> USE DEF facadeVars, statVars, recvVars, actorVars, eventVars, mixVars
<1>t. /\ cmds \in [Channel -> Seq(Command)] /\ pc \in [Channel -> PC]
      /\ handle \in [Channel -> MixId \cup {NoMix}] /\ mode \in [Channel -> Mode]
      /\ hand \in [Channel -> Nat] /\ applied \in [Channel -> Nat]
      /\ reply \in [Channel -> Reply] /\ MixTypeOK
  BY DEF TypeOK, MixTypeOK
<1>1. CASE SendRequest(c)
  <2>1. /\ UNCHANGED <<cmds, mode, handle, sent, applied, evicted>>
        /\ pc'[d] = pc[d] /\ hand'[d] = hand[d] /\ reply'[d] = reply[d]
    BY <1>t, <1>1 DEF SendRequest, AfterSend, Goto, Deliver
  <2>2. /\ mailbox' = [mailbox EXCEPT ![handle[c]] = Append(@, RequestOf(c))]
        /\ pc[c] = "adding" \/ (mode[c] = "mixed" /\ pc[c] \in Requesting)
    BY <1>1 DEF SendRequest, Deliver, Reaches
  <2>3. handle[c] \in MixId
    BY <2>2 DEF CustodyInv, ModesInv, Requesting
  <2>4. RequestOf(c) \in Message /\ RequestOf(c).ch = c
    BY <1>t DEF RequestOf, Message
  <2>5. MailKept(d)
    BY <2>2, <2>3, <2>4, AppendKept
  <2> QED
    BY <2>1, <2>5, StaysGoing, FlowFrame
<1>2. CASE ~SendRequest(c)
  <2>1. /\ UNCHANGED <<sent, mailbox, evicted>>
        /\ cmds'[d] = cmds[d] /\ pc'[d] = pc[d] /\ handle'[d] = handle[d] /\ mode'[d] = mode[d]
        /\ hand'[d] = hand[d] /\ applied'[d] = applied[d] /\ reply'[d] = reply[d]
    <3>1. CASE TakeClose(c) \/ TakeEnterMix(c) \/ TakeLeaveMix(c) \/ TakeApply(c)
      BY <1>t, <3>1 DEF TakeClose, TakeEnterMix, TakeLeaveMix, TakeApply, Take, Ask, Goto
    <3>2. CASE SendFails(c)
      BY <1>t, <3>2 DEF SendFails, AfterSend, Goto, Bounce
    <3>3. CASE FinishAdd(c) \/ FinishLeave(c) \/ FinishRemove(c) \/ FinishReclaim(c)
      BY <1>t, <3>3
         DEF FinishAdd, FinishLeave, FinishRemove, FinishReclaim, RestoreIfFound, BackToLocal, KeepMode,
             Ask, Goto
    <3>4. CASE Teardown(c) \/ PostClose(c)
      BY <1>t, <3>4 DEF Teardown, PostClose, Goto
    <3>5. CASE IdleTimeout(c) \/ ReclaimTimesOut(c)
      BY <1>t, <3>5 DEF IdleTimeout, ReclaimTimesOut, Goto
    <3> QED
      BY <1>2, <3>1, <3>2, <3>3, <3>4, <3>5 DEF ActorRuns
  <2> QED
    BY <2>1, SameKept, StaysGoing, FlowFrame
<1> QED
  BY <1>1, <1>2

\* An actor takes its next command.
LEMMA FlowTakes ==
  ASSUME TypeOK, CustodyInv, SlotInv, FlowInv, NEW c \in Channel,
         TakeEnterMix(c) \/ TakeLeaveMix(c) \/ TakeApply(c)
  PROVE  Going(c)' => Flows(c)'
<1> USE DEF facadeVars, statVars, recvVars
<1> DEFINE F == ForwardsOf(c)
           X == Numbers(MailOf(c), F)
           Z == Numbers(cmds[c], Applies)
           rest == Tail(cmds[c])
           cmd == Head(cmds[c])
<1> SUFFICES ASSUME Going(c)' PROVE Flows(c)'
  OBVIOUS
<1>t. /\ cmds \in [Channel -> Seq(Command)] /\ pc \in [Channel -> PC]
      /\ handle \in [Channel -> MixId \cup {NoMix}] /\ mode \in [Channel -> Mode]
      /\ hand \in [Channel -> Nat] /\ applied \in [Channel -> Nat] /\ sent \in [Channel -> Nat]
      /\ reply \in [Channel -> Reply]
  BY DEF TypeOK, MixTypeOK
<1>1. /\ pc[c] = "loop" /\ cmds[c] # <<>> /\ cmds'[c] = rest
      /\ UNCHANGED <<mailbox, sent, evicted>>
  BY <1>t DEF TakeEnterMix, TakeLeaveMix, TakeApply, Take, eventVars
<1>2. Flows(c)
  <2>1. Going(c)
    BY <1>1 DEF Going, Lost, Flowing, CustodyInv, ModesInv, Ending
  <2> QED
    BY <2>1 DEF FlowInv, Going
<1>3. /\ cmd \in Command /\ rest \in Seq(Command)
      /\ cmd \in Applies <=> cmd.op = "Apply"
  <2>1. cmds[c] \in Seq(Command)
    BY <1>t
  <2>2. cmd \in Command /\ rest \in Seq(Command)
    BY <1>1, <2>1, HeadTail
  <2> QED
    BY <2>2 DEF Command, Applies
<1>4. /\ Z = (IF cmd \in Applies THEN {cmd.seq} ELSE {}) \cup Numbers(rest, Applies)
      /\ Rising(cmds[c], Applies) =>
           /\ Rising(rest, Applies)
           /\ cmd \in Applies => \A n \in Numbers(rest, Applies) : cmd.seq < n
  BY <1>t, <1>1, NumbersTail
<1>5. /\ Rising(MailOf(c), F) /\ Rising(cmds[c], Applies)
      /\ Chain(X, {hand[c]} \ {0}, Z, applied[c] + 1, sent[c])
      /\ hand[c] = 0
      /\ \A m \in MixId : m # handle[c] => Numbers(mailbox[m], F) = {}
  BY <1>1, <1>2 DEF Flows
<1>6. {hand[c]} \ {0} = {}
  BY <1>5
<1>m. mode[c] \in {"local", "mixed"} /\ (mode[c] = "mixed" => handle[c] \in MixId)
      /\ (mode[c] = "local" => handle[c] = NoMix) /\ reply[c] = "idle"
  BY <1>1, <1>t DEF CustodyInv, ModesInv, RepliesInv, SlotInv, Mode, Ending
<1>n. handle[c] = NoMix => \A m \in MixId : Numbers(mailbox[m], F) = {}
  BY <1>5, ChannelMixAssumption
<1>w. mode[c] = "mixed" => ForwardsFirst(mailbox[handle[c]], c)
  <2> SUFFICES ASSUME mode[c] = "mixed" PROVE ForwardsFirst(mailbox[handle[c]], c)
    OBVIOUS
  <2>1. c \notin WaitersIn(mailbox[handle[c]])
    BY <1>1, <1>m DEF CustodyInv, QueuedInv, Ending
  <2> QED
    BY <2>1, InWaiters DEF ForwardsFirst
<1> HIDE DEF F, X, Z, rest, cmd
<1>e. cmd.op # "Apply" =>
        /\ Rising(rest, Applies)
        /\ Chain(X, {}, Numbers(rest, Applies), applied[c] + 1, sent[c])
  <2> SUFFICES ASSUME cmd.op # "Apply"
               PROVE  /\ Rising(rest, Applies)
                      /\ Chain(X, {}, Numbers(rest, Applies), applied[c] + 1, sent[c])
    OBVIOUS
  <2>1. Z = Numbers(rest, Applies)
    BY <1>3, <1>4
  <2> QED
    BY <1>4, <1>5, <1>6, <2>1
\* The channel keeps its place.
<1>k. ASSUME pc'[c] \in {"loop", "leaving", "forwarding"}, handle'[c] = handle[c],
             pc'[c] # "loop" => mode[c] = "mixed",
             reply'[c] \in {"idle", "unsent"},
             hand'[c] # 0 <=> pc'[c] = "forwarding",
             Rising(rest, Applies),
             Chain(X, {hand'[c]} \ {0}, Numbers(rest, Applies), applied'[c] + 1, sent[c])
      PROVE  Flows(c)'
  <2>1. MailOf(c)' = MailOf(c)
    BY <1>1, <1>k DEF MailOf
  <2>2. pc'[c] = "leaving" => ForwardsFirst(mailbox'[handle'[c]], c)
    BY <1>1, <1>k, <1>w
  <2>3. /\ Rising(MailOf(c)', F) /\ Rising(cmds'[c], Applies)
        /\ Chain(Numbers(MailOf(c)', F), {hand'[c]} \ {0}, Numbers(cmds'[c], Applies),
                 applied'[c] + 1, sent'[c])
    BY <1>1, <1>5, <1>k, <2>1 DEF X
  <2>4. \A m \in MixId : m # handle'[c] \/ pc'[c] = "adding" \/ reply'[c] = "member" =>
                           Numbers(mailbox'[m], F) = {}
    BY <1>1, <1>5, <1>k
  <2> QED
    BY <1>k, <2>2, <2>3, <2>4 DEF Flows, F
<1>7. CASE TakeEnterMix(c)
  <2>1. cmd.op # "Apply" /\ UNCHANGED <<hand, applied>>
    BY <1>7 DEF TakeEnterMix, Take, cmd
  <2>2. CASE mode[c] = "local"
    <3>1. pc'[c] = "adding" /\ handle'[c] = cmd.mix /\ reply'[c] = "unsent"
      BY <1>t, <1>7, <2>2 DEF TakeEnterMix, Ask, Goto, cmd
    <3>2. handle'[c] \in MixId
      BY <1>3, <1>7, <3>1 DEF TakeEnterMix, Take, Command, cmd
    <3>3. \A m \in MixId : Numbers(mailbox[m], F) = {}
      BY <1>m, <1>n, <2>2
    <3>4. X = {}
      BY <1>m, <2>2, EmptyNumbers DEF MailOf, X
    <3>5. MailOf(c)' = mailbox[handle'[c]]
      BY <1>1, <3>2, ChannelMixAssumption DEF MailOf
    <3>6. Numbers(MailOf(c)', F) = {} /\ Rising(MailOf(c)', F)
      BY <3>2, <3>3, <3>5, NoNumbers
    <3>7. /\ Rising(cmds'[c], Applies)
          /\ Chain(Numbers(MailOf(c)', F), {hand'[c]} \ {0}, Numbers(cmds'[c], Applies),
                   applied'[c] + 1, sent'[c])
      BY <1>1, <1>e, <1>6, <2>1, <3>4, <3>6
    <3>8. \A m \in MixId : Numbers(mailbox'[m], F) = {}
      BY <1>1, <3>3
    <3> QED
      BY <1>5, <2>1, <3>1, <3>6, <3>7, <3>8 DEF Flows, F
  <2>3. CASE mode[c] = "mixed"
    <3>1. pc'[c] = "loop" /\ handle'[c] = handle[c] /\ reply'[c] = reply[c] /\ hand'[c] = hand[c]
          /\ applied'[c] = applied[c]
      BY <1>1, <1>7, <2>1, <2>3 DEF TakeEnterMix
    <3> QED
      BY <1>e, <1>k, <1>m, <1>5, <1>6, <2>1, <3>1
  <2> QED
    BY <1>m, <2>2, <2>3
<1>8. CASE TakeLeaveMix(c)
  <2>1. /\ cmd.op # "Apply" /\ handle'[c] = handle[c] /\ hand'[c] = hand[c] /\ applied'[c] = applied[c]
        /\ pc'[c] \in {"loop", "leaving"} /\ (pc'[c] # "loop" => mode[c] = "mixed")
        /\ reply'[c] \in {"idle", "unsent"}
    BY <1>t, <1>1, <1>8, <1>m DEF TakeLeaveMix, Take, Ask, Goto, eventVars, cmd
  <2> QED
    BY <1>e, <1>k, <1>5, <1>6, <2>1
<1>9. CASE TakeApply(c)
  <2> DEFINE n == cmd.seq
             Q == Numbers(rest, Applies)
  <2>1. cmd.op = "Apply" /\ handle'[c] = handle[c] /\ n \in Nat
    BY <1>3, <1>9 DEF TakeApply, Take, Command, cmd
  <2>2. Z = {n} \cup Q /\ (\A q \in Q : n < q) /\ Rising(rest, Applies)
    BY <1>3, <1>4, <1>5, <2>1
  <2>3. applied[c] \in Nat /\ sent[c] \in Nat
    BY <1>t
  <2>4. Chain(X, {}, {n} \cup Q, applied[c] + 1, sent[c])
    BY <1>5, <1>6, <2>2
  <2>5. CASE mode[c] = "local"
    <3>1. pc'[c] = "loop" /\ hand'[c] = hand[c] /\ reply'[c] = reply[c] /\ applied'[c] = n
      BY <1>t, <1>1, <1>9, <2>5 DEF TakeApply, cmd
    <3>2. X = {}
      BY <1>m, <2>5, EmptyNumbers DEF MailOf, X
    <3> HIDE DEF n, Q
    <3>3. Chain({n} \cup Q, {}, {}, applied[c] + 1, sent[c])
      BY <2>4, <3>2 DEF Chain
    <3>4. Chain(Q, {}, {}, n + 1, sent[c])
      BY <2>2, <2>3, <3>3, ChainApply
    <3>5. Chain(X, {}, Q, n + 1, sent[c])
      BY <3>2, <3>4 DEF Chain
    <3>6. Chain(X, {hand'[c]} \ {0}, Q, applied'[c] + 1, sent[c])
      BY <1>6, <3>1, <3>5
    <3> QED
      BY <1>k, <1>m, <1>5, <2>1, <2>2, <3>1, <3>6 DEF Q
  <2>6. CASE mode[c] = "mixed"
    <3>1. pc'[c] = "forwarding" /\ hand'[c] = n /\ reply'[c] = "unsent" /\ applied'[c] = applied[c]
      BY <1>t, <1>9, <2>6 DEF TakeApply, Ask, Goto, cmd
    <3> HIDE DEF n, Q
    <3>2. Chain(X, {n}, Q, applied[c] + 1, sent[c]) /\ n # 0
      BY <2>2, <2>3, <2>4, ChainTake
    <3>3. {hand'[c]} \ {0} = {n}
      BY <3>1, <3>2
    <3>4. Chain(X, {hand'[c]} \ {0}, Q, applied'[c] + 1, sent[c])
      BY <3>1, <3>2, <3>3
    <3> QED
      BY <1>k, <2>1, <2>2, <2>6, <3>1, <3>2, <3>4 DEF Q
  <2> QED
    BY <1>m, <2>5, <2>6
<1> QED
  BY <1>7, <1>8, <1>9

\* It sends a request to its mixer: a command goes from its hand to the mailbox.
LEMMA FlowRequest ==
  ASSUME TypeOK, CustodyInv, FlowInv, NEW c \in Channel, SendRequest(c)
  PROVE  Going(c)' => Flows(c)'
<1> USE DEF facadeVars, statVars, recvVars, eventVars
<1> DEFINE F == ForwardsOf(c)
           m == handle[c]
           box == mailbox[m]
           msg == RequestOf(c)
           X == Numbers(box, F)
           Z == Numbers(cmds[c], Applies)
<1> SUFFICES ASSUME Going(c)' PROVE Flows(c)'
  OBVIOUS
<1>t. /\ pc \in [Channel -> PC] /\ hand \in [Channel -> Nat] /\ applied \in [Channel -> Nat]
      /\ sent \in [Channel -> Nat] /\ reply \in [Channel -> Reply] /\ mode \in [Channel -> Mode]
      /\ mailbox \in [MixId -> Seq(Message)]
  BY DEF TypeOK, MixTypeOK
<1>1. /\ pc[c] \in Requesting /\ reply[c] = "unsent"
      /\ mailbox' = [mailbox EXCEPT ![m] = Append(@, msg)]
      /\ reply'[c] = IF msg.op = "Forward" THEN "idle" ELSE "pending"
      /\ pc'[c] = IF pc[c] = "forwarding" THEN "loop" ELSE pc[c]
      /\ hand'[c] = IF pc[c] = "forwarding" THEN 0 ELSE hand[c]
      /\ UNCHANGED <<cmds, mode, handle, sent, applied, evicted>>
  BY <1>t DEF SendRequest, Deliver, AfterSend, Goto
<1>2. Going(c)
  BY <1>1 DEF Going, Lost, Flowing, Requesting
<1>3. Flows(c)
  BY <1>2 DEF FlowInv, Going
<1>4. m \in MixId /\ MailOf(c) = box /\ MailOf(c)' = mailbox'[m]
  <2>1. m \in MixId
    BY <1>1, <1>t DEF SendRequest, Reaches, CustodyInv, ModesInv, Requesting
  <2> QED
    BY <1>1, <2>1, ChannelMixAssumption DEF MailOf
<1>5. /\ box \in Seq(Message) /\ mailbox'[m] = Append(box, msg)
      /\ \A k \in MixId : k # m => mailbox'[k] = mailbox[k]
  BY <1>1, <1>4, <1>t
<1>6. /\ msg \in Message /\ msg.ch = c /\ msg.seq = hand[c]
      /\ msg.op = "Forward" <=> pc[c] = "forwarding"
  BY <1>t, <1>1 DEF RequestOf, Message
<1>7. msg \in F <=> pc[c] = "forwarding"
  BY <1>6 DEF ForwardsOf, Message
<1>8. /\ Rising(box, F) /\ Rising(cmds[c], Applies)
      /\ Chain(X, {hand[c]} \ {0}, Z, applied[c] + 1, sent[c])
      /\ hand[c] # 0 <=> pc[c] = "forwarding"
      /\ \A k \in MixId : k # m \/ pc[c] = "adding" => Numbers(mailbox[k], F) = {}
  BY <1>3, <1>4 DEF Flows
<1> HIDE DEF msg, F, m, box, X, Z
<1>9. /\ Numbers(Append(box, msg), F) = Numbers(box, F) \cup (IF msg \in F THEN {msg.seq} ELSE {})
      /\ Rising(box, F) /\ (msg \in F => \A n \in Numbers(box, F) : n < msg.seq)
           => Rising(Append(box, msg), F)
  BY <1>5, <1>6, NumbersAppend
<1>10. CASE pc[c] = "forwarding"
  <2> DEFINE n == hand[c]
  <2>1. n # 0 /\ {n} \ {0} = {n} /\ msg \in F /\ msg.seq = n /\ hand'[c] = 0 /\ {hand'[c]} \ {0} = {}
    BY <1>1, <1>6, <1>7, <1>8, <1>10
  <2>2. applied[c] \in Nat /\ sent[c] \in Nat
    BY <1>t
  <2>3. Chain(X, {n}, Z, applied[c] + 1, sent[c])
    BY <1>8, <2>1
  <2> HIDE DEF n
  <2>4. Chain(X \cup {n}, {}, Z, applied[c] + 1, sent[c]) /\ \A x \in X : x < n
    BY <2>2, <2>3, ChainPass
  <2>5. Numbers(mailbox'[m], F) = X \cup {n} /\ Rising(mailbox'[m], F)
    BY <1>5, <1>8, <1>9, <2>1, <2>4 DEF X
  <2>6. /\ Rising(MailOf(c)', F) /\ Rising(cmds'[c], Applies)
        /\ Chain(Numbers(MailOf(c)', F), {hand'[c]} \ {0}, Numbers(cmds'[c], Applies),
                 applied'[c] + 1, sent'[c])
    BY <1>1, <1>4, <1>8, <2>1, <2>4, <2>5 DEF Z
  <2>7. pc'[c] = "loop" /\ reply'[c] = "idle" /\ handle'[c] = m
    BY <1>1, <1>6, <1>10 DEF m
  <2>8. \A k \in MixId : k # handle'[c] => Numbers(mailbox'[k], F) = {}
    BY <1>5, <1>8, <2>7
  <2> QED
    BY <2>1, <2>6, <2>7, <2>8 DEF Flows, F
<1>11. CASE pc[c] # "forwarding"
  <2>1. msg \notin F /\ hand'[c] = hand[c] /\ pc'[c] = pc[c] /\ reply'[c] = "pending"
        /\ handle'[c] = m
    BY <1>1, <1>6, <1>7, <1>11 DEF m
  <2>2. Numbers(mailbox'[m], F) = X /\ Rising(mailbox'[m], F)
    BY <1>5, <1>8, <1>9, <2>1 DEF X
  <2>3. /\ Rising(MailOf(c)', F) /\ Rising(cmds'[c], Applies)
        /\ Chain(Numbers(MailOf(c)', F), {hand'[c]} \ {0}, Numbers(cmds'[c], Applies),
                 applied'[c] + 1, sent'[c])
    BY <1>1, <1>4, <1>8, <2>1, <2>2 DEF Z
  <2>4. \A k \in MixId : k # m \/ pc[c] = "adding" => Numbers(mailbox'[k], F) = {}
    BY <1>5, <1>8, <2>2 DEF X, box
  <2>5. pc[c] = "leaving" => ForwardsFirst(mailbox'[m], c)
    <3>1. pc[c] = "leaving" => ForwardsFirst(box, c)
      BY <1>3 DEF Flows, box, m
    <3> QED
      BY <1>5, <1>6, <2>1, <3>1, FirstAppend DEF F
  <2> QED
    BY <1>8, <2>1, <2>3, <2>4, <2>5 DEF Flows, F
<1> QED
  BY <1>10, <1>11

\* The mixer is gone: then so is the channel's state.
LEMMA FlowFails ==
  ASSUME TypeOK, CustodyInv, FlowInv, NEW c \in Channel, SendFails(c)
  PROVE  ~Going(c)'
<1> USE DEF facadeVars, statVars, recvVars, eventVars
<1>t. pc \in [Channel -> PC] /\ mode \in [Channel -> Mode] /\ reply \in [Channel -> Reply]
  BY DEF TypeOK, MixTypeOK
<1> SUFFICES ASSUME Going(c)' PROVE FALSE
  OBVIOUS
<1>1. /\ pc[c] \in Requesting /\ reply[c] = "unsent"
      /\ Reaches(c) => mixer[handle[c]] = "stopped"
      /\ pc'[c] = IF pc[c] = "forwarding" THEN "loop" ELSE pc[c]
      /\ pc[c] # "forwarding" => reply'[c] = "gone"
      /\ UNCHANGED <<mode, handle, evicted>>
  BY <1>t DEF SendFails, Bounce, AfterSend, Goto, RequestOf
<1>2. c \notin evicted /\ pc[c] \in {"adding", "leaving", "forwarding"}
  BY <1>1 DEF Going, Lost, Flowing, Requesting
<1>3. pc[c] # "adding"
  <2>1. pc[c] = "adding" => mode[c] = "placeholder"
    BY <1>t DEF CustodyInv, ModesInv, Mode, Ending
  <2> QED
    BY <1>1, <2>1 DEF Going, Lost
<1>4. mode[c] = "mixed" /\ handle[c] \in MixId
  BY <1>2, <1>3, <1>t DEF CustodyInv, ModesInv, Mode, Ending
<1>5. members[handle[c]] = {}
  BY <1>1, <1>4 DEF Reaches, CustodyInv, MixersInv
<1>6. Placed(c)
  BY DEF CustodyInv, PlaceInv
<1> QED
  BY <1>1, <1>2, <1>3, <1>4, <1>5, <1>6 DEF Placed, Inside, Gone

\* The mixer has answered.
LEMMA FlowFinishes ==
  ASSUME TypeOK, CustodyInv, FlowInv, NEW c \in Channel, FinishAdd(c) \/ FinishLeave(c)
  PROVE  Going(c)' => Flows(c)'
<1> USE DEF facadeVars, statVars, recvVars
<1> DEFINE F == ForwardsOf(c)
<1>t. /\ pc \in [Channel -> PC] /\ mode \in [Channel -> Mode] /\ reply \in [Channel -> Reply]
      /\ handle \in [Channel -> MixId \cup {NoMix}]
  BY DEF TypeOK, MixTypeOK
<1> SUFFICES ASSUME Going(c)' PROVE Flows(c)'
  OBVIOUS
<1>1. CASE FinishAdd(c)
  <2>1. /\ pc[c] = "adding" /\ reply[c] = "ok" /\ pc'[c] = "loop" /\ reply'[c] = "idle"
        /\ handle'[c] = handle[c]
        /\ UNCHANGED <<mailbox, cmds, hand, sent, applied, evicted>>
    BY <1>1, <1>t DEF FinishAdd, Goto, Ask, Going, Flowing
  <2>2. Going(c)
    BY <2>1 DEF Going, Lost, Flowing
  <2>3. Flows(c)
    BY <2>2 DEF FlowInv, Going
  <2>4. MailOf(c)' = MailOf(c)
    BY <2>1 DEF MailOf
  <2> QED
    BY <2>1, <2>3, <2>4 DEF Flows
<1>2. CASE FinishLeave(c)
  <2>1. /\ pc[c] = "leaving" /\ pc'[c] = "loop" /\ reply'[c] = "idle" /\ reply[c] \in Outcome
        /\ RestoreIfFound(c)
        /\ UNCHANGED <<mailbox, cmds, hand, sent, applied, evicted>>
    BY <1>2, <1>t DEF FinishLeave, Goto
  <2>2. c \notin evicted
    BY <2>1 DEF Going, Lost
  <2>3. reply[c] = "member"
    <3>1. Placed(c)
      BY DEF CustodyInv, PlaceInv
    <3>2. reply[c] \in {"member", "absent", "gone"}
      BY <2>1 DEF CustodyInv, RepliesInv, Outcome
    <3> QED
      BY <2>1, <2>2, <3>1, <3>2 DEF Placed, Gone
  <2>4. handle'[c] = NoMix
    BY <1>t, <2>1, <2>3 DEF RestoreIfFound, BackToLocal
  <2>5. mode[c] = "mixed" /\ handle[c] \in MixId
    BY <1>t, <2>1 DEF CustodyInv, ModesInv, Mode, Ending
  <2>6. Flows(c)
    <3>1. Going(c)
      BY <2>1, <2>2, <2>5 DEF Going, Lost, Flowing
    <3> QED
      BY <3>1 DEF FlowInv, Going
  <2>7. \A m \in MixId : Numbers(mailbox[m], F) = {}
    BY <2>3, <2>6 DEF Flows
  <2>8. MailOf(c) = mailbox[handle[c]] /\ MailOf(c)' = <<>>
    BY <2>4, <2>5, ChannelMixAssumption DEF MailOf
  <2>9. Numbers(MailOf(c), F) = {} /\ Numbers(MailOf(c)', F) = {} /\ Rising(MailOf(c)', F)
    BY <2>5, <2>7, <2>8, EmptyNumbers
  <2>10. Chain(Numbers(MailOf(c)', F), {hand'[c]} \ {0}, Numbers(cmds'[c], Applies),
               applied'[c] + 1, sent'[c])
    BY <2>1, <2>6, <2>9 DEF Flows
  <2> QED
    BY <2>1, <2>6, <2>7, <2>9, <2>10 DEF Flows
<1> QED
  BY <1>1, <1>2

LEMMA FlowActor ==
  ASSUME TypeOK, CustodyInv, SlotInv, FlowInv, NEW c \in Channel,
         ActorRuns(c) \/ IdleTimeout(c) \/ ReclaimTimesOut(c)
  PROVE  FlowInv'
<1>t. pc \in [Channel -> PC]
  BY DEF TypeOK
<1>1. ASSUME TakeEnterMix(c) \/ TakeLeaveMix(c) \/ TakeApply(c)
      PROVE  Going(c)' => Flows(c)'
  BY <1>1, FlowTakes
<1>2. ASSUME SendRequest(c)
      PROVE  Going(c)' => Flows(c)'
  BY <1>2, FlowRequest
<1>3. ASSUME SendFails(c)
      PROVE  Going(c)' => Flows(c)'
  BY <1>3, FlowFails
<1>4. ASSUME FinishAdd(c) \/ FinishLeave(c)
      PROVE  Going(c)' => Flows(c)'
  BY <1>4, FlowFinishes
<1>5. ASSUME \/ TakeClose(c) \/ FinishRemove(c) \/ FinishReclaim(c) \/ Teardown(c) \/ PostClose(c)
             \/ IdleTimeout(c) \/ ReclaimTimesOut(c)
      PROVE  Going(c)' => Flows(c)'
  <2>1. pc'[c] \in {"closing", "removing", "reclaiming", "posting", "done"}
    BY <1>5, <1>t
       DEF TakeClose, Take, FinishRemove, FinishReclaim, Teardown, PostClose, IdleTimeout,
           ReclaimTimesOut, Ask, Goto
  <2> QED
    BY <2>1 DEF Going, Flowing
<1>6. Going(c)' => Flows(c)'
  BY <1>1, <1>2, <1>3, <1>4, <1>5 DEF ActorRuns
<1>7. \A d \in Channel \ {c} : Going(d)' => Flows(d)'
  BY FlowOthers
<1> QED
  BY <1>6, <1>7 DEF FlowInv, Going

LEMMA FlowStep == TypeOK /\ CustodyInv /\ SlotInv /\ FlowInv /\ [Next]_vars => FlowInv'
<1> SUFFICES ASSUME TypeOK, CustodyInv, SlotInv, FlowInv, [Next]_vars PROVE FlowInv'
  OBVIOUS
<1> USE DEF facadeVars, statVars, recvVars, actorVars, eventVars, mixVars
<1>1. CASE FacadeStep
  BY <1>1, FlowFacade
<1>2. ASSUME NEW c \in Channel, ActorRuns(c) \/ IdleTimeout(c) \/ ReclaimTimesOut(c)
      PROVE  FlowInv'
  BY <1>2, FlowActor
<1>3. ASSUME UNCHANGED <<cmds, sent, mailbox, reply, pc, mode, handle, hand, applied, evicted>>
      PROVE  FlowInv'
  <2>1. ASSUME NEW d \in Channel
        PROVE  Going(d)' => Flows(d)'
    BY <1>3, SameKept, StaysGoing, FlowFrame
  <2> QED
    BY <2>1 DEF FlowInv, Going
<1>4. ASSUME NEW c \in Channel, RecvStops(c) \/ RecvFails(c) PROVE FlowInv'
  BY <1>3, <1>4 DEF RecvStops, RecvFails
<1>5. ASSUME NEW m \in MixId, MixerRuns(m) \/ \E c \in Channel : MixerEvict(m, c) PROVE FlowInv'
  BY <1>5, FlowMixer
<1>6. CASE UNCHANGED vars
  BY <1>3, <1>6 DEF vars
<1> QED
  BY <1>1, <1>2, <1>4, <1>5, <1>6 DEF Next

\* The commands that were accepted for a channel are applied in the order they
\* were sent, each once, through whatever mixers it goes.
THEOREM CommandsKept == Spec => []CommandsConserved
<1>1. Init => FlowInv
  <2> SUFFICES ASSUME Init, NEW c \in Channel PROVE Flows(c)
    BY DEF FlowInv
  <2>1. /\ cmds[c] = <<>> /\ MailOf(c) = <<>> /\ hand[c] = 0 /\ applied[c] = 0 /\ sent[c] = 0
        /\ pc[c] = "unborn" /\ \A m \in MixId : mailbox[m] = <<>>
    BY DEF Init, MixInit, MailOf
  <2>2. \A kind : Numbers(<<>>, kind) = {} /\ Rising(<<>>, kind)
    BY EmptyNumbers
  <2>3. Chain({}, {}, {}, 0 + 1, 0) /\ {0} \ {0} = {}
    BY DEF Chain
  <2> QED
    BY <2>1, <2>2, <2>3 DEF Flows
<1>2. FlowInv => CommandsConserved
  BY DEF FlowInv, Flows, Flowing, CommandsConserved, Born
<1> QED
  BY <1>1, <1>2, TypeCorrect, CustodyInductive, SlotAlways, FlowStep, PTL DEF Spec
=============================================================================
