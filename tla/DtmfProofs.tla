----------------------------- MODULE DtmfProofs -----------------------------
(***************************************************************************)
(* Proofs about DTMF bursts, for any lengths of bursts and gaps, any       *)
(* threshold that fits them, and any number of digits and sequence         *)
(* numbers.                                                                *)
(***************************************************************************)
EXTENDS Dtmf, TLAPS

\* What a burst under way refers to.
CurrentInv ==
  \A k \in Senders :
    ~Idle(k) => /\ sender[k].end > 0
                /\ sender[k].current.burst \in 1 .. Len(bursts)

TypeInv == TypeOK /\ CurrentInv

\* Senders keep their types when one of them changes as a whole.
LEMMA SenderTypes ==
  ASSUME TypeOK, NEW k \in Senders, NEW s \in Sender, sender' = [sender EXCEPT ![k] = s]
  PROVE  /\ sender' \in [Senders -> Sender]
         /\ sender'[k] = s
         /\ \A j \in Senders : j # k => sender'[j] = sender[j]
BY DEF TypeOK

\* A sender's record, with a field replaced.
LEMMA Updates ==
  ASSUME NEW r \in Sender
  PROVE  /\ \A q \in Seq(Digits) : [r EXCEPT !.queue = q] \in Sender
         /\ \A n \in 0 .. Body : [r EXCEPT !.body = n] \in Sender
         /\ \A n \in 0 .. End : [r EXCEPT !.end = n] \in Sender
         /\ \A n \in 0 .. Gap : [r EXCEPT !.gap = n] \in Sender
         /\ Ended(r) \in Sender
<1>1. \A q \in Seq(Digits) : [r EXCEPT !.queue = q] \in Sender
  BY DEF Sender
<1>2. \A n \in 0 .. Body : [r EXCEPT !.body = n] \in Sender
  BY DEF Sender
<1>3. \A n \in 0 .. End : [r EXCEPT !.end = n] \in Sender
  BY DEF Sender
<1>4. \A n \in 0 .. Gap : [r EXCEPT !.gap = n] \in Sender
  BY DEF Sender
<1>5. Ended(r) \in Sender
  <2>1. 0 \in 0 .. End /\ 0 \in 0 .. Gap
    BY DtmfAssumption
  <2> QED
    BY <2>1 DEF Ended, Sender
<1> QED
  BY <1>1, <1>2, <1>3, <1>4, <1>5

\* What a sender's record holds.
LEMMA SenderFields ==
  ASSUME TypeOK, NEW k \in Senders
  PROVE  /\ sender[k] \in Sender
         /\ sender[k].queue \in Seq(Digits)
         /\ ~Idle(k) => sender[k].current \in [digit : Digits, burst : Nat]
         /\ sender[k].body \in 0 .. Body
         /\ sender[k].end \in 0 .. End
         /\ sender[k].gap \in 0 .. Gap
         /\ Rested(k) \in 0 .. Gap
<1>1. sender[k] \in Sender
  BY DEF TypeOK
<1>2. /\ sender[k].queue \in Seq(Digits)
      /\ ~Idle(k) => sender[k].current \in [digit : Digits, burst : Nat]
      /\ sender[k].body \in 0 .. Body
      /\ sender[k].end \in 0 .. End
      /\ sender[k].gap \in 0 .. Gap
  BY <1>1 DEF Sender, Idle
<1>3. Rested(k) \in 0 .. Gap
  BY <1>2, DtmfAssumption DEF Rested
<1> QED
  BY <1>1, <1>2, <1>3

\* A packet of a burst keeps the types of what it changes.
LEMMA SentTypes ==
  ASSUME TypeOK, NEW b \in 1 .. Len(bursts), NEW end \in BOOLEAN, Sent(b, end)
  PROVE  /\ receiver' \in Receiver
         /\ outSn' \in Sn
         /\ quiet' \in 0 .. MaxQuiet
         /\ bursts' \in Seq(Burst)
         /\ Len(bursts') = Len(bursts)
<1>1. bursts[b] \in Burst
  BY DEF TypeOK
<1>2. outSn' \in Sn
  BY DtmfAssumption DEF TypeOK, Sent, Missed, NextSn, Sn
<1>3. CASE Feed(b, end) /\ quiet' = 0
  <2>1. receiver' \in Receiver
    BY <1>1, <1>3 DEF TypeOK, Feed, Receiver, Burst, Stamp
  <2>3. bursts' \in Seq(Burst) /\ Len(bursts') = Len(bursts)
    <3> DEFINE x == Noted(bursts[b], end, Reports(b, end))
    <3>1. x \in Burst
      <4>1. x.heard \in BOOLEAN
        BY <1>1, Zenon DEF Noted, Burst
      <4>2. x.reports \in Nat
        BY <1>1 DEF Noted, Burst
      <4>3. x.stale \in BOOLEAN
        BY <1>1, Zenon DEF Noted, Burst, HalfGone
      <4> QED
        BY <1>1, <4>1, <4>2, <4>3 DEF Noted, Burst
    <3>2. bursts' = [bursts EXCEPT ![b] = x]
      BY <1>3 DEF Feed
    <3> HIDE DEF x
    <3> QED
      BY <3>1, <3>2 DEF TypeOK
  <2> QED
    BY <1>2, <1>3, <2>1, <2>3, DtmfAssumption
<1>4. CASE Missed /\ UNCHANGED <<receiver, bursts>>
  BY <1>2, <1>4, DtmfAssumption DEF TypeOK, Missed
<1> QED
  BY <1>3, <1>4 DEF Sent

\* A packet that the receiver does not get keeps the types of what it changes.
LEMMA MissedTypes ==
  ASSUME TypeOK, Missed \/ UNCHANGED <<outSn, quiet>>
  PROVE  outSn' \in Sn /\ quiet' \in 0 .. MaxQuiet
<1>1. outSn \in Sn /\ quiet \in 0 .. MaxQuiet
  BY DEF TypeOK
<1>2. CASE Missed
  BY <1>1, <1>2, DtmfAssumption DEF Missed, NextSn, Sn
<1>3. CASE UNCHANGED <<outSn, quiet>>
  BY <1>1, <1>3
<1> QED
  BY <1>2, <1>3

\* Every step keeps the types.
LEMMA TypeStep == TypeInv /\ [Next]_vars => TypeInv'
<1> SUFFICES ASSUME TypeOK, CurrentInv, [Next]_vars PROVE TypeOK' /\ CurrentInv'
  BY DEF TypeInv
<1>1. ASSUME NEW k \in Senders, Rest(k) PROVE TypeOK' /\ CurrentInv'
  <2> DEFINE s == [sender[k] EXCEPT !.gap = Rested(k)]
  <2>1. s \in Sender
    BY SenderFields DEF Sender
  <2>2. sender' = [sender EXCEPT ![k] = s]
    BY <1>1 DEF Rest
  <2>3. s.current = sender[k].current /\ s.end = sender[k].end
    BY DEF TypeOK, Sender
  <2> HIDE DEF s
  <2>4. /\ sender' \in [Senders -> Sender] /\ sender'[k] = s
        /\ \A j \in Senders : j # k => sender'[j] = sender[j]
    BY <2>1, <2>2, SenderTypes
  <2>5. outSn' \in Sn /\ quiet' \in 0 .. MaxQuiet
    BY <1>1, MissedTypes DEF Rest
  <2>6. waited' \in [Senders -> Nat] /\ step' \in {"tick"} \cup Senders
    BY <1>1 DEF Rest, CallEnds, TypeOK, Senders
  <2>7. TypeOK'
    BY <1>1, <2>4, <2>5, <2>6 DEF Rest, TypeOK
  <2>8. CurrentInv'
    BY <1>1, <2>3, <2>4 DEF Rest, CurrentInv, Idle
  <2> QED
    BY <2>7, <2>8
<1>2. ASSUME NEW k \in Senders, Begin(k) PROVE TypeOK' /\ CurrentInv'
  <2> DEFINE digit == Head(sender[k].queue)
             s == [queue |-> Tail(sender[k].queue),
                   current |-> [digit |-> digit, burst |-> Len(bursts) + 1],
                   body |-> Body, end |-> End, ts |-> now, gap |-> Gap]
             x == [digit |-> digit, ts |-> now, by |-> k, heard |-> FALSE, stale |-> FALSE, reports |-> 0]
  <2>1. digit \in Digits /\ Tail(sender[k].queue) \in Seq(Digits)
    BY <1>2 DEF Begin, Ready, TypeOK, Sender
  <2>2. s \in Sender
    <3>1. Body \in 0 .. Body /\ End \in 0 .. End /\ Gap \in 0 .. Gap
      BY DtmfAssumption
    <3>2. now \in Nat /\ Len(bursts) + 1 \in Nat
      BY DEF TypeOK
    <3> QED
      BY <2>1, <3>1, <3>2 DEF Sender
  <2>3. sender' = [sender EXCEPT ![k] = s]
    BY <1>2 DEF Begin
  <2>4. s.current.burst = Len(bursts) + 1 /\ s.end > 0
    BY DtmfAssumption
  <2>5. x \in Burst
    BY <2>1 DEF TypeOK, Burst
  <2>6. bursts' = Append(bursts, x)
    BY <1>2 DEF Begin
  <2> HIDE DEF s, x
  <2>7. /\ sender' \in [Senders -> Sender] /\ sender'[k] = s
        /\ \A j \in Senders : j # k => sender'[j] = sender[j]
    BY <2>2, <2>3, SenderTypes
  <2>8. bursts' \in Seq(Burst) /\ Len(bursts') = Len(bursts) + 1 /\ Len(bursts) \in Nat
    BY <2>5, <2>6 DEF TypeOK
  <2>9. waited' \in [Senders -> Nat] /\ crossed' \in BOOLEAN
    BY <1>2 DEF Begin, TypeOK
  <2>10. TypeOK'
    BY <1>2, <2>7, <2>8, <2>9 DEF Begin, TypeOK
  <2>11. CurrentInv'
    BY <2>4, <2>7, <2>8 DEF CurrentInv, Idle
  <2> QED
    BY <2>10, <2>11
<1>3. ASSUME NEW k \in Senders, SendBody(k) PROVE TypeOK' /\ CurrentInv'
  <2> DEFINE s == [sender[k] EXCEPT !.body = @ - 1]
  <2>1. s \in Sender
    <3>1. sender[k].body \in 0 .. Body /\ sender[k].body > 0 /\ sender[k] \in Sender
      BY <1>3, SenderFields DEF SendBody
    <3>2. sender[k].body - 1 \in 0 .. Body
      BY <3>1, DtmfAssumption
    <3> QED
      BY <3>1, <3>2, Updates
  <2>2. sender' = [sender EXCEPT ![k] = s]
    BY <1>3 DEF SendBody
  <2>3. s.current = sender[k].current /\ s.end = sender[k].end
    BY DEF TypeOK, Sender
  <2> HIDE DEF s
  <2>4. /\ sender' \in [Senders -> Sender] /\ sender'[k] = s
        /\ \A j \in Senders : j # k => sender'[j] = sender[j]
    BY <2>1, <2>2, SenderTypes
  <2>5. Sent(sender[k].current.burst, FALSE) /\ sender[k].current.burst \in 1 .. Len(bursts)
    BY <1>3 DEF SendBody, CurrentInv
  <2>6. step' \in {"tick"} \cup Senders
    BY <1>3 DEF SendBody, CallEnds, Senders
  <2>7. TypeOK'
    BY <1>3, <2>4, <2>5, <2>6, SentTypes DEF SendBody, TypeOK
  <2>8. CurrentInv'
    BY <2>3, <2>4, <2>5, SentTypes DEF CurrentInv, Idle
  <2> QED
    BY <2>7, <2>8
<1>4. ASSUME NEW k \in Senders, SendEnd(k) PROVE TypeOK' /\ CurrentInv'
  <2> DEFINE s == AfterEnd(sender[k])
  <2>1. s \in Sender
    <3>1. sender[k].end > 0
      BY <1>4 DEF SendEnd, CurrentInv
    <3>2. Ended(sender[k]) \in Sender
      BY SenderFields, Updates
    <3>3. sender[k].end # 1 => [sender[k] EXCEPT !.end = @ - 1] \in Sender
      <4>1. sender[k].end - 1 \in 0 .. End
        BY <3>1, SenderFields, DtmfAssumption
      <4> QED
        BY <4>1, SenderFields, Updates
    <3> QED
      BY <3>2, <3>3 DEF AfterEnd
  <2>2. sender' = [sender EXCEPT ![k] = s]
    BY <1>4 DEF SendEnd
  <2>3. s.current # None => s.current = sender[k].current /\ s.end > 0
    <3>1. sender[k].end > 0
      BY <1>4 DEF SendEnd, CurrentInv
    <3>2. Ended(sender[k]).current = None
      BY SenderFields DEF Ended, Sender
    <3>3. sender[k].end # 1 =>
            LET t == [sender[k] EXCEPT !.end = @ - 1]
            IN  t.current = sender[k].current /\ t.end > 0
      BY <3>1, SenderFields DEF Sender
    <3> QED
      BY <3>2, <3>3 DEF AfterEnd
  <2> HIDE DEF s
  <2>4. /\ sender' \in [Senders -> Sender] /\ sender'[k] = s
        /\ \A j \in Senders : j # k => sender'[j] = sender[j]
    BY <2>1, <2>2, SenderTypes
  <2>5. Sent(sender[k].current.burst, TRUE) /\ sender[k].current.burst \in 1 .. Len(bursts)
    BY <1>4 DEF SendEnd, CurrentInv
  <2>6. step' \in {"tick"} \cup Senders
    BY <1>4 DEF SendEnd, CallEnds, Senders
  <2>7. TypeOK'
    BY <1>4, <2>4, <2>5, <2>6, SentTypes DEF SendEnd, TypeOK
  <2>8. Len(bursts') = Len(bursts)
    BY <2>5, SentTypes
  <2>9. ASSUME NEW j \in Senders, sender'[j].current # None
        PROVE  sender'[j].end > 0 /\ sender'[j].current.burst \in 1 .. Len(bursts')
    <3>1. CASE j = k
      BY <2>3, <2>4, <2>5, <2>8, <2>9, <3>1
    <3>2. CASE j # k
      BY <2>4, <2>8, <2>9, <3>2 DEF CurrentInv, Idle
    <3> QED
      BY <3>1, <3>2
  <2>10. CurrentInv'
    BY <2>9 DEF CurrentInv, Idle
  <2> QED
    BY <2>7, <2>10
<1>5. ASSUME NEW k \in Senders, NEW digit \in Digits, Enqueue(k, digit) PROVE TypeOK' /\ CurrentInv'
  <2> DEFINE s == [sender[k] EXCEPT !.queue = Append(@, digit)]
  <2>1. s \in Sender
    <3>1. Append(sender[k].queue, digit) \in Seq(Digits)
      BY SenderFields
    <3> QED
      BY <3>1, SenderFields, Updates
  <2>2. sender' = [sender EXCEPT ![k] = s]
    BY <1>5 DEF Enqueue
  <2>3. s.current = sender[k].current /\ s.end = sender[k].end
    BY DEF TypeOK, Sender
  <2> HIDE DEF s
  <2>4. /\ sender' \in [Senders -> Sender] /\ sender'[k] = s
        /\ \A j \in Senders : j # k => sender'[j] = sender[j]
    BY <2>1, <2>2, SenderTypes
  <2>5. TypeOK'
    BY <1>5, <2>4 DEF Enqueue, TypeOK
  <2>6. CurrentInv'
    BY <1>5, <2>3, <2>4 DEF Enqueue, CurrentInv, Idle
  <2> QED
    BY <2>5, <2>6
<1>6. CASE Tick
  <2>1. outSn' \in Sn /\ quiet' \in 0 .. MaxQuiet
    BY <1>6, MissedTypes DEF Tick
  <2>2. TypeOK'
    BY <1>6, <2>1 DEF Tick, TypeOK, Senders
  <2>3. CurrentInv'
    BY <1>6 DEF Tick, CurrentInv, Idle
  <2> QED
    BY <2>2, <2>3
<1>7. CASE Hold
  BY <1>7 DEF Hold, TypeOK, CurrentInv, Idle
<1>8. CASE Move
  BY <1>8 DEF Move, TypeOK, CurrentInv, Idle
<1>9. CASE UNCHANGED vars
  BY <1>9 DEF vars, channel, TypeOK, CurrentInv, Idle
<1> QED
  BY <1>1, <1>2, <1>3, <1>4, <1>5, <1>6, <1>7, <1>8, <1>9 DEF Next, Dial, Relay, Senders

\* The types hold in every run.
LEMMA TypesAlways == Spec => []TypeInv
<1>1. ASSUME Init PROVE TypeInv
  <2>1. NewSender \in Sender /\ NewSender.current = None
    BY DtmfAssumption DEF NewSender, Sender
  <2>2. NewReceiver \in Receiver
    BY DEF NewReceiver, Receiver
  <2>3. 0 \in Sn /\ 0 \in 0 .. MaxQuiet
    BY DtmfAssumption DEF Sn
  <2>4. sender \in [Senders -> Sender] /\ waited \in [Senders -> Nat]
    BY <1>1, <2>1 DEF Init
  <2>5. bursts \in Seq(Burst) /\ receiver \in Receiver
    BY <1>1, <2>2 DEF Init
  <2>6. TypeOK
    BY <1>1, <2>3, <2>4, <2>5 DEF Init, TypeOK
  <2>7. CurrentInv
    BY <1>1, <2>1 DEF Init, CurrentInv, Idle
  <2> QED
    BY <2>6, <2>7 DEF TypeInv
<1> QED
  BY <1>1, TypeStep, PTL DEF Spec

\* Senders, receiver, counters and histories keep their types: sequence numbers
\* wrap, and no burst is sent that was not begun.
THEOREM TypeCorrect == Spec => []TypeOK
<1>1. TypeInv => TypeOK
  BY DEF TypeInv
<1> QED
  BY <1>1, TypesAlways, PTL

-----------------------------------------------------------------------------
(* What each action does to the senders *)

LEMMA RestEffect ==
  ASSUME TypeOK, NEW k \in Senders, Rest(k)
  PROVE  /\ sender'[k].current = sender[k].current
         /\ sender'[k].body = sender[k].body
         /\ sender'[k].end = sender[k].end
         /\ sender'[k].gap = Rested(k)
         /\ \A j \in Senders : j # k => sender'[j] = sender[j]
<1>1. sender' = [sender EXCEPT ![k] = [sender[k] EXCEPT !.gap = Rested(k)]]
  BY DEF Rest
<1>2. sender[k] \in Sender
  BY DEF TypeOK
<1> QED
  BY <1>1, <1>2 DEF TypeOK, Sender

LEMMA BeginEffect ==
  ASSUME TypeOK, NEW k \in Senders, Begin(k)
  PROVE  /\ sender'[k].current.burst = Len(bursts) + 1
         /\ sender'[k].current # None
         /\ sender'[k].body = Body
         /\ sender'[k].end = End
         /\ \A j \in Senders : j # k => sender'[j] = sender[j]
<1> DEFINE digit == Head(sender[k].queue)
           s == [queue |-> Tail(sender[k].queue),
                 current |-> [digit |-> digit, burst |-> Len(bursts) + 1],
                 body |-> Body, end |-> End, ts |-> now, gap |-> Gap]
<1>1. sender' = [sender EXCEPT ![k] = s]
  BY DEF Begin
<1>2. digit \in Digits
  BY SenderFields DEF Begin, Ready
<1>3. s.current \in [digit : Digits, burst : Nat]
  BY <1>2 DEF TypeOK
<1>4. s.current # None
  BY <1>3, DtmfAssumption
<1> QED
  BY <1>1, <1>4 DEF TypeOK

LEMMA BodyEffect ==
  ASSUME TypeOK, NEW k \in Senders, SendBody(k)
  PROVE  /\ sender'[k].current = sender[k].current
         /\ sender'[k].body = sender[k].body - 1
         /\ sender'[k].end = sender[k].end
         /\ \A j \in Senders : j # k => sender'[j] = sender[j]
<1>1. sender' = [sender EXCEPT ![k] = [sender[k] EXCEPT !.body = sender[k].body - 1]]
  BY DEF SendBody
<1>2. sender[k] \in Sender
  BY DEF TypeOK
<1> QED
  BY <1>1, <1>2 DEF TypeOK, Sender

LEMMA EndEffect ==
  ASSUME TypeOK, NEW k \in Senders, SendEnd(k)
  PROVE  /\ sender[k].end = 1 => sender'[k].current = None /\ sender'[k].gap = 0
         /\ sender[k].end # 1 => /\ sender'[k].current = sender[k].current
                                 /\ sender'[k].body = sender[k].body
                                 /\ sender'[k].end = sender[k].end - 1
         /\ \A j \in Senders : j # k => sender'[j] = sender[j]
<1>1. sender' = [sender EXCEPT ![k] = AfterEnd(sender[k])]
  BY DEF SendEnd
<1>2. sender[k] \in Sender
  BY DEF TypeOK
<1>3. sender'[k] = AfterEnd(sender[k]) /\ \A j \in Senders : j # k => sender'[j] = sender[j]
  BY <1>1 DEF TypeOK
<1>4. CASE sender[k].end = 1
  <2>1. sender'[k] = Ended(sender[k])
    BY <1>3, <1>4 DEF AfterEnd
  <2> QED
    BY <1>2, <1>3, <1>4, <2>1 DEF Ended, Sender
<1>5. CASE sender[k].end # 1
  <2>1. sender'[k] = [sender[k] EXCEPT !.end = sender[k].end - 1]
    BY <1>3, <1>5 DEF AfterEnd
  <2> QED
    BY <1>2, <1>3, <1>5, <2>1 DEF Sender
<1> QED
  BY <1>4, <1>5

LEMMA EnqueueEffect ==
  ASSUME TypeOK, NEW k \in Senders, NEW digit \in Digits, Enqueue(k, digit)
  PROVE  \A j \in Senders : /\ sender'[j].current = sender[j].current
                            /\ sender'[j].body = sender[j].body
                            /\ sender'[j].end = sender[j].end
                            /\ sender'[j].gap = sender[j].gap
<1>1. sender' = [sender EXCEPT ![k] = [sender[k] EXCEPT !.queue = Append(sender[k].queue, digit)]]
  BY DEF Enqueue
<1>2. \A j \in Senders : sender[j] \in Sender
  BY DEF TypeOK
<1> QED
  BY <1>1, <1>2 DEF TypeOK, Sender

-----------------------------------------------------------------------------
(* Waiting *)

\* A digit only waits for the rest of a gap.
PromptInv ==
  \A k \in Senders :
    waited[k] = 0 \/ (Idle(k) /\ waited[k] <= sender[k].gap /\ sender[k].gap < Gap)

LEMMA PromptStep == TypeInv /\ PromptInv /\ [Next]_vars => PromptInv'
<1> SUFFICES ASSUME TypeOK, CurrentInv, PromptInv, [Next]_vars,
                    NEW j \in Senders, waited'[j] # 0
             PROVE  Idle(j)' /\ waited'[j] <= sender'[j].gap /\ sender'[j].gap < Gap
  BY DEF TypeInv, PromptInv
<1>a. /\ Gap \in Nat /\ sender[j].gap \in 0 .. Gap /\ waited[j] \in Nat
      /\ waited[j] # 0 => Idle(j) /\ waited[j] <= sender[j].gap /\ sender[j].gap < Gap
  BY SenderFields, DtmfAssumption DEF TypeOK, PromptInv
<1>1. ASSUME NEW k \in Senders, Rest(k) PROVE Idle(j)' /\ waited'[j] <= sender'[j].gap /\ sender'[j].gap < Gap
  <2>1. CASE j # k
    BY <1>1, <1>a, <2>1, RestEffect DEF Rest, Idle, TypeOK
  <2>2. CASE j = k
    <3>1. sender[k].queue # <<>> /\ waited'[k] = waited[k] + 1
      BY <1>1, <2>2 DEF Rest, TypeOK
    <3>2. Rested(k) # Gap /\ Idle(k)
      BY <1>1, <3>1 DEF Rest, Ready
    <3>3. Rested(k) = sender[k].gap + 1 /\ Rested(k) < Gap
      BY <1>a, <2>2, <3>2 DEF Rested
    <3>4. waited'[k] <= Rested(k)
      BY <1>a, <2>2, <3>1, <3>3
    <3>5. sender'[k].gap = Rested(k) /\ Idle(k)'
      BY <1>1, <3>2, RestEffect DEF Idle
    <3> QED
      BY <2>2, <3>3, <3>4, <3>5
  <2> QED
    BY <2>1, <2>2
<1>2. ASSUME NEW k \in Senders, Begin(k) PROVE Idle(j)' /\ waited'[j] <= sender'[j].gap /\ sender'[j].gap < Gap
  <2>1. j # k /\ waited'[j] = waited[j]
    BY <1>2 DEF Begin, TypeOK
  <2> QED
    BY <1>2, <1>a, <2>1, BeginEffect DEF Idle
<1>3. ASSUME NEW k \in Senders, SendBody(k) PROVE Idle(j)' /\ waited'[j] <= sender'[j].gap /\ sender'[j].gap < Gap
  <2>1. waited'[j] = waited[j] /\ ~Idle(k)
    BY <1>3 DEF SendBody
  <2> QED
    BY <1>3, <1>a, <2>1, BodyEffect DEF Idle
<1>4. ASSUME NEW k \in Senders, SendEnd(k) PROVE Idle(j)' /\ waited'[j] <= sender'[j].gap /\ sender'[j].gap < Gap
  <2>1. waited'[j] = waited[j] /\ ~Idle(k)
    BY <1>4 DEF SendEnd
  <2> QED
    BY <1>4, <1>a, <2>1, EndEffect DEF Idle
<1>5. ASSUME NEW k \in Senders, NEW digit \in Digits, Enqueue(k, digit)
      PROVE  Idle(j)' /\ waited'[j] <= sender'[j].gap /\ sender'[j].gap < Gap
  BY <1>5, <1>a, EnqueueEffect DEF Enqueue, Idle
<1>6. CASE Tick \/ Hold \/ Move \/ UNCHANGED vars
  <2>1. sender' = sender /\ waited' = waited
    BY <1>6 DEF Tick, Hold, Move, vars, channel
  <2> QED
    BY <1>a, <2>1 DEF Idle
<1> QED
  BY <1>1, <1>2, <1>3, <1>4, <1>5, <1>6 DEF Next, Dial, Relay, Senders

\* The digit that is next never waits longer than the gap, whatever holds and
\* moves come between.
THEOREM PromptHolds == Spec => []Prompt
<1>1. Init => PromptInv
  BY DEF Init, PromptInv
<1>2. TypeInv /\ PromptInv => Prompt
  <2> SUFFICES ASSUME TypeOK, PromptInv, NEW k \in Senders PROVE waited[k] < Gap
    BY DEF TypeInv, Prompt
  <2> QED
    BY SenderFields, DtmfAssumption DEF PromptInv, TypeOK
<1> QED
  BY <1>1, <1>2, PromptStep, TypesAlways, PTL DEF Spec

-----------------------------------------------------------------------------
(* Bursts and reports *)

Newest == bursts[Len(bursts)]

\* k has not been called yet in this tick.
Late(k) == IF step = "send" \/ step = k THEN 1 ELSE 0

\* What the receiver remembers is a burst that it has reported.
RememberInv ==
  receiver.event # None =>
    /\ receiver.ts # None
    /\ \E i \in 1 .. Len(bursts) : bursts[i].reports = 1 /\ receiver.ts = bursts[i].ts

\* All bursts began long enough before the newest.
ApartInv ==
  \A i \in 1 .. Len(bursts) - 1 : bursts[i].ts + NewBurst <= Newest.ts

\* The ticks that its packets, and the gap after it, have taken since k's burst
\* began.
Spent(k) ==
  Late(k) - 1 +
  IF Idle(k) THEN Body + End + sender[k].gap
  ELSE (Body - sender[k].body) + (End - sender[k].end)

\* Only the newest burst is under way, and no less time has passed since it
\* began.
ClockInv ==
  \A k \in Senders :
    bursts # <<>> /\ Newest.by = k =>
      /\ Idle(Other(k))
      /\ Newest.ts + Spent(k) <= now
      /\ ~Idle(k) =>
           /\ sender[k].current.burst = Len(bursts)
           /\ Newest.reports = 1 /\ sender[k].body > 0
                => receiver.event = Newest.digit /\ receiver.ts = Newest.ts

\* A burst is reported once, and is if it was heard and no packet of it was old.
Reported(x) == x.reports \in 0 .. 1 /\ (x.heard /\ ~x.stale => x.reports = 1)

ReportsInv == \A i \in 1 .. Len(bursts) : Reported(bursts[i])

InTurn == RememberInv /\ ApartInv /\ ClockInv /\ ReportsInv

BurstInv == ~crossed => InTurn

\* What a packet that arrives does to the history.
LEMMA FeedEffect ==
  ASSUME TypeOK, NEW b \in 1 .. Len(bursts), NEW end \in BOOLEAN, Feed(b, end)
  PROVE  /\ Len(bursts') = Len(bursts)
         /\ \A i \in 1 .. Len(bursts) : i # b => bursts'[i] = bursts[i]
         /\ bursts'[b].digit = bursts[b].digit
         /\ bursts'[b].ts = bursts[b].ts
         /\ bursts'[b].by = bursts[b].by
         /\ bursts'[b].heard <=> bursts[b].heard \/ ~end
         /\ bursts'[b].stale <=> bursts[b].stale \/ ~Advanced(outSn)
         /\ bursts'[b].reports = IF Reports(b, end) THEN bursts[b].reports + 1
                                 ELSE bursts[b].reports
<1> DEFINE x == Noted(bursts[b], end, Reports(b, end))
<1>1. bursts[b] \in Burst
  BY DEF TypeOK
<1>2. x.digit = bursts[b].digit /\ x.ts = bursts[b].ts /\ x.by = bursts[b].by
  BY <1>1 DEF Noted, Burst
<1>3. x.heard <=> bursts[b].heard \/ ~end
  BY <1>1, Zenon DEF Noted, Burst
<1>4. x.reports = IF Reports(b, end) THEN bursts[b].reports + 1 ELSE bursts[b].reports
  BY <1>1 DEF Noted, Burst
<1>7. x.stale <=> bursts[b].stale \/ ~Advanced(outSn)
  <2>1. HalfGone <=> ~Advanced(outSn)
    BY DEF HalfGone, Advanced
  <2>2. x.stale <=> bursts[b].stale \/ HalfGone
    BY <1>1, Zenon DEF Noted, Burst
  <2> QED
    BY <2>1, <2>2
<1>5. bursts' = [bursts EXCEPT ![b] = x]
  BY DEF Feed
<1> HIDE DEF x
<1>6. /\ Len(bursts') = Len(bursts) /\ bursts'[b] = x
      /\ \A i \in 1 .. Len(bursts) : i # b => bursts'[i] = bursts[i]
  BY <1>5 DEF TypeOK
<1> QED
  BY <1>2, <1>3, <1>4, <1>6, <1>7

\* A burst under way is the newest, and the other sender has none.
LEMMA OwnBurst ==
  ASSUME TypeInv, ClockInv, NEW k \in Senders, ~Idle(k)
  PROVE  /\ Len(bursts) \in Nat \ {0}
         /\ bursts # <<>>
         /\ Newest \in Burst
         /\ Newest.by = k
         /\ sender[k].current.burst = Len(bursts)
<1>1. Len(bursts) \in Nat \ {0} /\ bursts # <<>>
  BY DEF TypeInv, TypeOK, CurrentInv
<1>2. Newest \in Burst
  BY <1>1 DEF TypeInv, TypeOK, Newest
<1>3. Newest.by \in Senders
  BY <1>2 DEF Burst
<1>4. Newest.by = k
  <2> SUFFICES ASSUME Newest.by = Other(k) PROVE FALSE
    BY <1>3 DEF Senders, Other
  <2>1. Other(k) \in Senders /\ Other(Other(k)) = k
    BY DEF Senders, Other
  <2>2. Idle(k)
    BY <1>1, <2>1 DEF ClockInv
  <2> QED
    BY <2>2
<1> QED
  BY <1>1, <1>2, <1>4 DEF ClockInv

\* Once called, a sender is late no more; and no other becomes late.
LEMMA LateFalls ==
  ASSUME NEW k \in Senders, step = k, CallEnds(k)
  PROVE  /\ Late(k) = 1
         /\ Late(k)' = 0
         /\ \A j \in Senders : Late(j)' <= Late(j)
BY DEF Late, CallEnds, Senders

LEMMA NewestTypes ==
  ASSUME TypeInv, bursts # <<>>
  PROVE  /\ Len(bursts) \in Nat \ {0}
         /\ Newest \in Burst
         /\ Newest.ts \in Nat
         /\ Newest.by \in Senders
<1>1. bursts \in Seq(Burst)
  BY DEF TypeInv, TypeOK
<1>2. Len(bursts) \in Nat \ {0}
  BY <1>1
<1>3. Newest \in Burst
  BY <1>1, <1>2 DEF Newest
<1> QED
  BY <1>2, <1>3 DEF Burst

LEMMA SpentTypes ==
  ASSUME TypeInv, NEW k \in Senders
  PROVE  Spent(k) \in Int
<1>1. /\ Body \in Nat /\ End \in Nat
      /\ sender[k].gap \in Nat /\ sender[k].body \in Nat /\ sender[k].end \in Nat
  BY SenderFields, DtmfAssumption DEF TypeInv, TypeOK
<1> QED
  BY <1>1 DEF Spent, Late

\* A step that sends nothing uses no more time than it lets pass.
LEMMA SpentKept ==
  ASSUME TypeInv, NEW k \in Senders, now' \in Nat,
         sender'[k].current = sender[k].current,
         sender'[k].body = sender[k].body,
         sender'[k].end = sender[k].end,
         sender'[k].gap \in Nat,
         sender'[k].gap + Late(k)' + now <= sender[k].gap + Late(k) + now',
         Late(k)' + now <= Late(k) + now'
  PROVE  Spent(k)' \in Int /\ Spent(k)' + now <= Spent(k) + now'
<1>1. /\ Body \in Nat /\ End \in Nat /\ now \in Nat
      /\ sender[k].gap \in Nat /\ sender[k].body \in Nat /\ sender[k].end \in Nat
  BY SenderFields, DtmfAssumption DEF TypeInv, TypeOK
<1>2. Late(k) \in Nat /\ Late(k)' \in Nat
  BY DEF Late
<1>3. CASE Idle(k)
  <2>1. Idle(k)'
    BY <1>3 DEF Idle
  <2>2. /\ Spent(k) = Late(k) - 1 + (Body + End + sender[k].gap)
        /\ Spent(k)' = Late(k)' - 1 + (Body + End + sender'[k].gap)
    BY <1>3, <2>1 DEF Spent
  <2> QED
    BY <1>1, <1>2, <2>2
<1>4. CASE ~Idle(k)
  <2>1. ~Idle(k)'
    BY <1>4 DEF Idle
  <2>2. /\ Spent(k) = Late(k) - 1 + ((Body - sender[k].body) + (End - sender[k].end))
        /\ Spent(k)' = Late(k)' - 1 + ((Body - sender[k].body) + (End - sender[k].end))
    BY <1>4, <2>1 DEF Spent
  <2> QED
    BY <1>1, <1>2, <2>2
<1> QED
  BY <1>3, <1>4

\* The invariant is kept when bursts and receiver stay, and time makes up for
\* what is spent.
LEMMA Unhurried ==
  ASSUME TypeInv, InTurn, now' \in Nat, bursts' = bursts,
         receiver'.event = receiver.event, receiver'.ts = receiver.ts,
         \A k \in Senders :
           /\ sender'[k].current = sender[k].current
           /\ sender'[k].body = sender[k].body
           /\ Spent(k)' \in Int
           /\ Spent(k)' + now <= Spent(k) + now'
  PROVE  InTurn'
<1>1. RememberInv' /\ ApartInv' /\ ReportsInv'
  BY DEF InTurn, RememberInv, ApartInv, ReportsInv, Newest
<1>2. ClockInv'
  <2> SUFFICES ASSUME NEW k \in Senders, bursts # <<>>, Newest.by = k
               PROVE  /\ Idle(Other(k))'
                      /\ Newest.ts + Spent(k)' <= now'
                      /\ ~Idle(k)' =>
                           /\ sender'[k].current.burst = Len(bursts)
                           /\ Newest.reports = 1 /\ sender'[k].body > 0
                                => receiver'.event = Newest.digit /\ receiver'.ts = Newest.ts
    BY DEF ClockInv, Newest
  <2>1. Other(k) \in Senders
    BY DEF Other, Senders
  <2>2. Newest.ts + Spent(k)' <= now'
    <3>1. /\ Newest.ts \in Nat /\ now \in Nat /\ Spent(k) \in Int
          /\ Newest.ts + Spent(k) <= now
      BY NewestTypes, SpentTypes DEF InTurn, ClockInv, TypeInv, TypeOK
    <3> QED
      BY <3>1
  <2>3. Idle(Other(k))' /\ (Idle(k)' <=> Idle(k))
    BY <2>1 DEF InTurn, ClockInv, Idle
  <2> QED
    BY <2>2, <2>3 DEF InTurn, ClockInv
<1> QED
  BY <1>1, <1>2 DEF InTurn

LEMMA RestInTurn ==
  ASSUME TypeInv, InTurn, NEW k \in Senders, Rest(k)
  PROVE  InTurn'
<1>1. /\ now' = now /\ now \in Nat /\ bursts' = bursts /\ receiver' = receiver
      /\ step = k /\ CallEnds(k)
  BY DEF Rest, TypeInv, TypeOK
<1>2. ASSUME NEW j \in Senders
      PROVE  /\ sender'[j].current = sender[j].current
             /\ sender'[j].body = sender[j].body
             /\ sender'[j].end = sender[j].end
             /\ sender'[j].gap \in Nat
             /\ sender'[j].gap + Late(j)' <= sender[j].gap + Late(j)
             /\ Late(j)' <= Late(j)
  <2>1. /\ sender[j].gap \in Nat /\ Rested(j) \in Nat /\ Gap \in Nat
        /\ Late(j) \in Nat /\ Late(j)' \in Nat /\ Late(j)' <= Late(j)
    BY <1>1, SenderFields, DtmfAssumption, LateFalls DEF TypeInv, Late
  <2>2. CASE j = k
    <3>1. Late(k) = 1 /\ Late(k)' = 0
      BY <1>1, LateFalls
    <3>2. Rested(k) <= sender[k].gap + 1
      BY <2>1, <2>2 DEF Rested
    <3>3. /\ sender'[k].current = sender[k].current
          /\ sender'[k].body = sender[k].body
          /\ sender'[k].end = sender[k].end
          /\ sender'[k].gap = Rested(k)
      BY RestEffect DEF TypeInv
    <3> QED
      BY <2>1, <2>2, <3>1, <3>2, <3>3
  <2>3. CASE j # k
    <3>1. sender'[j] = sender[j]
      BY <2>3, RestEffect DEF TypeInv
    <3> QED
      BY <2>1, <3>1
  <2> QED
    BY <2>2, <2>3
<1>3. ASSUME NEW j \in Senders
      PROVE  Spent(j)' \in Int /\ Spent(j)' + now <= Spent(j) + now'
  <2>1. /\ sender[j].gap \in Nat /\ sender'[j].gap \in Nat
        /\ Late(j) \in Nat /\ Late(j)' \in Nat
    BY <1>2, SenderFields, DtmfAssumption DEF TypeInv, Late
  <2>2. /\ sender'[j].gap + Late(j)' + now <= sender[j].gap + Late(j) + now'
        /\ Late(j)' + now <= Late(j) + now'
    BY <1>1, <1>2, <2>1
  <2> QED
    BY <1>1, <1>2, <2>2, SpentKept
<1> QED
  BY <1>1, <1>2, <1>3, Unhurried

\* Ticks and commands.
LEMMA OthersInTurn ==
  ASSUME TypeInv, InTurn, now' \in Nat, bursts' = bursts, receiver' = receiver,
         \/ step' = step /\ now' = now
         \/ now' = now + 1,
         \A j \in Senders :
           /\ sender'[j].current = sender[j].current
           /\ sender'[j].body = sender[j].body
           /\ sender'[j].end = sender[j].end
           /\ sender'[j].gap = sender[j].gap
  PROVE  InTurn'
<1>1. ASSUME NEW j \in Senders
      PROVE  Spent(j)' \in Int /\ Spent(j)' + now <= Spent(j) + now'
  <2>1. now \in Nat /\ sender[j].gap \in Nat
    BY SenderFields, DtmfAssumption DEF TypeInv, TypeOK
  <2>2. /\ Late(j) \in 0 .. 1 /\ Late(j)' \in 0 .. 1
        /\ step' = step => Late(j)' = Late(j)
    BY DEF Late
  <2>3. Late(j)' + now <= Late(j) + now'
    BY <2>1, <2>2
  <2>4. sender'[j].gap + Late(j)' + now <= sender[j].gap + Late(j) + now'
    BY <2>1, <2>2, <2>3
  <2> QED
    BY <2>1, <2>3, <2>4, SpentKept
<1> QED
  BY <1>1, Unhurried

LEMMA BeginInTurn ==
  ASSUME TypeInv, InTurn, NEW k \in Senders, Begin(k), ~crossed'
  PROVE  InTurn'
<1> DEFINE digit == Head(sender[k].queue)
           burst == [digit |-> digit, ts |-> now, by |-> k, heard |-> FALSE, stale |-> FALSE, reports |-> 0]
<1>1. /\ now' = now /\ now \in Nat /\ receiver' = receiver /\ step = k /\ step' = step
      /\ bursts' = Append(bursts, burst) /\ bursts \in Seq(Burst)
      /\ Idle(Other(k)) /\ Ready(k) /\ ~(sender[Other(k)].gap < Gap)
  BY DEF Begin, TypeInv, TypeOK
<1>2. digit \in Digits
  BY <1>1, SenderFields DEF Ready, TypeInv
<1>3. burst \in Burst
  BY <1>1, <1>2 DEF Burst
<1>4. burst.ts = now /\ burst.by = k /\ burst.reports = 0 /\ Reported(burst)
  BY DEF Reported
<1> HIDE DEF burst
<1>5. /\ Len(bursts) \in Nat
      /\ Len(bursts') = Len(bursts) + 1
      /\ bursts'[Len(bursts) + 1] = burst
      /\ \A i \in 1 .. Len(bursts) : bursts'[i] = bursts[i]
  BY <1>1, <1>3
<1>6. Newest' = burst /\ bursts' # <<>>
  BY <1>5 DEF Newest
<1>7. /\ Body \in Nat /\ End \in Nat /\ Gap \in Nat /\ NewBurst \in Nat
      /\ NewBurst <= Body + End + Gap - 1
  BY DtmfAssumption
<1>8. bursts # <<>> => Newest.ts + NewBurst <= now
  <2> SUFFICES ASSUME bursts # <<>> PROVE Newest.ts + NewBurst <= now
    OBVIOUS
  <2> DEFINE o == Newest.by
  <2>1. o \in Senders /\ Newest.ts \in Nat
    BY NewestTypes
  <2>2. Newest.ts + Spent(o) <= now
    BY <2>1 DEF InTurn, ClockInv
  <2>3. sender[o].gap \in 0 .. Gap
    BY <2>1, SenderFields DEF TypeInv
  <2>4. Idle(o)
    <3>1. o = k \/ o = Other(k)
      BY <2>1 DEF Senders, Other
    <3> QED
      BY <1>1, <3>1 DEF Ready
  <2>5. Late(o) + sender[o].gap >= Gap
    <3>1. CASE o = k
      <4>1. Late(o) = 1
        BY <1>1, <3>1 DEF Late
      <4>2. Rested(o) = Gap
        BY <1>1, <3>1 DEF Ready
      <4> QED
        BY <1>7, <2>3, <4>1, <4>2 DEF Rested
    <3>2. CASE o = Other(k)
      <4>1. Late(o) \in 0 .. 1
        BY DEF Late
      <4>2. sender[o].gap = Gap
        BY <1>1, <1>7, <2>3, <3>2
      <4> QED
        BY <1>7, <4>1, <4>2
    <3> QED
      BY <2>1, <3>1, <3>2 DEF Senders, Other
  <2>6. Spent(o) = Late(o) - 1 + (Body + End + sender[o].gap)
    BY <2>4 DEF Spent
  <2>7. Late(o) \in Nat /\ sender[o].gap \in Nat
    BY <1>7, <2>3 DEF Late
  <2>8. Spent(o) \in Int /\ Spent(o) >= Body + End + Gap - 1
    BY <1>7, <2>5, <2>6, <2>7
  <2>9. Spent(o) >= NewBurst
    BY <1>7, <2>8
  <2> QED
    BY <1>1, <1>7, <2>1, <2>2, <2>8, <2>9
<1>9. RememberInv'
  BY <1>1, <1>5 DEF InTurn, RememberInv
<1>10. ApartInv'
  <2> SUFFICES ASSUME NEW i \in 1 .. Len(bursts)
               PROVE  bursts[i].ts + NewBurst <= now
    BY <1>4, <1>5, <1>6 DEF ApartInv
  <2>1. bursts # <<>> /\ bursts[i] \in Burst
    BY <1>1
  <2>2. /\ Newest.ts \in Nat /\ bursts[i].ts \in Nat /\ Newest.ts + NewBurst <= now
    BY <1>8, <2>1, NewestTypes DEF Burst
  <2>3. CASE i = Len(bursts)
    BY <2>2, <2>3 DEF Newest
  <2>4. CASE i # Len(bursts)
    <3>1. bursts[i].ts + NewBurst <= Newest.ts
      BY <1>5, <2>4 DEF InTurn, ApartInv
    <3> QED
      BY <1>1, <1>7, <2>2, <3>1
  <2> QED
    BY <2>3, <2>4
<1>11. ClockInv'
  <2> SUFFICES ASSUME NEW j \in Senders, j = k
               PROVE  /\ Idle(Other(k))'
                      /\ now + Spent(k)' <= now
                      /\ sender'[k].current.burst = Len(bursts) + 1
    BY <1>1, <1>4, <1>5, <1>6 DEF ClockInv
  <2>1. /\ sender'[k].current.burst = Len(bursts) + 1 /\ sender'[k].current # None
        /\ sender'[k].body = Body /\ sender'[k].end = End
        /\ sender'[Other(k)] = sender[Other(k)]
    BY BeginEffect DEF TypeInv, Other, Senders
  <2>2. Late(k)' = 1
    BY <1>1 DEF Late
  <2>3. Spent(k)' = 0
    BY <1>7, <2>1, <2>2 DEF Spent, Idle
  <2> QED
    BY <1>1, <2>1, <2>3 DEF Idle
<1>12. ReportsInv'
  <2> SUFFICES ASSUME NEW i \in 1 .. Len(bursts) + 1
               PROVE  Reported(bursts'[i])
    BY <1>5 DEF ReportsInv
  <2>1. CASE i = Len(bursts) + 1
    BY <1>4, <1>5, <2>1
  <2>2. CASE i # Len(bursts) + 1
    BY <1>5, <2>2 DEF InTurn, ReportsInv
  <2> QED
    BY <2>1, <2>2
<1> QED
  BY <1>9, <1>10, <1>11, <1>12 DEF InTurn

\* A packet of a burst under way that arrives, and is not taken for an old one, is
\* reported if the burst was not, and the receiver remembers the burst then.
LEMMA FedBody ==
  ASSUME TypeInv, InTurn, NEW k \in Senders, ~Idle(k),
         sender[k].body > 0, Feed(Len(bursts), FALSE), Advanced(outSn)
  PROVE  /\ receiver'.event = Newest.digit
         /\ receiver'.ts = Newest.ts
         /\ Reports(Len(bursts), FALSE) <=> Newest.reports # 1
<1> DEFINE b == Len(bursts)
<1>1. /\ b \in Nat \ {0} /\ Newest \in Burst /\ Newest.by = k /\ Newest = bursts[b]
      /\ bursts # <<>> /\ receiver \in Receiver
  BY OwnBurst DEF InTurn, Newest, TypeInv, TypeOK
<1>2. /\ Newest.digit \in Digits /\ Newest.ts \in Nat /\ Newest.digit # None
      /\ Newest.ts # None
  BY <1>1, DtmfAssumption DEF Burst
<1>4. Reports(b, FALSE) <=> ~SameBurst(Newest.digit, Newest.ts)
  BY <1>1 DEF Reports, Stamp
<1>5. CASE Newest.reports = 1
  <2>1. receiver.event = Newest.digit /\ receiver.ts = Newest.ts
    BY <1>1, <1>5 DEF InTurn, ClockInv
  <2>2. ~BigGap(Newest.ts)
    BY <1>2, <2>1, DtmfAssumption DEF BigGap
  <2>3. ~Reports(b, FALSE)
    BY <1>4, <2>1, <2>2 DEF SameBurst
  <2>4. receiver' = [receiver EXCEPT !.sn = outSn]
    BY <2>3 DEF Feed
  <2> QED
    BY <1>1, <1>5, <2>1, <2>3, <2>4 DEF Receiver
<1>6. CASE Newest.reports # 1
  <2>1. ~SameBurst(Newest.digit, Newest.ts)
    <3> SUFFICES ASSUME receiver.event = Newest.digit PROVE BigGap(Newest.ts)
      BY DEF SameBurst
    <3>1. /\ receiver.ts # None
          /\ \E i \in 1 .. b : bursts[i].reports = 1 /\ receiver.ts = bursts[i].ts
      BY <1>2 DEF InTurn, RememberInv
    <3>2. PICK i \in 1 .. b : bursts[i].reports = 1 /\ receiver.ts = bursts[i].ts
      BY <3>1
    <3>3. i \in 1 .. b - 1
      BY <1>1, <1>6, <3>2
    <3>4. bursts[i].ts + NewBurst <= Newest.ts
      BY <3>3 DEF InTurn, ApartInv
    <3>5. receiver.ts \in Nat /\ NewBurst \in Nat
      BY <1>1, <3>1, DtmfAssumption DEF Receiver
    <3> QED
      BY <1>2, <3>1, <3>2, <3>4, <3>5 DEF BigGap
  <2>2. Reports(b, FALSE)
    BY <1>4, <2>1
  <2>3. receiver' = [sn |-> outSn, event |-> bursts[b].digit, ts |-> Stamp(b)]
    BY <2>2 DEF Feed
  <2> QED
    BY <1>1, <1>6, <2>2, <2>3 DEF Stamp
<1> QED
  BY <1>5, <1>6

\* Neither a packet that arrives nor one that does not disturbs the invariant.
LEMMA PacketInTurn ==
  ASSUME TypeInv, InTurn, NEW k \in Senders, NEW end \in BOOLEAN,
         ~Idle(k), Sent(sender[k].current.burst, end),
         ~end => sender[k].body > 0,
         now' = now,
         sender'[Other(k)] = sender[Other(k)],
         ~Idle(k)' => /\ sender'[k].current = sender[k].current
                      /\ sender'[k].body > 0 => ~end,
         Spent(k)' = Spent(k)
  PROVE  InTurn'
<1> DEFINE b == Len(bursts)
<1>1. /\ b \in Nat \ {0} /\ Newest \in Burst /\ Newest.by = k /\ Newest = bursts[b]
      /\ bursts # <<>> /\ sender[k].current.burst = b
  BY OwnBurst DEF InTurn, Newest
<1>2. /\ Idle(Other(k))' /\ Newest.ts + Spent(k)' <= now'
      /\ ~Idle(k)' => sender'[k].current.burst = b
  BY <1>1 DEF InTurn, ClockInv, Idle
<1>3. CASE Feed(b, end)
  <2>1. /\ Len(bursts') = b
        /\ \A i \in 1 .. b : i # b => bursts'[i] = bursts[i]
        /\ bursts'[b].digit = bursts[b].digit
        /\ bursts'[b].ts = bursts[b].ts
        /\ bursts'[b].by = bursts[b].by
        /\ bursts'[b].heard <=> bursts[b].heard \/ ~end
        /\ bursts'[b].stale <=> bursts[b].stale \/ ~Advanced(outSn)
        /\ bursts'[b].reports = IF Reports(b, end) THEN bursts[b].reports + 1
                                ELSE bursts[b].reports
    BY <1>1, <1>3, FeedEffect DEF TypeInv
  <2>2. /\ Newest' = bursts'[b]
        /\ \A i \in 1 .. b : bursts'[i].ts = bursts[i].ts
    BY <2>1 DEF Newest
  <2>3. ApartInv'
    BY <1>1, <2>1, <2>2 DEF InTurn, ApartInv
  <2>6. \A i \in 1 .. b : Reported(bursts[i])
    BY DEF InTurn, ReportsInv
  <2>7. ASSUME Reported(bursts'[b])
        PROVE  ReportsInv'
    BY <1>1, <2>1, <2>6, <2>7 DEF ReportsInv
  <2>4. CASE ~end /\ Advanced(outSn)
    <3>1. /\ receiver'.event = Newest.digit /\ receiver'.ts = Newest.ts
          /\ Reports(b, end) <=> Newest.reports # 1
      BY <1>3, <2>4, FedBody
    <3>2. Newest.ts # None /\ Newest.reports \in 0 .. 1
      BY <1>1, <2>6, DtmfAssumption DEF Burst, Reported
    <3>3. bursts'[b].reports = 1
      BY <1>1, <2>1, <3>1, <3>2
    <3>4. RememberInv'
      BY <1>1, <2>1, <2>2, <3>1, <3>2, <3>3 DEF RememberInv
    <3>5. ClockInv'
      BY <1>1, <1>2, <2>1, <2>2, <3>1 DEF ClockInv
    <3>6. ReportsInv'
      BY <2>7, <3>3 DEF Reported
    <3> QED
      BY <2>3, <3>4, <3>5, <3>6 DEF InTurn
  <2>5. CASE end \/ ~Advanced(outSn)
    <3>1. ~Reports(b, end)
      BY <2>5 DEF Reports
    <3>2. \A i \in 1 .. b : bursts'[i].reports = bursts[i].reports
      BY <1>1, <2>1, <3>1
    <3>3. receiver' = receiver \/ receiver'.event = None
      BY <1>3, <2>5 DEF Feed
    <3>4. RememberInv'
      BY <2>1, <2>2, <3>2, <3>3 DEF InTurn, RememberInv
    <3>5. ~Idle(k)' /\ sender'[k].body > 0 => receiver' = receiver /\ ~end
      BY <1>3, <2>5 DEF Feed
    <3>6. ~Idle(k)' /\ sender'[k].body > 0 /\ Newest.reports = 1
            => receiver'.event = Newest.digit /\ receiver'.ts = Newest.ts
      BY <1>1, <3>5 DEF InTurn, ClockInv
    <3>7. Newest'.by = Newest.by /\ Newest'.ts = Newest.ts /\ Newest'.digit = Newest.digit /\ Newest'.reports = Newest.reports
      BY <1>1, <2>1, <2>2, <3>2
    <3>8. ClockInv'
      BY <1>1, <1>2, <2>1, <3>6, <3>7 DEF ClockInv
    <3>9. Reported(bursts'[b])
      BY <1>1, <2>1, <2>5, <2>6, <3>2 DEF Reported
    <3>10. ReportsInv'
      BY <2>7, <3>9
    <3> QED
      BY <2>3, <3>4, <3>8, <3>10 DEF InTurn
  <2> QED
    BY <2>4, <2>5
<1>4. CASE UNCHANGED <<receiver, bursts>>
  <2>1. RememberInv' /\ ApartInv' /\ ReportsInv'
    BY <1>4 DEF InTurn, RememberInv, ApartInv, ReportsInv, Newest
  <2>2. ~Idle(k)' /\ sender'[k].body > 0 /\ Newest.reports = 1
          => receiver.event = Newest.digit /\ receiver.ts = Newest.ts
    BY <1>1 DEF InTurn, ClockInv
  <2>3. ClockInv'
    BY <1>1, <1>2, <1>4, <2>2 DEF ClockInv, Newest
  <2> QED
    BY <2>1, <2>3 DEF InTurn
<1> QED
  BY <1>1, <1>3, <1>4 DEF Sent

LEMMA BodyInTurn ==
  ASSUME TypeInv, InTurn, NEW k \in Senders, SendBody(k)
  PROVE  InTurn'
<1>1. /\ step = k /\ ~Idle(k) /\ sender[k].body > 0 /\ CallEnds(k) /\ now' = now
      /\ Sent(sender[k].current.burst, FALSE)
  BY DEF SendBody
<1>2. /\ sender'[k].current = sender[k].current
      /\ sender'[k].body = sender[k].body - 1
      /\ sender'[k].end = sender[k].end
      /\ sender'[Other(k)] = sender[Other(k)]
  BY BodyEffect DEF TypeInv, Other, Senders
<1>3. Spent(k)' = Spent(k)
  <2>1. /\ Late(k) = 1 /\ Late(k)' = 0 /\ ~Idle(k)'
        /\ Body \in Nat /\ End \in Nat /\ sender[k].body \in Nat /\ sender[k].end \in Nat
    BY <1>1, <1>2, LateFalls, SenderFields, DtmfAssumption DEF Idle, TypeInv
  <2>2. /\ Spent(k) = 1 - 1 + ((Body - sender[k].body) + (End - sender[k].end))
        /\ Spent(k)' = 0 - 1 + ((Body - (sender[k].body - 1)) + (End - sender[k].end))
    BY <1>1, <1>2, <2>1 DEF Spent
  <2> QED
    BY <2>1, <2>2
<1> QED
  BY <1>1, <1>2, <1>3, PacketInTurn

LEMMA EndInTurn ==
  ASSUME TypeInv, InTurn, NEW k \in Senders, SendEnd(k)
  PROVE  InTurn'
<1>1. /\ step = k /\ ~Idle(k) /\ sender[k].body = 0 /\ CallEnds(k) /\ now' = now
      /\ Sent(sender[k].current.burst, TRUE)
  BY DEF SendEnd
<1>2. /\ sender[k].end = 1 => sender'[k].current = None /\ sender'[k].gap = 0
      /\ sender[k].end # 1 => /\ sender'[k].current = sender[k].current
                              /\ sender'[k].body = sender[k].body
                              /\ sender'[k].end = sender[k].end - 1
      /\ sender'[Other(k)] = sender[Other(k)]
  BY EndEffect DEF TypeInv, Other, Senders
<1>3. /\ Late(k) = 1 /\ Late(k)' = 0
      /\ Body \in Nat /\ End \in Nat /\ sender[k].body \in Nat /\ sender[k].end \in Nat
  BY <1>1, LateFalls, SenderFields, DtmfAssumption DEF TypeInv
<1>4. Spent(k) = 1 - 1 + ((Body - 0) + (End - sender[k].end))
  BY <1>1, <1>3 DEF Spent
<1>5. CASE sender[k].end = 1
  <2>1. Idle(k)'
    BY <1>2, <1>5 DEF Idle
  <2>2. Spent(k)' = 0 - 1 + (Body + End + 0)
    BY <1>2, <1>3, <1>5, <2>1 DEF Spent
  <2>3. Spent(k)' = Spent(k)
    BY <1>3, <1>4, <1>5, <2>2
  <2> QED
    BY <1>1, <1>2, <2>1, <2>3, PacketInTurn
<1>6. CASE sender[k].end # 1
  <2>1. ~Idle(k)'
    BY <1>1, <1>2, <1>6 DEF Idle
  <2>2. Spent(k)' = 0 - 1 + ((Body - 0) + (End - (sender[k].end - 1)))
    BY <1>1, <1>2, <1>3, <1>6, <2>1 DEF Spent
  <2>3. Spent(k)' = Spent(k)
    BY <1>3, <1>4, <2>2
  <2>4. sender'[k].current = sender[k].current /\ ~(sender'[k].body > 0)
    BY <1>1, <1>2, <1>6
  <2> QED
    BY <1>1, <1>2, <2>3, <2>4, PacketInTurn
<1> QED
  BY <1>5, <1>6

LEMMA BurstStep == TypeInv /\ BurstInv /\ [Next]_vars => BurstInv'
<1> SUFFICES ASSUME TypeInv, [Next]_vars, ~crossed => InTurn, ~crossed'
             PROVE  InTurn'
  BY DEF BurstInv
<1>1. ASSUME NEW k \in Senders, Rest(k) PROVE InTurn'
  BY <1>1, RestInTurn DEF Rest
<1>2. ASSUME NEW k \in Senders, Begin(k) PROVE InTurn'
  BY <1>2, BeginInTurn DEF Begin
<1>3. ASSUME NEW k \in Senders, SendBody(k) PROVE InTurn'
  BY <1>3, BodyInTurn DEF SendBody
<1>4. ASSUME NEW k \in Senders, SendEnd(k) PROVE InTurn'
  BY <1>4, EndInTurn DEF SendEnd
<1>5. ASSUME NEW k \in Senders, NEW digit \in Digits, Enqueue(k, digit) PROVE InTurn'
  <2>1. /\ \A j \in Senders : /\ sender'[j].current = sender[j].current
                              /\ sender'[j].body = sender[j].body
                              /\ sender'[j].end = sender[j].end
                              /\ sender'[j].gap = sender[j].gap
    BY <1>5, EnqueueEffect DEF TypeInv
  <2>2. /\ now' = now /\ now' \in Nat /\ step' = step /\ ~crossed
        /\ bursts' = bursts /\ receiver' = receiver
    BY <1>5 DEF Enqueue, TypeInv, TypeOK
  <2> QED
    BY <2>1, <2>2, OthersInTurn
<1>6. CASE Tick \/ Hold \/ Move \/ UNCHANGED vars
  <2>1. /\ sender' = sender /\ bursts' = bursts /\ receiver' = receiver /\ ~crossed
        /\ \/ step' = step /\ now' = now
           \/ now' = now + 1
    BY <1>6 DEF Tick, Hold, Move, vars, channel
  <2>2. now' \in Nat
    BY <2>1 DEF TypeInv, TypeOK
  <2> QED
    BY <2>1, <2>2, OthersInTurn
<1> QED
  BY <1>1, <1>2, <1>3, <1>4, <1>5, <1>6 DEF Next, Dial, Relay, Senders

LEMMA BurstsAlways == Spec => []BurstInv
<1>1. Init => BurstInv
  <2> SUFFICES ASSUME Init PROVE BurstInv
    OBVIOUS
  <2>1. receiver.sn = None /\ receiver.event = None /\ bursts = <<>> /\ Len(bursts) = 0
    BY DEF Init, NewReceiver
  <2> QED
    BY <2>1 DEF BurstInv, InTurn, RememberInv, ApartInv, ClockInv, ReportsInv
<1> QED
  BY <1>1, BurstStep, TypesAlways, PTL DEF Spec

\* However long bursts and gaps are and whatever is lost, a press is reported at
\* most once, unless it crossed one of the other sender.
THEOREM OncePerPressHolds == Spec => []OncePerPress
<1>1. BurstInv => OncePerPress
  BY DEF BurstInv, InTurn, ReportsInv, Reported, OncePerPress
<1> QED
  BY <1>1, BurstsAlways, PTL

\* And it is reported, if anything but end packets of it arrives, also when the same
\* digit came before and all of its ends were lost; except that it may be passed over
\* if one of its packets came when half of the sequence numbers had gone by since the
\* last that the receiver took.
THEOREM NoneMissedHolds == Spec => []NoneMissed
<1>1. BurstInv => NoneMissed
  BY DEF BurstInv, InTurn, ReportsInv, Reported, NoneMissed
<1> QED
  BY <1>1, BurstsAlways, PTL
=============================================================================
