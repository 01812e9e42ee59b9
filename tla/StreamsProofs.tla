--------------------------- MODULE StreamsProofs ---------------------------
(***************************************************************************)
(* Proofs about what streams through a channel: between JavaScript and it, *)
(* Readers and then Writers, for any numbers of streams, ticks and samples,*)
(* any frames and any places in the queues; and from the files of a sound  *)
(* soup, Soup, for any files, trims, loops, frames and reads.              *)
(***************************************************************************)
EXTENDS Readers, Writers, Soup, WellFoundedInduction, TLAPS

LEMMA ConstantsAreTyped ==
  /\ MaxReaders \in Nat /\ MaxTicks \in Nat
  /\ FrameDepth \in Nat \ {0} /\ CmdDepth \in Nat \ {0}
  BY ReadersAssumption DEF ReadersAssumption

LEMMA AppendFacts ==
  ASSUME NEW S, NEW s \in Seq(S), NEW e \in S
  PROVE  /\ Append(s, e) \in Seq(S)
         /\ Len(Append(s, e)) = Len(s) + 1
         /\ \A i \in 1 .. Len(s) : Append(s, e)[i] = s[i]
         /\ Append(s, e)[Len(s) + 1] = e
  OBVIOUS

LEMMA TailFacts ==
  ASSUME NEW S, NEW s \in Seq(S), s # <<>>
  PROVE  /\ Tail(s) \in Seq(S)
         /\ Len(s) \in Nat \ {0}
         /\ Len(Tail(s)) = Len(s) - 1
         /\ Head(s) \in S /\ Head(s) = s[1]
         /\ \A i \in 1 .. Len(Tail(s)) : Tail(s)[i] = s[i + 1] /\ i + 1 \in 1 .. Len(s)
  OBVIOUS

-----------------------------------------------------------------------------
(* Types. *)

LEMMA TrySendTyped ==
  ASSUME ReadersTypeOK, NEW cmd \in Command(Reader), TrySend(cmd)
  PROVE  cmds' \in Seq(Command(Reader)) /\ Len(cmds') <= CmdDepth
<1>1. CASE Accepts
  <2>1. cmds' = Append(cmds, cmd) /\ Len(cmds) < CmdDepth
    BY <1>1 DEF TrySend, Accepts
  <2> QED
    BY <2>1, AppendFacts, ConstantsAreTyped DEF ReadersTypeOK
<1>2. CASE ~Accepts
  BY <1>2 DEF TrySend, ReadersTypeOK
<1> QED
  BY <1>1, <1>2

\* The command that the task takes.
LEMMA TakeFacts ==
  ASSUME ReadersTypeOK, NEW op \in {"create", "destroy", "close"}, Take(op)
  PROVE  /\ open /\ cmds # <<>> /\ cmds' = Tail(cmds) /\ cmds' \in Seq(Command(Reader))
         /\ Len(cmds') <= CmdDepth
         /\ Head(cmds) \in Command(Reader) /\ Head(cmds).op = op
         /\ op # "close" => Head(cmds).id \in Reader /\ Head(cmds) = [op |-> op, id |-> Head(cmds).id]
<1>1. cmds \in Seq(Command(Reader)) /\ cmds # <<>> /\ Head(cmds).op = op /\ cmds' = Tail(cmds) /\ open
  BY DEF Take, ReadersTypeOK
<1>2. Tail(cmds) \in Seq(Command(Reader)) /\ Len(Tail(cmds)) = Len(cmds) - 1 /\ Len(cmds) \in Nat
  BY <1>1, TailFacts
<1>3. Head(cmds) \in Command(Reader)
  BY <1>1, TailFacts
<1>4. op # "close" => Head(cmds).id \in Reader /\ Head(cmds) = [op |-> op, id |-> Head(cmds).id]
  BY <1>1, <1>3 DEF Command
<1> QED
  BY <1>1, <1>2, <1>3, <1>4, ConstantsAreTyped DEF ReadersTypeOK

\* A reader has not dropped more frames than there were ticks.
TypeInv == ReadersTypeOK /\ \A r \in Reader : drops[r] <= ticks /\ since[r] <= ticks

\* What a tick does to one reader.
LEMMA FeedFacts ==
  ASSUME ReadersTypeOK, TickReaders, NEW r \in Reader
  PROVE  /\ ticks' = ticks + 1 /\ ticks' \in 1 .. MaxTicks /\ ticks \in Nat
         /\ \/ /\ r \in readers
               /\ Len(frames[r]) < FrameDepth
               /\ frames'[r] = Append(frames[r], ticks + 1)
               /\ drops'[r] = drops[r]
            \/ /\ r \in readers
               /\ frames'[r] = frames[r]
               /\ drops'[r] = drops[r] + 1
            \/ /\ r \notin readers
               /\ frames'[r] = frames[r]
               /\ drops'[r] = drops[r]
<1>1. ticks' = ticks + 1 /\ ticks' \in 1 .. MaxTicks /\ ticks \in Nat
  BY ConstantsAreTyped DEF TickReaders, ReadersTypeOK
<1>2. /\ frames'[r] = IF r \in readers /\ ~Full(r) THEN Append(frames[r], ticks + 1) ELSE frames[r]
      /\ drops'[r] = IF r \in readers /\ Full(r) THEN drops[r] + 1 ELSE drops[r]
  BY DEF TickReaders, Feed
<1>3. ~Full(r) => Len(frames[r]) < FrameDepth
  BY ConstantsAreTyped DEF Full, ReadersTypeOK
<1> QED
  BY <1>1, <1>2, <1>3

LEMMA FeedTyped ==
  ASSUME TypeInv, TickReaders
  PROVE  TypeInv'
<1> USE ConstantsAreTyped DEF TypeInv
<1>1. ticks' = ticks + 1 /\ ticks' \in 1 .. MaxTicks /\ ticks \in Nat
  BY DEF TickReaders, ReadersTypeOK
<1>2. ASSUME NEW r \in Reader
      PROVE  /\ frames'[r] \in Seq(1 .. MaxTicks) /\ Len(frames'[r]) <= FrameDepth
             /\ drops'[r] \in 0 .. ticks'
  <2>1. frames[r] \in Seq(1 .. MaxTicks) /\ Len(frames[r]) <= FrameDepth /\ drops[r] \in 0 .. ticks
    BY <1>1 DEF ReadersTypeOK
  <2>2. /\ Append(frames[r], ticks + 1) \in Seq(1 .. MaxTicks)
        /\ Len(Append(frames[r], ticks + 1)) = Len(frames[r]) + 1
    BY <1>1, <2>1, AppendFacts
  <2>3. \/ frames'[r] = frames[r] /\ drops'[r] \in {drops[r], drops[r] + 1}
        \/ Len(frames[r]) < FrameDepth /\ frames'[r] = Append(frames[r], ticks + 1) /\ drops'[r] = drops[r]
    BY FeedFacts
  <2>4. drops'[r] \in 0 .. ticks'
    BY <1>1, <2>1, <2>3
  <2>5. frames'[r] \in Seq(1 .. MaxTicks) /\ Len(frames'[r]) <= FrameDepth
    <3>1. Len(frames[r]) \in Nat
      BY <2>1
    <3>2. CASE frames'[r] = frames[r]
      BY <2>1, <3>2
    <3>3. CASE Len(frames[r]) < FrameDepth /\ frames'[r] = Append(frames[r], ticks + 1)
      BY <2>2, <3>1, <3>3
    <3> QED
      BY <2>3, <3>2, <3>3
  <2> QED
    BY <2>4, <2>5
<1>3. frames' = [r \in Reader |-> frames'[r]] /\ drops' = [r \in Reader |-> drops'[r]]
  BY DEF TickReaders, Feed
<1>4. frames' \in [Reader -> Seq(1 .. MaxTicks)] /\ drops' \in [Reader -> 0 .. MaxTicks]
  <2>1. \A r \in Reader : drops'[r] \in 0 .. MaxTicks
    BY <1>1, <1>2
  <2> QED
    BY <1>2, <1>3, <2>1
<1>5. UNCHANGED <<open, cmds, readers, forwarding, calls, readable, got, since>>
  BY DEF TickReaders
<1> QED
  BY <1>1, <1>2, <1>4, <1>5 DEF ReadersTypeOK

LEMMA JavaScriptTyped ==
  ASSUME TypeInv, JavaScriptReads
  PROVE  TypeInv'
<1> USE DEF TypeInv
<1>1. ASSUME NEW r \in Reader, CreateReadStream(r) \/ DestroyReadStream(r)
      PROVE  TypeInv'
  <2>1. Create(r) \in Command(Reader) /\ Destroy(r) \in Command(Reader)
    BY DEF Command, Create, Destroy
  <2>2. cmds' \in Seq(Command(Reader)) /\ Len(cmds') <= CmdDepth
    BY <1>1, <2>1, TrySendTyped DEF CreateReadStream, DestroyReadStream
  <2> QED
    BY <1>1, <2>2 DEF CreateReadStream, DestroyReadStream, ReadersTypeOK
<1>2. CASE CloseIsCalled /\ UNCHANGED reading
  <2>1. [op |-> "close"] \in Command(Reader)
    BY DEF Command
  <2>2. cmds' \in Seq(Command(Reader)) /\ Len(cmds') <= CmdDepth
    BY <1>2, <2>1, TrySendTyped DEF CloseIsCalled, reading
  <2> QED
    BY <1>2, <2>2 DEF CloseIsCalled, reading, ReadersTypeOK
<1> QED
  BY <1>1, <1>2 DEF JavaScriptReads

LEMMA TaskTyped ==
  ASSUME TypeInv, TakeReaderCommand
  PROVE  TypeInv'
<1> USE DEF TypeInv
<1>1. CASE TakeCreateReader
  <2>1. cmds' \in Seq(Command(Reader)) /\ Len(cmds') <= CmdDepth /\ Head(cmds).id \in Reader
    BY <1>1, TakeFacts DEF TakeCreateReader
  <2>2. since' \in [Reader -> 0 .. MaxTicks] /\ ticks \in Nat
    BY <1>1, <2>1, ConstantsAreTyped DEF TakeCreateReader, ReadersTypeOK
  <2>3. \A r \in Reader : since'[r] <= ticks
    BY <1>1, <2>1, <2>2 DEF TakeCreateReader, ReadersTypeOK
  <2>4. readers' \subseteq Reader
    BY <1>1, <2>1 DEF TakeCreateReader, ReadersTypeOK
  <2> QED
    BY <1>1, <2>1, <2>2, <2>3, <2>4 DEF TakeCreateReader, ReadersTypeOK
<1>2. CASE TakeDestroyReader
  <2>1. cmds' \in Seq(Command(Reader)) /\ Len(cmds') <= CmdDepth
    BY <1>2, TakeFacts DEF TakeDestroyReader
  <2> QED
    BY <1>2, <2>1 DEF TakeDestroyReader, ReadersTypeOK
<1>3. CASE CloseReaders
  <2>1. cmds' \in Seq(Command(Reader)) /\ Len(cmds') <= CmdDepth
    BY <1>3, TakeFacts DEF CloseReaders
  <2> QED
    BY <1>3, <2>1 DEF CloseReaders, ReadersTypeOK
<1> QED
  BY <1>1, <1>2, <1>3 DEF TakeReaderCommand

\* The forwarder puts a frame, or its End, behind its calls.
LEMMA ForwardFacts ==
  ASSUME ReadersTypeOK, NEW r \in Reader, Forward(r)
  PROVE  /\ Head(frames[r]) \in 1 .. MaxTicks
         /\ frames'[r] = Tail(frames[r]) /\ calls'[r] = Append(calls[r], Head(frames[r]))
         /\ frames' = [frames EXCEPT ![r] = Tail(frames[r])] /\ frames'[r] \in Seq(1 .. MaxTicks)
         /\ calls' = [calls EXCEPT ![r] = Append(calls[r], Head(frames[r]))]
         /\ calls'[r] \in Seq(0 .. MaxTicks)
         /\ Len(frames'[r]) = Len(frames[r]) - 1 /\ Len(calls'[r]) = Len(calls[r]) + 1
         /\ \A i \in 1 .. Len(frames'[r]) : frames'[r][i] = frames[r][i + 1] /\ i + 1 \in 1 .. Len(frames[r])
         /\ \A i \in 1 .. Len(calls[r]) : calls'[r][i] = calls[r][i]
         /\ calls'[r][Len(calls[r]) + 1] = frames[r][1] /\ 1 \in 1 .. Len(frames[r])
<1>1. /\ frames[r] \in Seq(1 .. MaxTicks) /\ frames[r] # <<>> /\ calls[r] \in Seq(0 .. MaxTicks)
      /\ frames' = [frames EXCEPT ![r] = Tail(frames[r])]
      /\ calls' = [calls EXCEPT ![r] = Append(calls[r], Head(frames[r]))]
      /\ frames'[r] = Tail(frames[r]) /\ calls'[r] = Append(calls[r], Head(frames[r]))
  BY DEF Forward, ReadersTypeOK
<1>2. /\ Tail(frames[r]) \in Seq(1 .. MaxTicks) /\ Len(frames[r]) \in Nat \ {0}
      /\ Len(Tail(frames[r])) = Len(frames[r]) - 1
      /\ Head(frames[r]) \in 1 .. MaxTicks /\ Head(frames[r]) = frames[r][1]
      /\ \A i \in 1 .. Len(Tail(frames[r])) : Tail(frames[r])[i] = frames[r][i + 1] /\ i + 1 \in 1 .. Len(frames[r])
  BY <1>1, TailFacts
<1>3. Head(frames[r]) \in 0 .. MaxTicks
  BY <1>2
<1>4. /\ Append(calls[r], Head(frames[r])) \in Seq(0 .. MaxTicks)
      /\ Len(Append(calls[r], Head(frames[r]))) = Len(calls[r]) + 1
      /\ \A i \in 1 .. Len(calls[r]) : Append(calls[r], Head(frames[r]))[i] = calls[r][i]
      /\ Append(calls[r], Head(frames[r]))[Len(calls[r]) + 1] = Head(frames[r])
  BY <1>1, <1>3, AppendFacts
<1>5. 1 \in 1 .. Len(frames[r])
  BY <1>2
<1> QED
  BY <1>1, <1>2, <1>4, <1>5, Zenon

LEMMA EndsFacts ==
  ASSUME ReadersTypeOK, NEW r \in Reader, ForwarderEnds(r)
  PROVE  /\ calls'[r] = Append(calls[r], End)
         /\ calls' = [calls EXCEPT ![r] = Append(calls[r], End)]
         /\ calls'[r] \in Seq(0 .. MaxTicks) /\ Len(calls'[r]) = Len(calls[r]) + 1
         /\ \A i \in 1 .. Len(calls[r]) : calls'[r][i] = calls[r][i]
         /\ calls'[r][Len(calls[r]) + 1] = End
<1>1. /\ calls[r] \in Seq(0 .. MaxTicks) /\ calls'[r] = Append(calls[r], End)
      /\ calls' = [calls EXCEPT ![r] = Append(calls[r], End)]
  BY DEF ForwarderEnds, ReadersTypeOK
<1>2. End \in 0 .. MaxTicks
  BY ConstantsAreTyped DEF End
<1>3. /\ Append(calls[r], End) \in Seq(0 .. MaxTicks) /\ Len(Append(calls[r], End)) = Len(calls[r]) + 1
      /\ \A i \in 1 .. Len(calls[r]) : Append(calls[r], End)[i] = calls[r][i]
      /\ Append(calls[r], End)[Len(calls[r]) + 1] = End
  BY <1>1, <1>2, AppendFacts
<1> QED
  BY <1>1, <1>3

\* JavaScript is called with the first call, and pushes it if it is a frame.
LEMMA CalledFacts ==
  ASSUME ReadersTypeOK, NEW r \in Reader, Called(r)
  PROVE  /\ calls' = [calls EXCEPT ![r] = Tail(calls[r])] /\ calls'[r] = Tail(calls[r])
         /\ calls'[r] \in Seq(0 .. MaxTicks)
         /\ Len(calls'[r]) = Len(calls[r]) - 1 /\ Len(calls[r]) \in Nat \ {0}
         /\ \A i \in 1 .. Len(calls'[r]) : calls'[r][i] = calls[r][i + 1] /\ i + 1 \in 1 .. Len(calls[r])
         /\ \/ /\ readable[r] = "open" /\ calls[r][1] # End /\ readable' = readable
               /\ got' = [got EXCEPT ![r] = Append(got[r], calls[r][1])]
               /\ got'[r] \in Seq(1 .. MaxTicks) /\ Len(got'[r]) = Len(got[r]) + 1
               /\ \A i \in 1 .. Len(got[r]) : got'[r][i] = got[r][i]
               /\ got'[r][Len(got[r]) + 1] = calls[r][1]
            \/ /\ readable[r] = "open" /\ calls[r][1] = End /\ got' = got
               /\ readable' = [readable EXCEPT ![r] = "ended"]
            \/ readable[r] # "open" /\ got' = got /\ readable' = readable
<1>1. /\ calls[r] \in Seq(0 .. MaxTicks) /\ calls[r] # <<>> /\ got[r] \in Seq(1 .. MaxTicks)
      /\ calls' = [calls EXCEPT ![r] = Tail(calls[r])] /\ calls'[r] = Tail(calls[r])
  BY DEF Called, ReadersTypeOK
<1>2. /\ Tail(calls[r]) \in Seq(0 .. MaxTicks) /\ Len(calls[r]) \in Nat \ {0}
      /\ Len(Tail(calls[r])) = Len(calls[r]) - 1
      /\ Head(calls[r]) \in 0 .. MaxTicks /\ Head(calls[r]) = calls[r][1]
      /\ \A i \in 1 .. Len(Tail(calls[r])) : Tail(calls[r])[i] = calls[r][i + 1] /\ i + 1 \in 1 .. Len(calls[r])
  BY <1>1, TailFacts
<1>3. CASE readable[r] = "open" /\ Head(calls[r]) # End
  <2>1. Head(calls[r]) \in 1 .. MaxTicks
    BY <1>2, <1>3, ConstantsAreTyped DEF End
  <2>2. got' = [got EXCEPT ![r] = Append(got[r], Head(calls[r]))] /\ readable' = readable
    BY <1>3 DEF Called
  <2>3. got'[r] = Append(got[r], Head(calls[r]))
    BY <2>2 DEF ReadersTypeOK
  <2>4. /\ Append(got[r], Head(calls[r])) \in Seq(1 .. MaxTicks)
        /\ Len(Append(got[r], Head(calls[r]))) = Len(got[r]) + 1
        /\ \A i \in 1 .. Len(got[r]) : Append(got[r], Head(calls[r]))[i] = got[r][i]
        /\ Append(got[r], Head(calls[r]))[Len(got[r]) + 1] = Head(calls[r])
    BY <1>1, <2>1, AppendFacts
  <2> QED
    BY <1>1, <1>2, <1>3, <2>2, <2>3, <2>4
<1>4. CASE ~(readable[r] = "open" /\ Head(calls[r]) # End)
  <2>1. \/ readable[r] = "open" /\ Head(calls[r]) = End /\ got' = got /\ readable' = [readable EXCEPT ![r] = "ended"]
        \/ readable[r] # "open" /\ got' = got /\ readable' = readable
    BY <1>4 DEF Called
  <2> QED
    BY <1>1, <1>2, <2>1
<1> QED
  BY <1>3, <1>4

LEMMA QueueTyped ==
  ASSUME TypeInv, NEW r \in Reader, Called(r) \/ Forwarder(r)
  PROVE  TypeInv'
<1> USE DEF TypeInv
<1>1. CASE Called(r)
  <2>1. /\ calls' \in [Reader -> Seq(0 .. MaxTicks)]
        /\ got' \in [Reader -> Seq(1 .. MaxTicks)]
        /\ readable' \in [Reader -> {"none", "open", "ended", "destroyed"}]
    <3>1. calls' \in [Reader -> Seq(0 .. MaxTicks)]
      BY <1>1, CalledFacts DEF ReadersTypeOK
    <3>2. \/ got' = [got EXCEPT ![r] = Append(got[r], calls[r][1])] /\ got'[r] \in Seq(1 .. MaxTicks)
          \/ got' = got
      BY <1>1, CalledFacts
    <3>3. got' \in [Reader -> Seq(1 .. MaxTicks)]
      BY <3>2 DEF ReadersTypeOK
    <3>4. readable' \in [Reader -> {"none", "open", "ended", "destroyed"}]
      BY <1>1, CalledFacts DEF ReadersTypeOK
    <3> QED
      BY <3>1, <3>3, <3>4
  <2> QED
    BY <1>1, <2>1 DEF Called, ReadersTypeOK
<1>2. CASE Forward(r)
  <2>1. calls' \in [Reader -> Seq(0 .. MaxTicks)] /\ frames' \in [Reader -> Seq(1 .. MaxTicks)]
    BY <1>2, ForwardFacts DEF ReadersTypeOK
  <2>2. \A q \in Reader : Len(frames'[q]) <= FrameDepth
    <3>1. \A q \in Reader : frames'[q] = frames[q] \/ q = r
      BY <1>2 DEF Forward, ReadersTypeOK
    <3>2. Len(frames'[r]) = Len(frames[r]) - 1 /\ Len(frames[r]) <= FrameDepth /\ Len(frames[r]) \in Nat
      BY <1>2, ForwardFacts DEF ReadersTypeOK
    <3>3. Len(frames'[r]) <= FrameDepth
      BY <3>2, ConstantsAreTyped
    <3> QED
      BY <3>1, <3>3 DEF ReadersTypeOK
  <2> QED
    BY <1>2, <2>1, <2>2 DEF Forward, ReadersTypeOK
<1>3. CASE ForwarderEnds(r)
  <2>1. calls' \in [Reader -> Seq(0 .. MaxTicks)]
    BY <1>3, EndsFacts DEF ReadersTypeOK
  <2> QED
    BY <1>3, <2>1 DEF ForwarderEnds, ReadersTypeOK
<1> QED
  BY <1>1, <1>2, <1>3 DEF Forwarder

LEMMA InitTyped == ReadersInit => TypeInv
  BY ConstantsAreTyped DEF ReadersInit, TypeInv, ReadersTypeOK

LEMMA StepTyped == TypeInv /\ [ReadersNext]_readersVars => TypeInv'
<1> SUFFICES ASSUME TypeInv, [ReadersNext]_readersVars
             PROVE  TypeInv'
  OBVIOUS
<1>1. CASE UNCHANGED readersVars
  BY <1>1 DEF TypeInv, ReadersTypeOK, readersVars, reading
<1> QED
  BY <1>1, JavaScriptTyped, TaskTyped, FeedTyped, QueueTyped DEF ReadersNext

\* Every variable stays in its range: no queue of frames or commands grows beyond
\* its depth, however slow JavaScript is.
THEOREM TypeCorrect == ReadersSpec => []ReadersTypeOK
<1>1. TypeInv => ReadersTypeOK
  BY DEF TypeInv
<1> QED
  BY InitTyped, StepTyped, <1>1, PTL DEF ReadersSpec

-----------------------------------------------------------------------------
(* Sequences of frames that ascend, but for an End. *)

Ascends(s) == \A i, j \in 1 .. Len(s) : i < j /\ s[j] # End => s[i] < s[j]
Before(s, t) == \A i \in 1 .. Len(s), j \in 1 .. Len(t) : t[j] # End => s[i] < t[j]
UpTo(s, n) == \A i \in 1 .. Len(s) : s[i] <= n

LEMMA AscendsJoined ==
  ASSUME NEW s \in Seq(Nat), NEW t \in Seq(Nat), Ascends(s), Ascends(t), Before(s, t)
  PROVE  Ascends(s \o t)
<1>1. /\ Len(s \o t) = Len(s) + Len(t) /\ Len(s) \in Nat /\ Len(t) \in Nat
      /\ \A i \in 1 .. Len(s) + Len(t) : (s \o t)[i] = IF i <= Len(s) THEN s[i] ELSE t[i - Len(s)]
  OBVIOUS
<1> SUFFICES ASSUME NEW i \in 1 .. Len(s) + Len(t), NEW j \in 1 .. Len(s) + Len(t), i < j,
                    (s \o t)[j] # End
             PROVE  (s \o t)[i] < (s \o t)[j]
  BY <1>1 DEF Ascends
<1>2. CASE j <= Len(s)
  <2>1. (s \o t)[i] = s[i] /\ (s \o t)[j] = s[j] /\ i \in 1 .. Len(s) /\ j \in 1 .. Len(s)
    BY <1>1, <1>2
  <2> QED
    BY <2>1 DEF Ascends
<1>3. CASE i <= Len(s) /\ j > Len(s)
  <2>1. /\ (s \o t)[i] = s[i] /\ (s \o t)[j] = t[j - Len(s)]
        /\ i \in 1 .. Len(s) /\ j - Len(s) \in 1 .. Len(t)
    BY <1>1, <1>3
  <2> QED
    BY <2>1 DEF Before
<1>4. CASE i > Len(s)
  <2>1. /\ (s \o t)[i] = t[i - Len(s)] /\ (s \o t)[j] = t[j - Len(s)]
        /\ i - Len(s) \in 1 .. Len(t) /\ j - Len(s) \in 1 .. Len(t) /\ i - Len(s) < j - Len(s)
    BY <1>1, <1>4
  <2> QED
    BY <2>1 DEF Ascends
<1> QED
  BY <1>1, <1>2, <1>3, <1>4

LEMMA BeforeJoined ==
  ASSUME NEW s \in Seq(Nat), NEW t \in Seq(Nat), NEW u \in Seq(Nat), Before(s, u), Before(t, u)
  PROVE  Before(s \o t, u)
<1>1. /\ Len(s \o t) = Len(s) + Len(t) /\ Len(s) \in Nat /\ Len(t) \in Nat
      /\ \A i \in 1 .. Len(s) + Len(t) : (s \o t)[i] = IF i <= Len(s) THEN s[i] ELSE t[i - Len(s)]
  OBVIOUS
<1> SUFFICES ASSUME NEW i \in 1 .. Len(s) + Len(t), NEW j \in 1 .. Len(u), u[j] # End
             PROVE  (s \o t)[i] < u[j]
  BY <1>1 DEF Before
<1>2. CASE i <= Len(s)
  BY <1>1, <1>2 DEF Before
<1>3. CASE i > Len(s)
  <2>1. (s \o t)[i] = t[i - Len(s)] /\ i - Len(s) \in 1 .. Len(t)
    BY <1>1, <1>3
  <2> QED
    BY <2>1 DEF Before
<1>4. i <= Len(s) \/ i > Len(s)
  <2>1. Len(s) \in Nat /\ i \in Int
    BY <1>1
  <2> QED
    BY <2>1
<1> QED
  BY <1>2, <1>3, <1>4

LEMMA UpToMore ==
  ASSUME NEW s \in Seq(Nat), NEW n \in Nat, UpTo(s, n)
  PROVE  UpTo(s, n + 1)
<1>1. \A i \in 1 .. Len(s) : s[i] \in Nat
  OBVIOUS
<1> QED
  BY <1>1 DEF UpTo

\* A frame of the next tick is put behind.
LEMMA AscendsAppended ==
  ASSUME NEW s \in Seq(Nat), NEW n \in Nat, Ascends(s), UpTo(s, n)
  PROVE  Ascends(Append(s, n + 1)) /\ UpTo(Append(s, n + 1), n + 1)
<1>1. /\ Len(Append(s, n + 1)) = Len(s) + 1 /\ Len(s) \in Nat
      /\ \A i \in 1 .. Len(s) : Append(s, n + 1)[i] = s[i] /\ s[i] \in Nat
      /\ Append(s, n + 1)[Len(s) + 1] = n + 1
  OBVIOUS
<1>2. \A i \in 1 .. Len(s) + 1 : i \in 1 .. Len(s) \/ i = Len(s) + 1
  BY <1>1
<1>3. \A i \in 1 .. Len(s) : s[i] < n + 1
  BY <1>1 DEF UpTo
<1>4. UpTo(Append(s, n + 1), n + 1)
  BY <1>1, <1>2, <1>3 DEF UpTo
<1> QED
  BY <1>1, <1>2, <1>3, <1>4 DEF Ascends

LEMMA BeforeAppended ==
  ASSUME NEW s \in Seq(Nat), NEW t \in Seq(Nat), NEW n \in Nat, Before(s, t), UpTo(s, n)
  PROVE  Before(s, Append(t, n + 1))
<1>1. /\ Len(Append(t, n + 1)) = Len(t) + 1 /\ Len(t) \in Nat
      /\ \A i \in 1 .. Len(t) : Append(t, n + 1)[i] = t[i]
      /\ Append(t, n + 1)[Len(t) + 1] = n + 1
  OBVIOUS
<1>2. \A i \in 1 .. Len(t) + 1 : i \in 1 .. Len(t) \/ i = Len(t) + 1
  BY <1>1
<1>3. \A i \in 1 .. Len(s) : s[i] < n + 1
  <2>1. \A i \in 1 .. Len(s) : s[i] \in Nat
    OBVIOUS
  <2> QED
    BY <2>1 DEF UpTo
<1> QED
  BY <1>1, <1>2, <1>3 DEF Before

LEMMA SeqWidened ==
  ASSUME NEW S, NEW T, S \subseteq T, NEW s \in Seq(S)
  PROVE  s \in Seq(T)
<1>1. Len(s) \in Nat /\ s = [i \in 1 .. Len(s) |-> s[i]] /\ \A i \in 1 .. Len(s) : s[i] \in T
  OBVIOUS
<1> QED
  BY <1>1

LEMMA FramesAreNat ==
  ASSUME ReadersTypeOK, NEW r \in Reader
  PROVE  /\ got[r] \in Seq(Nat) /\ calls[r] \in Seq(Nat) /\ frames[r] \in Seq(Nat)
         /\ Len(got[r]) \in Nat /\ Len(calls[r]) \in Nat /\ Len(frames[r]) \in Nat
         /\ drops[r] \in Nat /\ since[r] \in Nat /\ ticks \in Nat
<1>1. 1 .. MaxTicks \subseteq Nat /\ 0 .. MaxTicks \subseteq Nat
  BY ConstantsAreTyped
<1>2. got[r] \in Seq(1 .. MaxTicks) /\ calls[r] \in Seq(0 .. MaxTicks) /\ frames[r] \in Seq(1 .. MaxTicks)
  BY DEF ReadersTypeOK
<1>3. drops[r] \in Nat /\ since[r] \in Nat /\ ticks \in Nat
  BY ConstantsAreTyped DEF ReadersTypeOK
<1>4. got[r] \in Seq(Nat) /\ calls[r] \in Seq(Nat) /\ frames[r] \in Seq(Nat)
  BY <1>1, <1>2, SeqWidened
<1> QED
  BY <1>3, <1>4

-----------------------------------------------------------------------------
(* The life of a reader. *)

\* Its command is on the way; nothing has come from it yet.
Waits(r) == open /\ \E i \in 1 .. Len(cmds) : cmds[i] = Create(r)
Fresh(r) ==
  /\ got[r] = <<>> /\ calls[r] = <<>> /\ frames[r] = <<>>
  /\ drops[r] = 0
  /\ r \notin readers

\* Each reader is asked for once.
OnceInv == \A i, j \in 1 .. Len(cmds) : cmds[i] = cmds[j] /\ cmds[i].op = "create" => i = j

\* The forwarder is there before its reader, and until it has said that it ends.
ForwardInv(r) ==
  /\ r \in readers => open /\ r \in forwarding
  /\ Waits(r) => r \in forwarding /\ Fresh(r)
  /\ readable[r] = "none" => r \notin forwarding /\ Fresh(r)
  /\ r \notin forwarding => frames[r] = <<>>
  /\ \A i \in 1 .. Len(calls[r]) : calls[r][i] = End => i = Len(calls[r]) /\ r \notin forwarding
  /\ readable[r] = "ended" => calls[r] = <<>> /\ r \notin forwarding

\* Frames stay in the order of their ticks on all the way.
OrderInv(r) ==
  /\ Ascends(got[r]) /\ Ascends(calls[r]) /\ Ascends(frames[r])
  /\ Before(got[r], calls[r]) /\ Before(got[r], frames[r]) /\ Before(calls[r], frames[r])
  /\ UpTo(got[r], ticks) /\ UpTo(calls[r], ticks) /\ UpTo(frames[r], ticks)

CountInv(r) ==
  r \in readers /\ readable[r] = "open" =>
    Len(got[r]) + Len(calls[r]) + Len(frames[r]) + drops[r] = ticks - since[r]

ReaderInv(r) == ForwardInv(r) /\ OrderInv(r) /\ CountInv(r)

ReadersInv == OnceInv /\ \A r \in Reader : ReaderInv(r)

LEMMA InitReaders == ReadersInit => ReadersInv
  BY DEF ReadersInit, ReadersInv, OnceInv, ReaderInv, ForwardInv, OrderInv, CountInv, Waits, Fresh,
    Ascends, Before, UpTo

\* A reader that a step leaves alone.
LEMMA ReaderKept ==
  ASSUME TypeInv, NEW r \in Reader, ReaderInv(r), Waits(r)' => Waits(r), open' = open,
         r \in readers' <=> r \in readers, r \in forwarding' <=> r \in forwarding,
         got'[r] = got[r], calls'[r] = calls[r], frames'[r] = frames[r], drops'[r] = drops[r],
         readable'[r] = readable[r], ticks' = ticks, since'[r] = since[r]
  PROVE  ReaderInv(r)'
<1>1. ForwardInv(r)'
  BY DEF ReaderInv, ForwardInv, Fresh
<1>2. OrderInv(r)'
  BY DEF ReaderInv, OrderInv, Ascends, Before, UpTo
<1>3. CountInv(r)'
  BY DEF ReaderInv, CountInv
<1> QED
  BY <1>1, <1>2, <1>3 DEF ReaderInv

\* A command is put behind the others.
LEMMA WaitsSent ==
  ASSUME TypeInv, NEW cmd \in Command(Reader), TrySend(cmd), open' = open
  PROVE  /\ \A r \in Reader : Waits(r)' => Waits(r) \/ (Accepts /\ cmd = Create(r))
         /\ OnceInv /\ (Accepts => \A i \in 1 .. Len(cmds) : cmd.op = "create" => cmds[i] # cmd) => OnceInv'
<1>1. CASE Accepts
  <2>1. /\ cmds' = Append(cmds, cmd) /\ cmds \in Seq(Command(Reader))
    BY <1>1 DEF TrySend, TypeInv, ReadersTypeOK
  <2>2. /\ Len(cmds') = Len(cmds) + 1 /\ Len(cmds) \in Nat
        /\ \A i \in 1 .. Len(cmds) : cmds'[i] = cmds[i]
        /\ cmds'[Len(cmds) + 1] = cmd
    BY <2>1, AppendFacts
  <2>3. \A i \in 1 .. Len(cmds') : i \in 1 .. Len(cmds) \/ i = Len(cmds) + 1
    BY <2>2
  <2>4. \A r \in Reader : Waits(r)' => Waits(r) \/ cmd = Create(r)
    BY <2>2, <2>3 DEF Waits, Create
  <2>5. OnceInv /\ (\A i \in 1 .. Len(cmds) : cmd.op = "create" => cmds[i] # cmd) => OnceInv'
    <3> SUFFICES ASSUME OnceInv, \A i \in 1 .. Len(cmds) : cmd.op = "create" => cmds[i] # cmd,
                        NEW i \in 1 .. Len(cmds'), NEW j \in 1 .. Len(cmds'),
                        cmds'[i] = cmds'[j], cmds'[i].op = "create"
                 PROVE  i = j
      BY DEF OnceInv
    <3>1. CASE i \in 1 .. Len(cmds) /\ j \in 1 .. Len(cmds)
      BY <2>2, <3>1 DEF OnceInv
    <3>2. CASE i = Len(cmds) + 1 /\ j \in 1 .. Len(cmds)
      BY <2>2, <3>2
    <3>3. CASE i \in 1 .. Len(cmds) /\ j = Len(cmds) + 1
      BY <2>2, <3>3
    <3> QED
      BY <2>3, <3>1, <3>2, <3>3
  <2>6. \A r \in Reader : Waits(r)' => Waits(r) \/ (Accepts /\ cmd = Create(r))
    BY <1>1, <2>4
  <2> QED
    BY <1>1, <2>5, <2>6, Zenon
<1>2. CASE ~Accepts
  <2>1. cmds' = cmds
    BY <1>2 DEF TrySend
  <2>2. \A r \in Reader : Waits(r)' => Waits(r)
    BY <2>1 DEF Waits, Create
  <2>3. OnceInv => OnceInv'
    BY <2>1 DEF OnceInv
  <2> QED
    BY <2>2, <2>3
<1> QED
  BY <1>1, <1>2

\* The first command is taken away.
LEMMA WaitsTaken ==
  ASSUME TypeInv, OnceInv, NEW op \in {"create", "destroy", "close"}, Take(op)
  PROVE  /\ OnceInv'
         /\ \A r \in Reader : (open' /\ \E i \in 1 .. Len(cmds') : cmds'[i] = Create(r)) => Waits(r) /\ Head(cmds) # Create(r)
         /\ \A r \in Reader : Head(cmds) = Create(r) => Waits(r)
<1>1. /\ cmds' = Tail(cmds) /\ cmds \in Seq(Command(Reader)) /\ cmds # <<>> /\ open
  BY TakeFacts DEF TypeInv, ReadersTypeOK
<1>2. /\ Len(cmds') = Len(cmds) - 1 /\ Len(cmds) \in Nat \ {0} /\ Head(cmds) = cmds[1]
      /\ \A i \in 1 .. Len(cmds') : cmds'[i] = cmds[i + 1] /\ i + 1 \in 1 .. Len(cmds)
  BY <1>1, TailFacts
<1>3. OnceInv'
  <2> SUFFICES ASSUME NEW i \in 1 .. Len(cmds'), NEW j \in 1 .. Len(cmds'),
                      cmds'[i] = cmds'[j], cmds'[i].op = "create"
               PROVE  i = j
    BY DEF OnceInv
  <2>1. /\ i + 1 \in 1 .. Len(cmds) /\ j + 1 \in 1 .. Len(cmds)
        /\ cmds[i + 1] = cmds[j + 1] /\ cmds[i + 1].op = "create"
    BY <1>2
  <2>2. i + 1 = j + 1
    BY <2>1 DEF OnceInv
  <2> QED
    BY <2>2
<1>4. ASSUME NEW r \in Reader, NEW i \in 1 .. Len(cmds'), cmds'[i] = Create(r)
      PROVE  Waits(r) /\ Head(cmds) # Create(r)
  <2>1. cmds[i + 1] = Create(r) /\ i + 1 \in 1 .. Len(cmds) /\ i + 1 # 1 /\ 1 \in 1 .. Len(cmds)
    BY <1>2, <1>4
  <2>2. Create(r).op = "create"
    BY DEF Create
  <2> QED
    BY <1>1, <1>2, <2>1, <2>2 DEF Waits, OnceInv
<1>5. ASSUME NEW r \in Reader, Head(cmds) = Create(r)
      PROVE  Waits(r)
  <2>1. cmds[1] = Create(r) /\ 1 \in 1 .. Len(cmds)
    BY <1>2, <1>5
  <2> QED
    BY <1>1, <2>1 DEF Waits
<1> QED
  BY <1>3, <1>4, <1>5

\* What the calls that are left say of the reader's order, one taken or added.
LEMMA CreateKept ==
  ASSUME TypeInv, ReadersInv, NEW r \in Reader, CreateReadStream(r)
  PROVE  ReadersInv'
<1>1. /\ Create(r) \in Command(Reader) /\ Create(r).op = "create" /\ Create(r).id = r
      /\ \A q \in Reader : Create(q) = Create(r) => q = r
  BY DEF Command, Create
<1>2. /\ TrySend(Create(r)) /\ readable[r] = "none"
      /\ UNCHANGED <<open, ticks, readers, frames, drops, calls, got, since>>
      /\ forwarding' = forwarding \cup {r}
      /\ readable'[r] # "none" /\ readable'[r] # "ended" /\ \A q \in Reader : q # r => readable'[q] = readable[q]
  BY DEF CreateReadStream, TypeInv, ReadersTypeOK
<1>3. r \notin forwarding /\ Fresh(r) /\ ForwardInv(r)
  BY <1>2 DEF ReadersInv, ReaderInv, ForwardInv
<1>4. \A i \in 1 .. Len(cmds) : open => cmds[i] # Create(r)
  BY <1>3 DEF ForwardInv, Waits
<1>5. OnceInv'
  BY <1>1, <1>2, <1>4, WaitsSent DEF ReadersInv, Accepts
<1>6. \A q \in Reader : q # r => ReaderInv(q)'
  BY <1>1, <1>2, WaitsSent, ReaderKept DEF ReadersInv
<1>7. ReaderInv(r)'
  <2>1. ForwardInv(r)'
    BY <1>2, <1>3 DEF ForwardInv, Fresh
  <2>2. OrderInv(r)'
    BY <1>2 DEF ReadersInv, ReaderInv, OrderInv, Ascends, Before, UpTo
  <2>3. CountInv(r)'
    BY <1>2, <1>3 DEF CountInv, Fresh
  <2> QED
    BY <2>1, <2>2, <2>3 DEF ReaderInv
<1> QED
  BY <1>5, <1>6, <1>7 DEF ReadersInv

LEMMA DestroyKept ==
  ASSUME TypeInv, ReadersInv, NEW r \in Reader, DestroyReadStream(r)
  PROVE  ReadersInv'
<1>1. Destroy(r) \in Command(Reader) /\ Destroy(r).op = "destroy" /\ \A q \in Reader : Destroy(r) # Create(q)
  BY DEF Command, Create, Destroy
<1>2. /\ TrySend(Destroy(r)) /\ readable[r] = "open"
      /\ UNCHANGED <<open, ticks, readers, frames, drops, forwarding, calls, got, since>>
      /\ readable'[r] = "destroyed" /\ \A q \in Reader : q # r => readable'[q] = readable[q]
  BY DEF DestroyReadStream, TypeInv, ReadersTypeOK
<1>3. OnceInv' /\ \A q \in Reader : Waits(q)' => Waits(q)
  BY <1>1, <1>2, WaitsSent DEF ReadersInv
<1>4. \A q \in Reader : q # r => ReaderInv(q)'
  BY <1>2, <1>3, ReaderKept DEF ReadersInv
<1>5. ReaderInv(r)'
  <2>1. ForwardInv(r)'
    BY <1>2, <1>3 DEF ReadersInv, ReaderInv, ForwardInv, Fresh
  <2>2. OrderInv(r)'
    BY <1>2 DEF ReadersInv, ReaderInv, OrderInv, Ascends, Before, UpTo
  <2>3. CountInv(r)'
    BY <1>2 DEF CountInv
  <2> QED
    BY <2>1, <2>2, <2>3 DEF ReaderInv
<1> QED
  BY <1>3, <1>4, <1>5 DEF ReadersInv

LEMMA CloseCallKept ==
  ASSUME TypeInv, ReadersInv, CloseIsCalled, UNCHANGED reading
  PROVE  ReadersInv'
<1>1. [op |-> "close"] \in Command(Reader) /\ [op |-> "close"].op = "close"
  BY DEF Command
<1>2. \A q \in Reader : Create(q) # [op |-> "close"]
  <2>1. \A q \in Reader : Create(q).op = "create"
    BY DEF Create
  <2> QED
    BY <1>1, <2>1
<1>3. TrySend([op |-> "close"]) /\ UNCHANGED <<open, ticks, readers, frames, drops, forwarding, calls, readable, got, since>>
  BY DEF CloseIsCalled, reading
<1>4. OnceInv' /\ \A q \in Reader : Waits(q)' => Waits(q)
  BY <1>1, <1>2, <1>3, WaitsSent DEF ReadersInv
<1> QED
  BY <1>3, <1>4, ReaderKept DEF ReadersInv

LEMMA TakeKept ==
  ASSUME TypeInv, ReadersInv, TakeReaderCommand
  PROVE  ReadersInv'
<1>1. CASE TakeCreateReader
  <2>1. PICK n \in Reader : Head(cmds).id = n /\ Head(cmds) = Create(n) /\ Take("create") /\ cmds' = Tail(cmds)
    BY <1>1, TakeFacts DEF TakeCreateReader, Create, TypeInv
  <2>2. /\ UNCHANGED <<open, ticks, frames, drops, forwarding, calls, readable, got>>
        /\ readers' = readers \cup {n} /\ since'[n] = ticks
        /\ \A q \in Reader : q # n => since'[q] = since[q]
    BY <1>1, <2>1 DEF TakeCreateReader, TypeInv, ReadersTypeOK
  <2>3. OnceInv' /\ (\A q \in Reader : Waits(q)' => Waits(q)) /\ ~Waits(n)' /\ Waits(n)
    <3>1. \A q \in Reader : Waits(q)' => Waits(q) /\ Head(cmds) # Create(q)
      BY <2>1, WaitsTaken DEF ReadersInv, Waits
    <3>2. OnceInv' /\ Waits(n)
      BY <2>1, WaitsTaken DEF ReadersInv
    <3> QED
      BY <2>1, <3>1, <3>2
  <2>4. \A q \in Reader : q # n => ReaderInv(q)'
    BY <2>2, <2>3, ReaderKept DEF ReadersInv
  <2>5. Fresh(n) /\ n \in forwarding /\ open /\ ReaderInv(n)
    BY <2>1, <2>3 DEF ReadersInv, ReaderInv, ForwardInv, Waits
  <2>6. ReaderInv(n)'
    <3>1. readable[n] # "none"
      BY <2>5 DEF ReaderInv, ForwardInv
    <3>2. ForwardInv(n)'
      BY <2>2, <2>3, <2>5, <3>1 DEF ReaderInv, ForwardInv
    <3>3. OrderInv(n)'
      BY <2>2, <2>5 DEF ReaderInv, OrderInv, Ascends, Before, UpTo
    <3>4. Len(got[n]) = 0 /\ Len(calls[n]) = 0 /\ Len(frames[n]) = 0 /\ drops[n] = 0 /\ ticks \in Nat
      BY <2>5 DEF Fresh, TypeInv, ReadersTypeOK
    <3>5. CountInv(n)'
      BY <2>2, <3>4 DEF CountInv
    <3> QED
      BY <3>2, <3>3, <3>5 DEF ReaderInv
  <2> QED
    BY <2>1, <2>3, <2>4, <2>6 DEF ReadersInv
<1>2. CASE TakeDestroyReader
  <2> DEFINE n == Head(cmds).id
  <2>1. Take("destroy") /\ UNCHANGED <<open, ticks, frames, drops, forwarding, calls, readable, got, since>>
        /\ readers' = readers \ {n}
    BY <1>2 DEF TakeDestroyReader
  <2>2. OnceInv' /\ \A q \in Reader : Waits(q)' => Waits(q)
    BY <2>1, WaitsTaken DEF ReadersInv, Waits, Create
  <2>3. ASSUME NEW q \in Reader
        PROVE  ReaderInv(q)'
    <3>1. ReaderInv(q)
      BY DEF ReadersInv
    <3>2. ForwardInv(q)'
      BY <2>1, <2>2, <3>1 DEF ReaderInv, ForwardInv, Fresh
    <3>3. OrderInv(q)'
      BY <2>1, <3>1 DEF ReaderInv, OrderInv, Ascends, Before, UpTo
    <3>4. CountInv(q)'
      BY <2>1, <3>1 DEF ReaderInv, CountInv
    <3> QED
      BY <3>2, <3>3, <3>4 DEF ReaderInv
  <2> QED
    BY <2>2, <2>3 DEF ReadersInv
<1>3. CASE CloseReaders
  <2>1. /\ Take("close") /\ UNCHANGED <<ticks, frames, drops, forwarding, calls, readable, got, since>>
        /\ open' = FALSE /\ readers' = {}
    BY <1>3 DEF CloseReaders
  <2>2. OnceInv' /\ \A q \in Reader : ~Waits(q)'
    BY <2>1, WaitsTaken DEF ReadersInv, Waits
  <2>3. ASSUME NEW q \in Reader
        PROVE  ReaderInv(q)'
    <3>1. ReaderInv(q)
      BY DEF ReadersInv
    <3>2. ForwardInv(q)'
      BY <2>1, <2>2, <3>1 DEF ReaderInv, ForwardInv, Fresh
    <3>3. OrderInv(q)'
      BY <2>1, <3>1 DEF ReaderInv, OrderInv, Ascends, Before, UpTo
    <3>4. CountInv(q)'
      BY <2>1 DEF CountInv
    <3> QED
      BY <3>2, <3>3, <3>4 DEF ReaderInv
  <2> QED
    BY <2>2, <2>3 DEF ReadersInv
<1> QED
  BY <1>1, <1>2, <1>3 DEF TakeReaderCommand

\* A frame that is fed is newer than all before it.
LEMMA FeedKept ==
  ASSUME TypeInv, ReadersInv, TickReaders
  PROVE  ReadersInv'
<1>1. UNCHANGED <<open, cmds, readers, forwarding, calls, readable, got, since>>
  BY DEF TickReaders
<1>2. OnceInv' /\ \A q \in Reader : Waits(q)' <=> Waits(q)
  BY <1>1 DEF ReadersInv, OnceInv, Waits, Create
<1>3. ASSUME NEW r \in Reader
      PROVE  ReaderInv(r)'
  <2>1. /\ ReaderInv(r)
        /\ got[r] \in Seq(Nat) /\ calls[r] \in Seq(Nat) /\ frames[r] \in Seq(Nat)
        /\ Len(got[r]) \in Nat /\ Len(calls[r]) \in Nat /\ Len(frames[r]) \in Nat
        /\ drops[r] \in Nat /\ since[r] \in Nat
    BY FramesAreNat DEF ReadersInv, TypeInv
  <2>2. ticks' = ticks + 1 /\ ticks \in Nat
    BY FeedFacts DEF TypeInv
  <2>3. UpTo(got[r], ticks') /\ UpTo(calls[r], ticks') /\ UpTo(frames[r], ticks')
    BY <2>1, <2>2, UpToMore DEF ReaderInv, OrderInv
  <2>4. frames'[r] = frames[r] => OrderInv(r)'
    BY <1>1, <2>1, <2>3 DEF ReaderInv, OrderInv
  <2>5. CASE r \notin readers
    <3>1. frames'[r] = frames[r] /\ drops'[r] = drops[r]
      BY <2>5, FeedFacts DEF TypeInv
    <3>2. ForwardInv(r)'
      BY <1>1, <1>2, <2>1, <3>1 DEF ReaderInv, ForwardInv, Fresh
    <3>3. CountInv(r)'
      BY <1>1, <2>5 DEF CountInv
    <3> QED
      BY <2>4, <3>1, <3>2, <3>3 DEF ReaderInv
  <2>6. CASE r \in readers
    <3>1. r \in forwarding /\ ~Waits(r) /\ readable[r] # "none"
      BY <2>1, <2>6 DEF ReaderInv, ForwardInv, Fresh
    <3>2. ForwardInv(r)'
      BY <1>1, <1>2, <2>1, <3>1 DEF ReaderInv, ForwardInv
    <3>3. CASE frames'[r] = frames[r] /\ drops'[r] = drops[r] + 1
      <4>1. CountInv(r)'
        <5>1. readable[r] = "open" =>
                Len(got[r]) + Len(calls[r]) + Len(frames[r]) + drops[r] = ticks - since[r]
          BY <2>1, <2>6 DEF ReaderInv, CountInv
        <5>2. ASSUME readable[r] = "open"
              PROVE  Len(got[r]) + Len(calls[r]) + Len(frames[r]) + (drops[r] + 1) = (ticks + 1) - since[r]
          <6>1. /\ Len(got[r]) \in Nat /\ Len(calls[r]) \in Nat /\ Len(frames[r]) \in Nat
                /\ drops[r] \in Nat /\ since[r] \in Nat /\ ticks \in Nat
            BY <2>1, <2>2
          <6>2. Len(got[r]) + Len(calls[r]) + Len(frames[r]) + drops[r] = ticks - since[r]
            BY <5>1, <5>2
          <6> DEFINE a == Len(got[r])
                     b == Len(calls[r])
                     c == Len(frames[r])
                     d == drops[r]
                     u == since[r]
          <6>3. a \in Nat /\ b \in Nat /\ c \in Nat /\ d \in Nat /\ u \in Nat /\ a + b + c + d = ticks - u
            BY <6>1, <6>2
          <6> HIDE DEF a, b, c, d, u
          <6>4. a + b + c + (d + 1) = (ticks + 1) - u
            BY <6>1, <6>3
          <6> QED
            BY <6>4 DEF a, b, c, d, u
        <5> QED
          BY <1>1, <2>2, <3>3, <5>2 DEF CountInv
      <4> QED
        BY <2>4, <3>2, <3>3, <4>1 DEF ReaderInv
    <3>4. CASE frames'[r] = Append(frames[r], ticks + 1) /\ drops'[r] = drops[r]
      <4>1. Ascends(frames'[r]) /\ UpTo(frames'[r], ticks')
        BY <2>1, <2>2, <3>4, AscendsAppended DEF ReaderInv, OrderInv
      <4>2. Before(got[r], frames'[r]) /\ Before(calls[r], frames'[r])
        BY <2>1, <2>2, <3>4, BeforeAppended DEF ReaderInv, OrderInv
      <4>3. OrderInv(r)'
        BY <1>1, <2>1, <2>3, <4>1, <4>2 DEF ReaderInv, OrderInv
      <4>4. Len(frames'[r]) = Len(frames[r]) + 1
        BY <2>1, <2>2, <3>4
      <4>5. CountInv(r)'
        <5>1. readable[r] = "open" =>
                Len(got[r]) + Len(calls[r]) + Len(frames[r]) + drops[r] = ticks - since[r]
          BY <2>1, <2>6 DEF ReaderInv, CountInv
        <5>2. ASSUME readable[r] = "open"
              PROVE  Len(got[r]) + Len(calls[r]) + Len(frames'[r]) + drops[r] = (ticks + 1) - since[r]
          <6>1. /\ Len(got[r]) \in Nat /\ Len(calls[r]) \in Nat /\ Len(frames[r]) \in Nat
                /\ drops[r] \in Nat /\ since[r] \in Nat /\ ticks \in Nat
            BY <2>1, <2>2
          <6>2. Len(got[r]) + Len(calls[r]) + Len(frames[r]) + drops[r] = ticks - since[r]
            BY <5>1, <5>2
          <6> DEFINE a == Len(got[r])
                     b == Len(calls[r])
                     c == Len(frames[r])
                     d == drops[r]
                     u == since[r]
          <6>3. a \in Nat /\ b \in Nat /\ c \in Nat /\ d \in Nat /\ u \in Nat /\ a + b + c + d = ticks - u
            BY <6>1, <6>2
          <6> HIDE DEF a, b, c, d, u
          <6>4. PICK n \in Nat : n = ticks
            BY <6>1
          <6>5. a + b + c + d = n - u
            BY <6>3, <6>4
          <6>6. a + b + (c + 1) + d = (n + 1) - u
            BY ONLY <6>3, <6>5, n \in Nat
          <6>7. a + b + (c + 1) + d = (ticks + 1) - u
            BY <6>4, <6>6
          <6> QED
            BY <4>4, <6>7 DEF a, b, c, d, u
        <5> QED
          BY <1>1, <2>2, <3>4, <5>2 DEF CountInv
      <4> QED
        BY <3>2, <4>3, <4>5 DEF ReaderInv
    <3> QED
      BY <2>6, <3>3, <3>4, FeedFacts DEF TypeInv
  <2> QED
    BY <2>5, <2>6
<1> QED
  BY <1>2, <1>3 DEF ReadersInv

\* The readers whose queues a step leaves alone.
LEMMA OthersKept ==
  ASSUME TypeInv, ReadersInv, NEW r \in Reader, UNCHANGED <<open, cmds, ticks, readers, drops, since>>,
         \A q \in Reader : q # r => /\ got'[q] = got[q] /\ calls'[q] = calls[q] /\ frames'[q] = frames[q]
                                  /\ readable'[q] = readable[q]
                                  /\ (q \in forwarding' <=> q \in forwarding),
         ReaderInv(r)'
  PROVE  ReadersInv'
<1>1. OnceInv' /\ \A q \in Reader : Waits(q)' => Waits(q)
  BY DEF ReadersInv, OnceInv, Waits, Create
<1>2. \A q \in Reader : q # r => ReaderInv(q)'
  BY <1>1, ReaderKept DEF ReadersInv
<1> QED
  BY <1>1, <1>2 DEF ReadersInv

\* The first of t goes to the end of s.
Moves(s, t, s2, t2) ==
  /\ t # <<>>
  /\ Len(t2) = Len(t) - 1
  /\ \A i \in 1 .. Len(t2) : t2[i] = t[i + 1]
  /\ Len(s2) = Len(s) + 1
  /\ \A i \in 1 .. Len(s) : s2[i] = s[i]
  /\ s2[Len(s) + 1] = t[1]

LEMMA MovesFacts ==
  ASSUME NEW s \in Seq(Nat), NEW t \in Seq(Nat), NEW s2 \in Seq(Nat), NEW t2 \in Seq(Nat),
         Moves(s, t, s2, t2)
  PROVE  /\ Len(s) \in Nat /\ Len(t) \in Nat \ {0} /\ Len(s2) \in Nat /\ Len(t2) \in Nat
         /\ 1 \in 1 .. Len(t)
         /\ \A i \in 1 .. Len(s2) : \/ i \in 1 .. Len(s) /\ s2[i] = s[i]
                                    \/ i = Len(s) + 1 /\ s2[i] = t[1]
         /\ \A i \in 1 .. Len(t2) : i \in Nat /\ t2[i] = t[i + 1] /\ i + 1 \in 1 .. Len(t) /\ 1 < i + 1
<1>1. Len(s) \in Nat /\ Len(t) \in Nat \ {0} /\ Len(s2) \in Nat /\ Len(t2) \in Nat
  BY DEF Moves
<1>2. \A i \in 1 .. Len(s2) : i \in 1 .. Len(s) \/ i = Len(s) + 1
  BY <1>1 DEF Moves
<1>3. \A i \in 1 .. Len(t2) : i \in Nat /\ i + 1 \in 1 .. Len(t) /\ 1 < i + 1
  BY <1>1 DEF Moves
<1>4. \A i \in 1 .. Len(s2) : \/ i \in 1 .. Len(s) /\ s2[i] = s[i]
                              \/ i = Len(s) + 1 /\ s2[i] = t[1]
  <2> TAKE i \in 1 .. Len(s2)
  <2>1. (\A j \in 1 .. Len(s) : s2[j] = s[j]) /\ s2[Len(s) + 1] = t[1]
    BY DEF Moves
  <2>2. CASE i \in 1 .. Len(s)
    BY <2>1, <2>2
  <2>3. CASE i = Len(s) + 1
    BY <2>1, <2>3
  <2> QED
    BY <1>2, <2>2, <2>3
<1>5. \A i \in 1 .. Len(t2) : i \in Nat /\ t2[i] = t[i + 1] /\ i + 1 \in 1 .. Len(t) /\ 1 < i + 1
  BY <1>3 DEF Moves
<1>6. 1 \in 1 .. Len(t)
  BY <1>1
<1> QED
  BY <1>1, <1>4, <1>5, <1>6

LEMMA OrderMoved ==
  ASSUME NEW s \in Seq(Nat), NEW t \in Seq(Nat), NEW s2 \in Seq(Nat), NEW t2 \in Seq(Nat),
         NEW n \in Nat, Moves(s, t, s2, t2), t[1] # End,
         Ascends(s), Ascends(t), Before(s, t), UpTo(s, n), UpTo(t, n)
  PROVE  Ascends(s2) /\ Ascends(t2) /\ Before(s2, t2) /\ UpTo(s2, n) /\ UpTo(t2, n)
<1>0. /\ Len(s) \in Nat /\ 1 \in 1 .. Len(t)
      /\ \A i \in 1 .. Len(s2) : \/ i \in 1 .. Len(s) /\ s2[i] = s[i]
                                 \/ i = Len(s) + 1 /\ s2[i] = t[1]
      /\ \A i \in 1 .. Len(t2) : i \in Nat /\ t2[i] = t[i + 1] /\ i + 1 \in 1 .. Len(t) /\ 1 < i + 1
  BY MovesFacts
<1>1. Ascends(s2)
  <2> SUFFICES ASSUME NEW i \in 1 .. Len(s2), NEW j \in 1 .. Len(s2), i < j, s2[j] # End
               PROVE  s2[i] < s2[j]
    BY DEF Ascends
  <2>1. i \in 1 .. Len(s) /\ s2[i] = s[i]
    <3>1. j <= Len(s) + 1
      <4>1. j \in 1 .. Len(s) \/ j = Len(s) + 1
        BY <1>0
      <4> QED
        BY <1>0, <4>1
    <3>2. i # Len(s) + 1
      BY <1>0, <3>1
    <3> QED
      BY <1>0, <3>2
  <2>2. CASE j \in 1 .. Len(s) /\ s2[j] = s[j]
    BY <2>1, <2>2 DEF Ascends
  <2>3. CASE s2[j] = t[1]
    BY <2>1, <2>3, <1>0 DEF Before
  <2> QED
    BY <2>2, <2>3, <1>0
<1>2. Ascends(t2)
  <2> SUFFICES ASSUME NEW i \in 1 .. Len(t2), NEW j \in 1 .. Len(t2), i < j, t2[j] # End
               PROVE  t2[i] < t2[j]
    BY DEF Ascends
  <2>1. t2[i] = t[i + 1] /\ t2[j] = t[j + 1] /\ i + 1 \in 1 .. Len(t) /\ j + 1 \in 1 .. Len(t)
    BY <1>0
  <2>2. i + 1 < j + 1
    OBVIOUS
  <2> QED
    BY <2>1, <2>2 DEF Ascends
<1>3. Before(s2, t2)
  <2> SUFFICES ASSUME NEW i \in 1 .. Len(s2), NEW j \in 1 .. Len(t2), t2[j] # End
               PROVE  s2[i] < t2[j]
    BY DEF Before
  <2>1. t2[j] = t[j + 1] /\ j + 1 \in 1 .. Len(t) /\ 1 < j + 1 /\ 1 \in 1 .. Len(t)
    BY <1>0
  <2>2. CASE i \in 1 .. Len(s) /\ s2[i] = s[i]
    BY <2>1, <2>2 DEF Before
  <2>3. CASE s2[i] = t[1]
    BY <2>1, <2>3 DEF Ascends
  <2> QED
    BY <2>2, <2>3, <1>0
<1>4. UpTo(s2, n) /\ UpTo(t2, n)
  BY <1>0 DEF UpTo
<1> QED
  BY <1>1, <1>2, <1>3, <1>4

\* What stands before all of s and t stands before them when one has moved; and what
\* stands behind, behind.
LEMMA BeforeMoved ==
  ASSUME NEW s \in Seq(Nat), NEW t \in Seq(Nat), NEW s2 \in Seq(Nat), NEW t2 \in Seq(Nat),
         NEW g \in Seq(Nat), Moves(s, t, s2, t2)
  PROVE  /\ Before(g, s) /\ Before(g, t) => Before(g, s2) /\ Before(g, t2)
         /\ Before(s, g) /\ Before(t, g) => Before(s2, g) /\ Before(t2, g)
<1>1. /\ 1 \in 1 .. Len(t)
      /\ \A i \in 1 .. Len(s2) : \/ i \in 1 .. Len(s) /\ s2[i] = s[i]
                                 \/ i = Len(s) + 1 /\ s2[i] = t[1]
      /\ \A i \in 1 .. Len(t2) : i \in Nat /\ t2[i] = t[i + 1] /\ i + 1 \in 1 .. Len(t) /\ 1 < i + 1
  BY MovesFacts
<1>2. ASSUME Before(g, s), Before(g, t)
      PROVE  Before(g, s2) /\ Before(g, t2)
  BY <1>1, <1>2 DEF Before
<1>3. ASSUME Before(s, g), Before(t, g)
      PROVE  Before(s2, g) /\ Before(t2, g)
  BY <1>1, <1>3 DEF Before
<1> QED
  BY <1>2, <1>3

LEMMA ForwardKept ==
  ASSUME TypeInv, ReadersInv, NEW r \in Reader, Forward(r)
  PROVE  ReadersInv'
<1>1. /\ ReaderInv(r) /\ ReadersTypeOK
      /\ got[r] \in Seq(Nat) /\ calls[r] \in Seq(Nat) /\ frames[r] \in Seq(Nat) /\ ticks \in Nat
  BY FramesAreNat DEF ReadersInv, TypeInv
<1>2. /\ Len(frames'[r]) = Len(frames[r]) - 1 /\ Len(calls'[r]) = Len(calls[r]) + 1
      /\ \A i \in 1 .. Len(frames'[r]) : frames'[r][i] = frames[r][i + 1] /\ i + 1 \in 1 .. Len(frames[r])
      /\ \A i \in 1 .. Len(calls[r]) : calls'[r][i] = calls[r][i]
      /\ calls'[r][Len(calls[r]) + 1] = frames[r][1] /\ frames[r][1] # End
  <2>1. Head(frames[r]) = frames[r][1] /\ Head(frames[r]) # End
    <3>1. Head(frames[r]) \in 1 .. MaxTicks
      BY <1>1, ForwardFacts
    <3>2. frames[r] # <<>>
      BY DEF Forward
    <3> QED
      BY <1>1, <3>1, <3>2, ConstantsAreTyped DEF End
  <2> QED
    BY <1>1, <2>1, ForwardFacts
<1>3. calls'[r] \in Seq(Nat) /\ frames'[r] \in Seq(Nat)
  <2>1. calls'[r] \in Seq(0 .. MaxTicks) /\ frames'[r] \in Seq(1 .. MaxTicks)
    BY <1>1, ForwardFacts
  <2>2. 1 .. MaxTicks \subseteq Nat /\ 0 .. MaxTicks \subseteq Nat
    BY ConstantsAreTyped
  <2> QED
    BY <2>1, <2>2, SeqWidened
<1>4. /\ UNCHANGED <<open, cmds, ticks, readers, drops, forwarding, readable, got, since>>
      /\ r \in forwarding /\ frames[r] # <<>>
      /\ \A q \in Reader : q # r => calls'[q] = calls[q] /\ frames'[q] = frames[q]
  BY <1>1 DEF Forward, ReadersTypeOK
<1>5. ~Waits(r) /\ readable[r] # "none"
  BY <1>1, <1>4 DEF ReaderInv, ForwardInv, Fresh
<1>6. ForwardInv(r)'
  <2>1. ~Waits(r)'
    BY <1>4, <1>5 DEF Waits, Create
  <2>2. \A i \in 1 .. Len(calls'[r]) : calls'[r][i] # End
    <3>1. \A i \in 1 .. Len(calls'[r]) : i \in 1 .. Len(calls[r]) \/ i = Len(calls[r]) + 1
      BY <1>1, <1>2
    <3> QED
      BY <1>1, <1>2, <1>4, <3>1 DEF ReaderInv, ForwardInv
  <2> QED
    BY <1>1, <1>4, <1>5, <2>1, <2>2 DEF ReaderInv, ForwardInv
<1>7. OrderInv(r)'
  <2>0. Moves(calls[r], frames[r], calls'[r], frames'[r])
    BY <1>2, <1>4 DEF Moves
  <2>1. /\ Ascends(calls'[r]) /\ Ascends(frames'[r]) /\ Before(calls'[r], frames'[r])
        /\ UpTo(calls'[r], ticks) /\ UpTo(frames'[r], ticks)
    BY <1>1, <1>2, <1>3, <2>0, OrderMoved DEF ReaderInv, OrderInv
  <2>2. Before(got[r], calls'[r]) /\ Before(got[r], frames'[r])
    BY <1>1, <1>3, <2>0, BeforeMoved DEF ReaderInv, OrderInv
  <2> QED
    BY <1>1, <1>4, <2>1, <2>2 DEF ReaderInv, OrderInv
<1>8. CountInv(r)'
  <2>1. Len(got[r]) \in Nat /\ Len(calls[r]) \in Nat /\ Len(frames[r]) \in Nat /\ drops[r] \in Nat
    BY <1>1, FramesAreNat
  <2>2. Len(got[r]) + Len(calls'[r]) + Len(frames'[r]) + drops[r]
          = Len(got[r]) + Len(calls[r]) + Len(frames[r]) + drops[r]
    <3> DEFINE a == Len(got[r])
               b == Len(calls[r])
               c == Len(frames[r])
               d == drops[r]
    <3>1. a + (b + 1) + (c - 1) + d = a + b + c + d
      <4>1. a \in Nat /\ b \in Nat /\ c \in Nat /\ d \in Nat
        BY <2>1
      <4> HIDE DEF a, b, c, d
      <4> QED
        BY <4>1
    <3> QED
      BY <1>2, <3>1
  <2> QED
    BY <1>1, <1>4, <2>2 DEF ReaderInv, CountInv
<1>9. ReaderInv(r)'
  BY <1>6, <1>7, <1>8 DEF ReaderInv
<1> QED
  BY <1>4, <1>9, OthersKept

LEMMA EndsKept ==
  ASSUME TypeInv, ReadersInv, NEW r \in Reader, ForwarderEnds(r)
  PROVE  ReadersInv'
<1>1. /\ ReaderInv(r) /\ ReadersTypeOK
      /\ got[r] \in Seq(Nat) /\ calls[r] \in Seq(Nat) /\ frames[r] \in Seq(Nat) /\ ticks \in Nat
  BY FramesAreNat DEF ReadersInv, TypeInv
<1>2. /\ Len(calls'[r]) = Len(calls[r]) + 1
      /\ \A i \in 1 .. Len(calls[r]) : calls'[r][i] = calls[r][i]
      /\ calls'[r][Len(calls[r]) + 1] = End
  BY <1>1, EndsFacts
<1>3. /\ UNCHANGED <<open, cmds, ticks, readers, frames, drops, readable, got, since>>
      /\ r \in forwarding /\ frames[r] = <<>> /\ ~HasSender(r)
      /\ forwarding' = forwarding \ {r}
      /\ \A q \in Reader : q # r => calls'[q] = calls[q]
  BY <1>1 DEF ForwarderEnds, ReadersTypeOK
<1>4. r \notin readers /\ ~Waits(r) /\ readable[r] # "none" /\ readable[r] # "ended"
  BY <1>1, <1>3 DEF ReaderInv, ForwardInv, HasSender, Waits
<1>5. \A i \in 1 .. Len(calls'[r]) : i \in 1 .. Len(calls[r]) \/ i = Len(calls'[r])
  BY <1>1, <1>2
<1>6. ForwardInv(r)'
  <2>1. ~Waits(r)'
    BY <1>3, <1>4 DEF Waits, Create
  <2>2. \A i \in 1 .. Len(calls[r]) : calls[r][i] # End
    BY <1>1, <1>3 DEF ReaderInv, ForwardInv
  <2> QED
    BY <1>1, <1>2, <1>3, <1>4, <1>5, <2>1, <2>2 DEF ReaderInv, ForwardInv
<1>7. OrderInv(r)'
  <2>1. Len(calls[r]) \in Nat /\ Len(calls'[r]) = Len(calls[r]) + 1
    BY <1>1, <1>2
  <2>2. Ascends(calls'[r])
    <3> SUFFICES ASSUME NEW i \in 1 .. Len(calls'[r]), NEW j \in 1 .. Len(calls'[r]), i < j, calls'[r][j] # End
                 PROVE  calls'[r][i] < calls'[r][j]
      BY DEF Ascends
    <3>1. j \in 1 .. Len(calls[r])
      BY <1>2, <1>5, <2>1
    <3>2. i \in 1 .. Len(calls[r])
      BY <2>1, <3>1
    <3> QED
      BY <1>1, <1>2, <3>1, <3>2 DEF ReaderInv, OrderInv, Ascends
  <2>3. Before(got[r], calls'[r])
    BY <1>1, <1>2, <1>5, <2>1 DEF ReaderInv, OrderInv, Before
  <2>4. Before(calls'[r], frames[r])
    BY <1>3 DEF Before
  <2>5. UpTo(calls'[r], ticks)
    <3>1. calls'[r][Len(calls'[r])] <= ticks
      BY <1>1, <1>2 DEF End
    <3>2. \A i \in 1 .. Len(calls[r]) : calls'[r][i] <= ticks
      BY <1>1, <1>2 DEF ReaderInv, OrderInv, UpTo
    <3> QED
      BY <1>5, <3>1, <3>2 DEF UpTo
  <2> QED
    BY <1>1, <1>3, <2>2, <2>3, <2>4, <2>5 DEF ReaderInv, OrderInv
<1>8. CountInv(r)'
  BY <1>3, <1>4 DEF CountInv
<1>9. ReaderInv(r)'
  BY <1>6, <1>7, <1>8 DEF ReaderInv
<1> QED
  BY <1>3, <1>9, OthersKept

LEMMA CalledKept ==
  ASSUME TypeInv, ReadersInv, NEW r \in Reader, Called(r)
  PROVE  ReadersInv'
<1>1. /\ ReaderInv(r) /\ ReadersTypeOK
      /\ got[r] \in Seq(Nat) /\ calls[r] \in Seq(Nat) /\ frames[r] \in Seq(Nat) /\ ticks \in Nat
      /\ Len(got[r]) \in Nat /\ Len(calls[r]) \in Nat
  BY FramesAreNat DEF ReadersInv, TypeInv
<1>2. /\ UNCHANGED <<open, cmds, ticks, readers, frames, drops, forwarding, since>> /\ calls[r] # <<>>
      /\ \A q \in Reader : q # r => calls'[q] = calls[q] /\ got'[q] = got[q] /\ readable'[q] = readable[q]
  <2>1. UNCHANGED <<open, cmds, ticks, readers, frames, drops, forwarding, since>> /\ calls[r] # <<>>
    BY DEF Called
  <2>2. \A q \in Reader : q # r => calls'[q] = calls[q]
    BY <1>1 DEF Called, ReadersTypeOK
  <2>3. \A q \in Reader : q # r => got'[q] = got[q] /\ readable'[q] = readable[q]
    BY <1>1 DEF Called, ReadersTypeOK
  <2> QED
    BY <2>1, <2>2, <2>3
<1>3. /\ Len(calls'[r]) = Len(calls[r]) - 1 /\ Len(calls[r]) # 0
      /\ \A i \in 1 .. Len(calls'[r]) : calls'[r][i] = calls[r][i + 1] /\ i + 1 \in 1 .. Len(calls[r])
  BY <1>1, CalledFacts
<1>4. calls'[r] \in Seq(Nat)
  <2>1. calls'[r] \in Seq(0 .. MaxTicks) /\ 0 .. MaxTicks \subseteq Nat
    BY <1>1, CalledFacts, ConstantsAreTyped
  <2> QED
    BY <2>1, SeqWidened
<1>5. ~Waits(r) /\ readable[r] # "none" /\ readable[r] # "ended"
  BY <1>1, <1>2 DEF ReaderInv, ForwardInv, Fresh
<1>6. ~Waits(r)'
  BY <1>2, <1>5 DEF Waits, Create
<1>7. calls[r][1] = End => calls'[r] = <<>> /\ r \notin forwarding
  <2>1. 1 \in 1 .. Len(calls[r])
    BY <1>1, <1>3
  <2>2. calls[r][1] = End => Len(calls[r]) = 1 /\ r \notin forwarding
    BY <1>1, <2>1 DEF ReaderInv, ForwardInv
  <2> QED
    BY <1>3, <1>4, <2>2
<1>8. readable'[r] # "none" /\ (readable'[r] = "ended" => calls'[r] = <<>> /\ r \notin forwarding)
  BY <1>1, <1>5, <1>7, CalledFacts DEF ReadersTypeOK
<1>9. ForwardInv(r)'
  <2>1. \A i \in 1 .. Len(calls'[r]) : calls'[r][i] = End => i = Len(calls'[r]) /\ r \notin forwarding
    <3> SUFFICES ASSUME NEW i \in 1 .. Len(calls'[r]), calls'[r][i] = End
                 PROVE  i = Len(calls'[r]) /\ r \notin forwarding
      OBVIOUS
    <3>1. calls[r][i + 1] = End /\ i + 1 \in 1 .. Len(calls[r])
      BY <1>3
    <3>2. i + 1 = Len(calls[r]) /\ r \notin forwarding
      BY <1>1, <3>1 DEF ReaderInv, ForwardInv
    <3>3. Len(calls[r]) \in Nat /\ Len(calls'[r]) = Len(calls[r]) - 1 /\ i \in Nat
      BY <1>1, <1>3
    <3> QED
      BY <3>2, <3>3
  <2> QED
    BY <1>1, <1>2, <1>6, <1>8, <2>1 DEF ReaderInv, ForwardInv
<1>10. CASE got' = got
  <2>1. Ascends(calls'[r])
    <3> SUFFICES ASSUME NEW i \in 1 .. Len(calls'[r]), NEW j \in 1 .. Len(calls'[r]), i < j, calls'[r][j] # End
                 PROVE  calls'[r][i] < calls'[r][j]
      BY DEF Ascends
    <3>1. /\ calls'[r][i] = calls[r][i + 1] /\ calls'[r][j] = calls[r][j + 1]
          /\ i + 1 \in 1 .. Len(calls[r]) /\ j + 1 \in 1 .. Len(calls[r]) /\ i + 1 < j + 1
      BY <1>3
    <3> QED
      BY <1>1, <3>1 DEF ReaderInv, OrderInv, Ascends
  <2>2. Before(got[r], calls'[r]) /\ Before(calls'[r], frames[r]) /\ UpTo(calls'[r], ticks)
    BY <1>1, <1>3 DEF ReaderInv, OrderInv, Before, UpTo
  <2>3. OrderInv(r)'
    BY <1>1, <1>2, <1>10, <2>1, <2>2 DEF ReaderInv, OrderInv
  <2>4. CountInv(r)'
    <3>0. Len(got'[r]) # Len(got[r]) + 1
      BY <1>1, <1>10
    <3>1. readable'[r] # "open" \/ r \notin readers
      <4>1. \/ readable' = [readable EXCEPT ![r] = "ended"]
            \/ readable[r] # "open" /\ readable' = readable
        BY <1>1, <3>0, CalledFacts
      <4> QED
        BY <1>1, <4>1 DEF ReadersTypeOK
    <3> QED
      BY <1>2, <3>1 DEF CountInv
  <2>5. ReaderInv(r)'
    BY <1>9, <2>3, <2>4 DEF ReaderInv
  <2> QED
    BY <1>2, <2>5, OthersKept
<1>11. CASE got' # got
  <2>1. /\ calls[r][1] # End /\ readable' = readable
        /\ got'[r] \in Seq(1 .. MaxTicks) /\ Len(got'[r]) = Len(got[r]) + 1
        /\ \A i \in 1 .. Len(got[r]) : got'[r][i] = got[r][i]
        /\ got'[r][Len(got[r]) + 1] = calls[r][1]
    BY <1>1, <1>11, CalledFacts
  <2>2. got'[r] \in Seq(Nat)
    <3>1. 1 .. MaxTicks \subseteq Nat
      BY ConstantsAreTyped
    <3> QED
      BY <2>1, <3>1, SeqWidened
  <2>0. Moves(got[r], calls[r], got'[r], calls'[r])
    BY <1>2, <1>3, <2>1 DEF Moves
  <2>3. /\ Ascends(got'[r]) /\ Ascends(calls'[r]) /\ Before(got'[r], calls'[r])
        /\ UpTo(got'[r], ticks) /\ UpTo(calls'[r], ticks)
    BY <1>1, <1>4, <2>0, <2>1, <2>2, OrderMoved DEF ReaderInv, OrderInv
  <2>4. Before(got'[r], frames[r]) /\ Before(calls'[r], frames[r])
    <3> DEFINE s == got[r]
               t == calls[r]
               s2 == got'[r]
               t2 == calls'[r]
               g == frames[r]
    <3>1. Before(s, g) /\ Before(t, g)
      BY <1>1 DEF ReaderInv, OrderInv
    <3>2. /\ s \in Seq(Nat) /\ t \in Seq(Nat) /\ s2 \in Seq(Nat) /\ t2 \in Seq(Nat) /\ g \in Seq(Nat)
          /\ Moves(s, t, s2, t2)
      BY <1>1, <1>4, <2>0, <2>2
    <3> HIDE DEF s, t, s2, t2, g
    <3>3. Before(s2, g) /\ Before(t2, g)
      BY <3>1, <3>2, BeforeMoved
    <3> QED
      BY <3>3 DEF s2, t2, g
  <2>5. OrderInv(r)'
    BY <1>1, <1>2, <2>3, <2>4 DEF ReaderInv, OrderInv
  <2>6. Len(got'[r]) + Len(calls'[r]) + Len(frames[r]) + drops[r]
          = Len(got[r]) + Len(calls[r]) + Len(frames[r]) + drops[r]
    <3>1. Len(frames[r]) \in Nat /\ drops[r] \in Nat
      BY <1>1, FramesAreNat
    <3> DEFINE a == Len(got[r])
               b == Len(calls[r])
               c == Len(frames[r])
               d == drops[r]
    <3>2. (a + 1) + (b - 1) + c + d = a + b + c + d
      <4>1. a \in Nat /\ b \in Nat /\ c \in Nat /\ d \in Nat
        BY <1>1, <3>1
      <4> HIDE DEF a, b, c, d
      <4> QED
        BY <4>1
    <3> QED
      BY <1>3, <2>1, <3>2
  <2>7. CountInv(r)'
    BY <1>1, <1>2, <2>1, <2>6 DEF ReaderInv, CountInv
  <2>8. ReaderInv(r)'
    BY <1>9, <2>5, <2>7 DEF ReaderInv
  <2> QED
    BY <1>2, <2>8, OthersKept
<1> QED
  BY <1>10, <1>11

LEMMA StepKept == TypeInv /\ ReadersInv /\ [ReadersNext]_readersVars => ReadersInv'
<1> SUFFICES ASSUME TypeInv, ReadersInv, [ReadersNext]_readersVars
             PROVE  ReadersInv'
  OBVIOUS
<1>1. CASE UNCHANGED readersVars
  <2>1. OnceInv' /\ \A q \in Reader : Waits(q)' => Waits(q)
    BY <1>1 DEF readersVars, reading, ReadersInv, OnceInv, Waits, Create
  <2> QED
    BY <1>1, <2>1, ReaderKept DEF readersVars, reading, ReadersInv
<1>2. CASE JavaScriptReads
  BY <1>2, CreateKept, DestroyKept, CloseCallKept DEF JavaScriptReads
<1>3. CASE TickReaders \/ TakeReaderCommand
  BY <1>3, FeedKept, TakeKept
<1>4. ASSUME NEW r \in Reader, Called(r) \/ Forwarder(r)
      PROVE  ReadersInv'
  BY <1>4, CalledKept, ForwardKept, EndsKept DEF Forwarder
<1> QED
  BY <1>1, <1>2, <1>3, <1>4 DEF ReadersNext

LEMMA InvariantHolds == ReadersSpec => [](TypeInv /\ ReadersInv)
  BY InitTyped, StepTyped, InitReaders, StepKept, PTL DEF ReadersSpec

\* However slow JavaScript is, and whatever it asks for in between: each frame that a
\* reader was fed is delivered, on its way in order, or counted as dropped, and a
\* slow reader costs no other a frame.
THEOREM FramesAreCounted == ReadersSpec => []FramesCounted
<1>1. ASSUME TypeInv, ReadersInv, NEW r \in Reader
      PROVE  /\ \A i, j \in 1 .. Len(Kept(r)) : i < j /\ Kept(r)[j] # End => Kept(r)[i] < Kept(r)[j]
             /\ r \in readers /\ readable[r] = "open" => Len(Kept(r)) + drops[r] = ticks - since[r]
  <2>1. /\ ReaderInv(r)
        /\ got[r] \in Seq(Nat) /\ calls[r] \in Seq(Nat) /\ frames[r] \in Seq(Nat)
    BY <1>1, FramesAreNat DEF ReadersInv, TypeInv
  <2>2. got[r] \o calls[r] \in Seq(Nat) /\ Len(got[r] \o calls[r]) = Len(got[r]) + Len(calls[r])
    BY <2>1
  <2>3. Ascends(got[r] \o calls[r]) /\ Before(got[r] \o calls[r], frames[r])
    BY <2>1, AscendsJoined, BeforeJoined DEF ReaderInv, OrderInv
  <2>4. Ascends(Kept(r))
    BY <2>1, <2>2, <2>3, AscendsJoined DEF Kept, ReaderInv, OrderInv
  <2>5. Len(Kept(r)) = Len(got[r]) + Len(calls[r]) + Len(frames[r])
    BY <2>1, <2>2 DEF Kept
  <2> QED
    BY <2>1, <2>4, <2>5 DEF Ascends, ReaderInv, CountInv
<1>2. TypeInv /\ ReadersInv => FramesCounted
  BY <1>1 DEF FramesCounted
<1> QED
  BY InvariantHolds, <1>2, PTL

\* The End of a reader is its forwarder's last call: a stream that has ended was given
\* all that was not dropped, and none comes after it.
THEOREM EndComesLast == ReadersSpec => []EndIsLast
<1>1. TypeInv /\ ReadersInv => EndIsLast
  BY DEF ReadersInv, ReaderInv, ForwardInv, EndIsLast
<1> QED
  BY InvariantHolds, <1>1, PTL

-----------------------------------------------------------------------------
(* Induction over the natural numbers, from the well-founded order of them. *)

Below == {ss \in Nat \X Nat : ss[1] < ss[2]}

LEMMA BelowIsWellFounded == IsWellFoundedOn(Below, Nat)
  BY NatLessThanWellFounded, SMT DEF OpToRel, Below

LEMMA Induction ==
  ASSUME NEW S, 0 \in S, \A n \in Nat : n \in S => n + 1 \in S
  PROVE  Nat \subseteq S
<1> DEFINE T == Nat \ S
<1>1. SUFFICES ASSUME T # {} PROVE FALSE
  OBVIOUS
<1>2. \A x, y \in Nat : <<y, x>> \in Below <=> y < x
  BY DEF Below
<1>3. PICK x \in T : \A y \in T : <<y, x>> \notin Below
  BY BelowIsWellFounded, <1>1, WFMin
<1>4. x \in Nat /\ x # 0 /\ x - 1 \in Nat /\ x - 1 < x /\ (x - 1) + 1 = x
  BY <1>3
<1>5. x - 1 \in T
  BY <1>3, <1>4
<1> QED
  BY <1>2, <1>3, <1>4, <1>5

-----------------------------------------------------------------------------
(* FlattenSeq of the community modules. *)

\* f[n] joins the first n sequences of q.
Joins(q, f) == f = [i \in 1 .. Len(q) |-> IF i = 1 THEN q[i] ELSE f[i - 1] \o q[i]]

Joining(q) == CHOOSE f : Joins(q, f)

LEMMA FlattenIsJoining ==
  ASSUME NEW S, NEW q \in Seq(Seq(S)), q # <<>>
  PROVE  FlattenSeq(q) = Joining(q)[Len(q)]
  BY DEF FlattenSeq, Joining, Joins

\* A function that joins q is extended by one that joins q and one more.
LEMMA JoinsMore ==
  ASSUME NEW S, NEW q \in Seq(Seq(S)), NEW x \in Seq(S), NEW f, Joins(q, f)
  PROVE  \E g : Joins(Append(q, x), g)
<1> DEFINE r == Append(q, x)
           n == Len(q)
           g == [i \in 1 .. n + 1 |-> IF i <= n THEN f[i] ELSE IF n = 0 THEN x ELSE f[n] \o x]
<1>1. /\ n \in Nat /\ Len(r) = n + 1 /\ r[n + 1] = x
      /\ \A i \in 1 .. n : r[i] = q[i]
  OBVIOUS
<1> HIDE DEF r
<1>2. \A i \in 1 .. n : f[i] = IF i = 1 THEN q[i] ELSE f[i - 1] \o q[i]
  BY DEF Joins
<1>3. ASSUME NEW i \in 1 .. n + 1
      PROVE  g[i] = IF i = 1 THEN r[i] ELSE g[i - 1] \o r[i]
  <2>1. CASE i <= n /\ i = 1
    BY <1>1, <1>2, <2>1
  <2>2. CASE i <= n /\ i # 1
    <3>1. i - 1 \in 1 .. n + 1 /\ i - 1 <= n /\ i \in 1 .. n
      BY <1>1, <2>2
    <3>2. g[i] = f[i] /\ g[i - 1] = f[i - 1]
      BY <2>2, <3>1
    <3>3. f[i] = f[i - 1] \o q[i]
      BY <1>2, <2>2, <3>1
    <3> QED
      BY <1>1, <2>2, <3>1, <3>2, <3>3
  <2>3. CASE i = n + 1 /\ n = 0
    BY <1>1, <2>3
  <2>4. CASE i = n + 1 /\ n # 0
    <3>1. g[i] = f[n] \o x /\ g[i - 1] = f[n]
      BY <1>1, <2>4
    <3> QED
      BY <1>1, <2>4, <3>1
  <2> QED
    BY <1>1, <2>1, <2>2, <2>3, <2>4
<1> HIDE DEF g
<1>4. g = [i \in 1 .. n + 1 |-> g[i]]
  BY DEF g
<1>5. g = [i \in 1 .. n + 1 |-> IF i = 1 THEN r[i] ELSE g[i - 1] \o r[i]]
  BY <1>3, <1>4
<1>6. Joins(r, g)
  BY <1>1, <1>5 DEF Joins
<1> QED
  BY <1>6 DEF r

\* Every sequence of sequences has such a function.
LEMMA JoiningJoins ==
  ASSUME NEW S, NEW q \in Seq(Seq(S))
  PROVE  Joins(q, Joining(q))
<1> DEFINE P == {n \in Nat : \A r \in Seq(Seq(S)) : Len(r) = n => \E f : Joins(r, f)}
<1>1. 0 \in P
  <2>1. ASSUME NEW r \in Seq(Seq(S)), Len(r) = 0
        PROVE  Joins(r, [i \in 1 .. Len(r) |-> <<>>])
    BY <2>1 DEF Joins
  <2> QED
    BY <2>1
<1>2. ASSUME NEW n \in Nat, n \in P
      PROVE  n + 1 \in P
  <2>1. ASSUME NEW r \in Seq(Seq(S)), Len(r) = n + 1
        PROVE  \E f : Joins(r, f)
    <3> DEFINE s == SubSeq(r, 1, n)
    <3>1. s \in Seq(Seq(S)) /\ Len(s) = n /\ r = Append(s, r[n + 1]) /\ r[n + 1] \in Seq(S)
      BY <2>1
    <3> HIDE DEF s
    <3>2. PICK f : Joins(s, f)
      BY <1>2, <3>1
    <3> QED
      BY <3>1, <3>2, JoinsMore
  <2> QED
    BY <2>1
<1> HIDE DEF P
<1>3. Nat \subseteq P
  BY <1>1, <1>2, Induction
<1>4. \E f : Joins(q, f)
  BY <1>3 DEF P
<1> QED
  BY <1>4 DEF Joining

\* It joins the first n of Append(q, x) as it joins those of q, into a sequence.
LEMMA JoiningFacts ==
  ASSUME NEW S, NEW q \in Seq(Seq(S)), NEW x \in Seq(S)
  PROVE  \A i \in 1 .. Len(q) : Joining(q)[i] \in Seq(S) /\ Joining(Append(q, x))[i] = Joining(q)[i]
<1> DEFINE r == Append(q, x)
           f == Joining(q)
           g == Joining(r)
           P == {n \in Nat : n \in 1 .. Len(q) => f[n] \in Seq(S) /\ g[n] = f[n]}
<1>1. /\ r \in Seq(Seq(S)) /\ Len(r) = Len(q) + 1 /\ Len(q) \in Nat
      /\ \A i \in 1 .. Len(q) : r[i] = q[i] /\ q[i] \in Seq(S)
  OBVIOUS
<1> HIDE DEF r
<1>2. Joins(q, f) /\ Joins(r, g)
  BY <1>1, JoiningJoins
<1> HIDE DEF f, g
<1>3. \A i \in 1 .. Len(q) : f[i] = IF i = 1 THEN q[i] ELSE f[i - 1] \o q[i]
  BY <1>2 DEF Joins
<1>4. \A i \in 1 .. Len(q) + 1 : g[i] = IF i = 1 THEN r[i] ELSE g[i - 1] \o r[i]
  BY <1>1, <1>2 DEF Joins
<1>5. 0 \in P
  OBVIOUS
<1>6. ASSUME NEW n \in Nat, n \in P
      PROVE  n + 1 \in P
  <2>1. CASE n = 0
    <3>1. SUFFICES ASSUME 1 \in 1 .. Len(q) PROVE f[1] \in Seq(S) /\ g[1] = f[1]
      BY <2>1
    <3>2. f[1] = q[1] /\ q[1] \in Seq(S) /\ r[1] = q[1]
      BY <1>1, <1>3, <3>1
    <3>3. g[1] = r[1]
      <4>1. 1 \in 1 .. Len(q) + 1
        BY <1>1
      <4> QED
        BY <1>4, <4>1
    <3> QED
      BY <3>2, <3>3
  <2>2. CASE n # 0 /\ n + 1 \in 1 .. Len(q)
    <3>1. n \in 1 .. Len(q) /\ n + 1 \in 1 .. Len(q) + 1 /\ (n + 1) - 1 = n /\ n + 1 # 1
      BY <1>1, <2>2
    <3>2. f[n] \in Seq(S) /\ g[n] = f[n]
      BY <1>6, <3>1
    <3>3. f[n + 1] = f[n] \o q[n + 1]
      BY <1>3, <2>2, <3>1
    <3>4. g[n + 1] = g[n] \o r[n + 1]
      BY <1>4, <3>1
    <3>5. r[n + 1] = q[n + 1] /\ q[n + 1] \in Seq(S)
      BY <1>1, <2>2
    <3>6. f[n] \o q[n + 1] \in Seq(S)
      BY <3>2, <3>5
    <3>7. f[n + 1] \in Seq(S) /\ g[n + 1] = f[n + 1]
      BY <3>2, <3>3, <3>4, <3>5, <3>6
    <3> QED
      BY <3>7
  <2> QED
    BY <1>6, <2>1, <2>2
<1> HIDE DEF P
<1>7. Nat \subseteq P
  BY <1>5, <1>6, Induction
<1> QED
  BY <1>7 DEF P, f, g, r

LEMMA FlattenEmpty == FlattenSeq(<<>>) = <<>>
  BY DEF FlattenSeq

LEMMA FlattenAppend ==
  ASSUME NEW S, NEW q \in Seq(Seq(S)), NEW x \in Seq(S)
  PROVE  /\ FlattenSeq(q) \in Seq(S)
         /\ FlattenSeq(Append(q, x)) = FlattenSeq(q) \o x
<1> DEFINE r == Append(q, x)
           n == Len(q)
<1>0. r \in Seq(Seq(S)) /\ Len(r) = n + 1 /\ n \in Nat /\ r[n + 1] = x
  OBVIOUS
<1>1. /\ r \in Seq(Seq(S)) /\ Len(r) = n + 1 /\ n \in Nat /\ r[n + 1] = x
      /\ r # <<>>
  <2> HIDE DEF r
  <2> QED
    BY <1>0
<1>2. \A i \in 1 .. n : Joining(q)[i] \in Seq(S) /\ Joining(r)[i] = Joining(q)[i]
  BY JoiningFacts
<1> HIDE DEF r
<1>3. FlattenSeq(r) = Joining(r)[n + 1]
  BY <1>1, FlattenIsJoining
<1>4. \A i \in 1 .. n + 1 : Joining(r)[i] = IF i = 1 THEN r[i] ELSE Joining(r)[i - 1] \o r[i]
  <2>1. Joins(r, Joining(r))
    BY <1>1, JoiningJoins
  <2> DEFINE g == Joining(r)
  <2>2. Joins(r, g)
    BY <2>1
  <2> HIDE DEF g
  <2>3. \A i \in 1 .. n + 1 : g[i] = IF i = 1 THEN r[i] ELSE g[i - 1] \o r[i]
    BY <1>1, <2>2 DEF Joins
  <2> QED
    BY <2>3 DEF g
<1>5. CASE q = <<>>
  <2>1. n = 0 /\ Joining(r)[1] = x
    BY <1>1, <1>4, <1>5
  <2>2. FlattenSeq(r) = x
    BY <1>3, <2>1
  <2>3. FlattenSeq(q) = <<>>
    BY <1>5, FlattenEmpty
  <2>4. <<>> \o x = x /\ <<>> \in Seq(S)
    OBVIOUS
  <2> QED
    BY <2>2, <2>3, <2>4 DEF r
<1>6. CASE q # <<>>
  <2>1. n \in 1 .. n /\ n + 1 \in 1 .. n + 1 /\ n + 1 # 1 /\ (n + 1) - 1 = n
    BY <1>1, <1>6
  <2>2. FlattenSeq(q) = Joining(q)[n]
    BY <1>6, FlattenIsJoining
  <2>3. Joining(r)[n + 1] = Joining(r)[n] \o x
    BY <1>1, <1>4, <2>1
  <2> QED
    BY <1>2, <1>3, <2>1, <2>2, <2>3 DEF r
<1> QED
  BY <1>5, <1>6
-----------------------------------------------------------------------------
(* The inductive invariant of Writers. *)

\* s goes on where n samples end.
Continues(s, n) == \A i \in 1 .. Len(s) : s[i] = n + i

\* The command to create w is on its way.
Coming(w) == \E i \in 1 .. Len(cmds) : cmds[i] = Create(w)

Held(w) == IF writer = w THEN buffered ELSE <<>>

Pushed(w) == FlattenSeq(queue[w])

Pushing(w) == IF pending[w] = None THEN <<>> ELSE pending[w]

\* A stream that JavaScript has not made has no writer.
Unborn(w) ==
  writable[w] = "none" =>
    /\ ~Coming(w) /\ writer # w
    /\ told[w] = 0 /\ written[w] = 0
    /\ played[w] = <<>> /\ queue[w] = <<>> /\ pending[w] = None

\* What is still to be created has not played.
NotYet(w) ==
  Coming(w) =>
    /\ writer # w /\ told[w] = 0 /\ played[w] = <<>>

\* JavaScript may push as long as its stream has not ended; nothing waits to be
\* pushed when it has, if it was not stopped.
Pushes(w) ==
  /\ w \in senders <=> writable[w] \in {"open", "ending"}
  /\ w \in senders \/ w \in halted \/ pending[w] = None

\* h, q and x follow each other where p samples end, and end with the n-th.
Follow(h, q, x, p, n) ==
  /\ Continues(h, p)
  /\ Continues(q, p + Len(h))
  /\ Continues(x, p + Len(h) + Len(q))
  /\ p + Len(h) + Len(q) + Len(x) = n

\* What was played, is held, was pushed and is being pushed follow each other
\* and are all that was written, as long as the writer is there to get it.
InLine(w) ==
  /\ Len(played[w]) <= written[w] /\ Continues(played[w], 0)
  /\ Alive(w) => Follow(Held(w), Pushed(w), Pushing(w), Len(played[w]), written[w])

\* A writer that plays has not told its end, and one that told it has played all
\* but less than a frame.
Tells(w) ==
  /\ writer = w => told[w] = 0
  /\ told[w] > 0 =>
       /\ w \notin senders /\ writer # w
       /\ Len(played[w]) + Frame > written[w] \/ w \in halted

InvOf(w) == Unborn(w) /\ NotYet(w) /\ Pushes(w) /\ InLine(w) /\ Tells(w)

WriterInv == WritersTypeOK /\ OnceInv /\ \A w \in Writer : InvOf(w)


-----------------------------------------------------------------------------
(* Sequences. *)

LEMMA FlattenTyped ==
  ASSUME NEW S, NEW q \in Seq(Seq(S))
  PROVE  FlattenSeq(q) \in Seq(S)
<1>1. <<>> \in Seq(S)
  OBVIOUS
<1> QED
  BY <1>1, FlattenAppend

LEMMA EmptyContinues == \A n : Continues(<<>>, n)
  BY DEF Continues

LEMMA Joined ==
  ASSUME NEW S, NEW s \in Seq(S), NEW t \in Seq(S), NEW n \in Nat,
         Continues(s, n), Continues(t, n + Len(s))
  PROVE  s \o t \in Seq(S) /\ Len(s \o t) = Len(s) + Len(t) /\ Continues(s \o t, n)
<1>1. s \o t \in Seq(S) /\ Len(s \o t) = Len(s) + Len(t) /\ Len(s) \in Nat /\ Len(t) \in Nat
  OBVIOUS
<1>2. ASSUME NEW i \in 1 .. Len(s) + Len(t)
      PROVE  (s \o t)[i] = n + i
  <2>1. CASE i \in 1 .. Len(s)
    <3>1. (s \o t)[i] = s[i]
      BY <2>1
    <3> QED
      BY <2>1, <3>1 DEF Continues
  <2>2. CASE i \notin 1 .. Len(s)
    <3>1. i - Len(s) \in 1 .. Len(t) /\ (s \o t)[i] = t[i - Len(s)]
      BY <1>1, <2>2
    <3>2. t[i - Len(s)] = n + Len(s) + (i - Len(s))
      BY <3>1 DEF Continues
    <3> QED
      BY <1>1, <3>1, <3>2
  <2> QED
    BY <2>1, <2>2
<1> QED
  BY <1>1, <1>2 DEF Continues

LEMMA Cut ==
  ASSUME NEW S, NEW s \in Seq(S), NEW n \in Nat, Continues(s, n), NEW k \in 0 .. Len(s)
  PROVE  /\ SubSeq(s, 1, k) \in Seq(S) /\ Len(SubSeq(s, 1, k)) = k
         /\ SubSeq(s, k + 1, Len(s)) \in Seq(S) /\ Len(SubSeq(s, k + 1, Len(s))) = Len(s) - k
         /\ Continues(SubSeq(s, 1, k), n) /\ Continues(SubSeq(s, k + 1, Len(s)), n + k)
<1> DEFINE a == SubSeq(s, 1, k)
           b == SubSeq(s, k + 1, Len(s))
<1>1. /\ a \in Seq(S) /\ Len(a) = k /\ b \in Seq(S) /\ Len(b) = Len(s) - k
      /\ \A i \in 1 .. k : a[i] = s[i] /\ i \in 1 .. Len(s)
      /\ \A i \in 1 .. Len(s) - k : b[i] = s[k + i] /\ k + i \in 1 .. Len(s)
  <2>1. Len(s) \in Nat /\ k \in Nat /\ k <= Len(s)
    OBVIOUS
  <2>2. a \in Seq(S) /\ Len(a) = k /\ \A i \in 1 .. k : a[i] = s[i] /\ i \in 1 .. Len(s)
    BY <2>1
  <2>3. b \in Seq(S) /\ Len(b) = Len(s) - k
    BY <2>1
  <2>4. \A i \in 1 .. Len(s) - k : k + i \in 1 .. Len(s)
    BY <2>1
  <2>5. \A i \in 1 .. Len(s) - k : b[i] = s[k + i]
    BY <2>1
  <2> QED
    BY ONLY <2>2, <2>3, <2>4, <2>5
<1> HIDE DEF a, b
<1>2. Continues(a, n) /\ Continues(b, n + k)
  BY <1>1 DEF Continues
<1> QED
  BY <1>1, <1>2 DEF a, b

LEMMA FollowJoined ==
  ASSUME NEW S, NEW h \in Seq(S), NEW q \in Seq(S), NEW x \in Seq(S), NEW p \in Nat, NEW n \in Nat,
         Follow(h, q, x, p, n)
  PROVE  Follow(h, q \o x, <<>>, p, n)
<1> DEFINE y == q \o x
           b == p + Len(h)
<1>1. Len(h) \in Nat /\ Len(q) \in Nat /\ Len(x) \in Nat /\ b \in Nat
  OBVIOUS
<1>2. Continues(h, p) /\ Continues(q, b) /\ Continues(x, b + Len(q)) /\ b + Len(q) + Len(x) = n
  BY DEF Follow
<1> HIDE DEF b
<1>3. Len(y) = Len(q) + Len(x) /\ Continues(y, b)
  BY <1>1, <1>2, Joined
<1> HIDE DEF y
<1>4. b + Len(y) = n /\ b + Len(y) + 0 = n
  BY <1>1, <1>2, <1>3
<1>5. Len(<<>>) = 0
  OBVIOUS
<1>6. Follow(h, y, <<>>, p, n)
  BY <1>2, <1>3, <1>4, <1>5, EmptyContinues DEF Follow, b
<1> QED
  BY <1>6 DEF y

LEMMA FollowTaken ==
  ASSUME NEW S, NEW h \in Seq(S), NEW q \in Seq(S), NEW x \in Seq(S), NEW p \in Nat, NEW n \in Nat,
         Follow(h, q, x, p, n), NEW k \in 0 .. Len(h \o q)
  PROVE  LET y == h \o q
             a == SubSeq(y, 1, k)
             b == SubSeq(y, k + 1, Len(y))
         IN  /\ y \in Seq(S) /\ a \in Seq(S) /\ b \in Seq(S)
             /\ Len(a) = k /\ Len(b) = Len(y) - k /\ p + Len(y) + Len(x) = n
             /\ Continues(a, p) /\ Follow(b, <<>>, x, p + k, n)
<1> DEFINE y == h \o q
           a == SubSeq(y, 1, k)
           b == SubSeq(y, k + 1, Len(y))
<1>1. Len(h) \in Nat /\ Len(q) \in Nat /\ Len(x) \in Nat /\ p + Len(h) \in Nat
  OBVIOUS
<1>2. Continues(h, p) /\ Continues(q, p + Len(h)) /\ Continues(x, p + Len(h) + Len(q))
      /\ p + Len(h) + Len(q) + Len(x) = n
  BY DEF Follow
<1>3. y \in Seq(S) /\ Len(y) = Len(h) + Len(q) /\ Continues(y, p)
  BY <1>2, Joined
<1>0. k \in 0 .. Len(y)
  OBVIOUS
<1> HIDE DEF y
<1>4. /\ a \in Seq(S) /\ Len(a) = k /\ b \in Seq(S) /\ Len(b) = Len(y) - k
      /\ Continues(a, p) /\ Continues(b, p + k)
  <2>1. y \in Seq(S) /\ Continues(y, p) /\ k \in 0 .. Len(y)
    BY <1>0, <1>3
  <2>2. /\ SubSeq(y, 1, k) \in Seq(S) /\ Len(SubSeq(y, 1, k)) = k
        /\ SubSeq(y, k + 1, Len(y)) \in Seq(S) /\ Len(SubSeq(y, k + 1, Len(y))) = Len(y) - k
        /\ Continues(SubSeq(y, 1, k), p) /\ Continues(SubSeq(y, k + 1, Len(y)), p + k)
    BY <2>1, Cut
  <2> QED
    BY <2>2
<1> HIDE DEF a, b
<1>5. /\ p + Len(y) + Len(x) = n /\ Continues(x, p + Len(y))
      /\ (p + k) + Len(b) = p + Len(y) /\ (p + k) + Len(b) + 0 = p + Len(y)
  <2>1. k \in Nat /\ k <= Len(y) /\ Len(y) \in Nat
    BY <1>1, <1>3 DEF y
  <2>2. p + Len(y) = p + Len(h) + Len(q)
    BY <1>1, <1>3
  <2> QED
    BY <1>1, <1>2, <1>3, <1>4, <2>1, <2>2
<1>6. Follow(b, <<>>, x, p + k, n)
  <2>1. Len(<<>>) = 0
    OBVIOUS
  <2> QED
    BY <1>4, <1>5, <2>1, EmptyContinues DEF Follow
<1> QED
  BY <1>3, <1>4, <1>5, <1>6 DEF y, a, b

-----------------------------------------------------------------------------
(* Commands. *)

LEMMA WritersConstants ==
  /\ MaxWriters \in Nat /\ MaxSamples \in Nat
  /\ Frame \in Nat \ {0} /\ QueueDepth \in Nat \ {0} /\ CmdDepth \in Nat \ {0}
  /\ \A n \in Chunks : n \in Nat \ {0}
  /\ None \notin Nat /\ \A w \in Writer : w \in Nat /\ w # None
  BY WritersAssumption DEF WritersAssumption, Writer

LEMMA CommandFacts ==
  /\ \A w \in Writer : Create(w) \in Command(Writer) /\ Create(w).op = "create" /\ Create(w).id = w
  /\ \A w \in Writer : Destroy(w) \in Command(Writer) /\ Destroy(w).op = "destroy" /\ Destroy(w).id = w
  /\ [op |-> "close"] \in Command(Writer) /\ [op |-> "close"].op = "close"
  /\ \A c \in Command(Writer) : /\ c.op = "create" => c.id \in Writer /\ c = Create(c.id)
                        /\ c.op = "destroy" => c.id \in Writer
  BY DEF Create, Destroy, Command

LEMMA CommandSent ==
  ASSUME WritersTypeOK, OnceInv, NEW c \in Command(Writer), TrySend(c),
         c.op = "create" => ~Coming(c.id)
  PROVE  /\ cmds' \in Seq(Command(Writer)) /\ Len(cmds') <= CmdDepth /\ OnceInv'
         /\ \A w \in Writer : Coming(w)' <=> Coming(w) \/ (Accepts /\ c = Create(w))
<1>1. CASE Accepts
  <2>1. cmds' = Append(cmds, c) /\ Len(cmds) < CmdDepth /\ cmds \in Seq(Command(Writer))
    BY <1>1 DEF TrySend, Accepts, WritersTypeOK
  <2>2. /\ cmds' \in Seq(Command(Writer)) /\ Len(cmds') = Len(cmds) + 1
        /\ \A i \in 1 .. Len(cmds) : cmds'[i] = cmds[i]
        /\ cmds'[Len(cmds) + 1] = c
    BY <2>1, AppendFacts
  <2>3. Len(cmds) \in Nat /\ 1 .. Len(cmds) + 1 = (1 .. Len(cmds)) \cup {Len(cmds) + 1}
    BY <2>1
  <2>4. \A w \in Writer : Coming(w)' <=> Coming(w) \/ c = Create(w)
    BY <2>2, <2>3 DEF Coming, Create
  <2>5. \A i \in 1 .. Len(cmds) : cmds[i] \in Command(Writer)
    BY <2>1
  <2>6. ASSUME NEW i \in 1 .. Len(cmds), cmds[i] = c, c.op = "create"
        PROVE  FALSE
    <3>1. c = Create(c.id)
      BY <2>6 DEF Command, Create
    <3> QED
      BY <2>6, <3>1 DEF Coming
  <2>7. OnceInv'
    <3>1. ASSUME NEW i \in 1 .. Len(cmds'), NEW j \in 1 .. Len(cmds'),
                 cmds'[i] = cmds'[j], cmds'[i].op = "create"
          PROVE  i = j
      <4>1. CASE i \in 1 .. Len(cmds) /\ j \in 1 .. Len(cmds)
        BY <2>2, <3>1, <4>1 DEF OnceInv
      <4>2. CASE i = Len(cmds) + 1 /\ j \in 1 .. Len(cmds)
        BY <2>2, <2>6, <3>1, <4>2
      <4>3. CASE i \in 1 .. Len(cmds) /\ j = Len(cmds) + 1
        BY <2>2, <2>6, <3>1, <4>3
      <4> QED
        BY <2>2, <2>3, <4>1, <4>2, <4>3
    <3> QED
      BY <3>1 DEF OnceInv
  <2> QED
    BY <1>1, <2>1, <2>2, <2>3, <2>4, <2>7, WritersConstants
<1>2. CASE ~Accepts
  <2>1. cmds' = cmds
    BY <1>2 DEF TrySend
  <2> QED
    <3>1. cmds' \in Seq(Command(Writer)) /\ Len(cmds') <= CmdDepth
      BY <2>1 DEF WritersTypeOK
    <3>2. OnceInv' /\ \A w \in Writer : Coming(w)' <=> Coming(w)
      BY <2>1 DEF OnceInv, Coming, Create
    <3> QED
      BY <1>2, <3>1, <3>2
<1> QED
  BY <1>1, <1>2

LEMMA CommandTaken ==
  ASSUME WritersTypeOK, OnceInv, NEW op \in {"create", "destroy", "close"}, Take(op)
  PROVE  /\ open /\ cmds' \in Seq(Command(Writer)) /\ Len(cmds') <= CmdDepth /\ OnceInv'
         /\ Head(cmds) \in Command(Writer) /\ Head(cmds).op = op
         /\ \A w \in Writer : Coming(w) <=> Coming(w)' \/ Head(cmds) = Create(w)
         /\ \A w \in Writer : Head(cmds) = Create(w) => ~Coming(w)'
<1>1. cmds \in Seq(Command(Writer)) /\ cmds # <<>> /\ Head(cmds).op = op /\ cmds' = Tail(cmds) /\ open
  BY DEF Take, WritersTypeOK
<1>2. /\ cmds' \in Seq(Command(Writer)) /\ Len(cmds) \in Nat \ {0} /\ Len(cmds') = Len(cmds) - 1
      /\ Head(cmds) \in Command(Writer) /\ Head(cmds) = cmds[1]
      /\ \A i \in 1 .. Len(cmds') : cmds'[i] = cmds[i + 1] /\ i + 1 \in 1 .. Len(cmds)
  BY <1>1, TailFacts
<1>3. \A i \in 1 .. Len(cmds) : i = 1 \/ (i - 1 \in 1 .. Len(cmds') /\ cmds[i] = cmds'[i - 1])
  BY <1>2
<1>4. ASSUME NEW i \in 1 .. Len(cmds'), NEW j \in 1 .. Len(cmds'),
             cmds'[i] = cmds'[j], cmds'[i].op = "create"
      PROVE  i = j
  <2>1. /\ i + 1 \in 1 .. Len(cmds) /\ j + 1 \in 1 .. Len(cmds)
        /\ cmds[i + 1] = cmds[j + 1] /\ cmds[i + 1].op = "create"
    BY <1>2, <1>4
  <2>2. i + 1 = j + 1
    BY <2>1 DEF OnceInv
  <2> QED
    BY <2>2
<1>5. \A w \in Writer : Coming(w) <=> Coming(w)' \/ Head(cmds) = Create(w)
  <2> SUFFICES ASSUME NEW w \in Writer
               PROVE  Coming(w) <=> Coming(w)' \/ Head(cmds) = Create(w)
    OBVIOUS
  <2> DEFINE c == Create(w)
  <2>1. Coming(w) <=> \E i \in 1 .. Len(cmds) : cmds[i] = c
    BY DEF Coming
  <2>2. Coming(w)' <=> \E i \in 1 .. Len(cmds') : cmds'[i] = c
    BY DEF Coming, Create
  <2> HIDE DEF c
  <2>3. 1 \in 1 .. Len(cmds)
    BY <1>2
  <2>4. (\E i \in 1 .. Len(cmds) : cmds[i] = c) <=> (\E i \in 1 .. Len(cmds') : cmds'[i] = c) \/ cmds[1] = c
    BY <1>2, <1>3, <2>3
  <2> QED
    BY <1>2, <2>1, <2>2, <2>4 DEF c
<1>6. ASSUME NEW w \in Writer, Head(cmds) = Create(w), Coming(w)'
      PROVE  FALSE
  <2>1. PICK i \in 1 .. Len(cmds') : cmds'[i] = Create(w)
    BY <1>6 DEF Coming, Create
  <2>2. i + 1 \in 1 .. Len(cmds) /\ 1 \in 1 .. Len(cmds) /\ i + 1 # 1
        /\ cmds[i + 1] = Create(w) /\ cmds[1] = Create(w) /\ Create(w).op = "create"
    BY <1>2, <1>6, <2>1, CommandFacts
  <2> QED
    BY <2>2 DEF OnceInv
<1> QED
  BY <1>1, <1>2, <1>4, <1>5, <1>6, WritersConstants DEF WritersTypeOK, OnceInv

-----------------------------------------------------------------------------
(* The steps. *)

LEMMA AliveFacts == \A w \in Writer : Alive(w) <=> open /\ (writer = w \/ Coming(w))
  BY DEF Alive, Coming

\* What a step may change of a writer.
Untouched(w) ==
  /\ open' = open
  /\ Coming(w)' <=> Coming(w)
  /\ writer' = w <=> writer = w
  /\ Held(w)' = Held(w)
  /\ writable'[w] = writable[w] /\ told'[w] = told[w] /\ written'[w] = written[w]
  /\ played'[w] = played[w] /\ queue'[w] = queue[w] /\ pending'[w] = pending[w]
  /\ w \in senders' <=> w \in senders
  /\ w \in halted' <=> w \in halted

LEMMA UntouchedKeeps ==
  ASSUME NEW w \in Writer, InvOf(w), Untouched(w)
  PROVE  InvOf(w)'
<1>1. Unborn(w)'
  BY DEF Untouched, InvOf, Unborn
<1>2. NotYet(w)'
  BY DEF Untouched, InvOf, NotYet
<1>3. Pushes(w)'
  BY DEF Untouched, InvOf, Pushes
<1>4. Tells(w)'
  BY DEF Untouched, InvOf, Tells
<1>5. /\ (Alive(w))' <=> Alive(w) /\ Pushed(w)' = Pushed(w) /\ Pushing(w)' = Pushing(w)
      /\ Held(w)' = Held(w) /\ played'[w] = played[w] /\ written'[w] = written[w]
  BY AliveFacts DEF Untouched, Pushed, Pushing, Alive, Coming, Create
<1>6. InLine(w)'
  BY <1>5 DEF InvOf, InLine, Follow, Continues
<1> QED
  BY <1>1, <1>2, <1>3, <1>4, <1>6 DEF InvOf

LEMMA WriterTypes ==
  ASSUME WritersTypeOK, NEW w \in Writer
  PROVE  /\ played[w] \in Seq(Sample) /\ Held(w) \in Seq(Sample)
         /\ queue[w] \in Seq(Seq(Sample)) /\ Pushed(w) \in Seq(Sample)
         /\ Pushing(w) \in Seq(Sample) /\ (pending[w] # None => Pushing(w) = pending[w])
         /\ written[w] \in 0 .. MaxSamples
         /\ <<>> \in Seq(Sample) /\ None \notin Seq(Sample)
<1>1. played[w] \in Seq(Sample) /\ queue[w] \in Seq(Seq(Sample)) /\ buffered \in Seq(Sample)
      /\ pending[w] \in Seq(Sample) \cup {None} /\ written[w] \in 0 .. MaxSamples
  BY DEF WritersTypeOK
<1>2. Pushed(w) \in Seq(Sample)
  BY <1>1, FlattenTyped DEF Pushed
<1>3. <<>> \in Seq(Sample)
  OBVIOUS
<1>4. None \notin Seq(Sample)
  BY WritersAssumption DEF WritersAssumption, Sample
<1> QED
  BY <1>1, <1>2, <1>3, <1>4 DEF Held, Pushing

\* What the steps of JavaScript leave of InvOf to show.
LEMMA WriterCreated ==
  ASSUME WriterInv, NEW v \in Writer, CreateWriteStream(v)
  PROVE  WriterInv'
<1> USE DEF WriterInv
<1>1. /\ writable[v] = "none" /\ TrySend(Create(v))
      /\ senders' = (IF Accepts THEN senders \cup {v} ELSE senders)
      /\ writable' = [writable EXCEPT ![v] = IF Accepts THEN "open" ELSE "destroyed"]
      /\ UNCHANGED <<open, writer, buffered, queue, pending, written, played, told, halted>>
  BY DEF CreateWriteStream
<1>2. /\ ~Coming(v) /\ writer # v /\ told[v] = 0 /\ written[v] = 0
      /\ played[v] = <<>> /\ queue[v] = <<>> /\ pending[v] = None /\ v \notin senders
  BY <1>1 DEF InvOf, Unborn, Pushes
<1>3. /\ cmds' \in Seq(Command(Writer)) /\ Len(cmds') <= CmdDepth /\ OnceInv'
      /\ \A w \in Writer : Coming(w)' <=> Coming(w) \/ (Accepts /\ Create(v) = Create(w))
  BY <1>1, <1>2, CommandSent, CommandFacts
<1>4. WritersTypeOK'
  BY <1>1, <1>3 DEF WritersTypeOK
<1>5. ASSUME NEW w \in Writer
      PROVE  InvOf(w)'
  <2>1. CASE w # v
    <3>1. Create(v) # Create(w)
      BY <2>1, CommandFacts
    <3>2. Untouched(w)
      BY <1>1, <1>3, <2>1, <3>1 DEF Untouched, WritersTypeOK, Held
    <3> QED
      BY <3>2, UntouchedKeeps
  <2>2. CASE w = v
    <3>1. writable'[v] = IF Accepts THEN "open" ELSE "destroyed"
      BY <1>1 DEF WritersTypeOK
    <3>2. Unborn(v)' /\ NotYet(v)' /\ Pushes(v)' /\ Tells(v)'
      BY <1>1, <1>2, <1>3, <3>1 DEF Unborn, NotYet, Pushes, Tells
    <3>3. Pushed(v)' = <<>> /\ Pushing(v)' = <<>> /\ Held(v)' = <<>> /\ played'[v] = <<>> /\ written'[v] = 0
      BY <1>1, <1>2, FlattenEmpty DEF Pushed, Pushing, Held
    <3>4. Len(<<>>) = 0
      OBVIOUS
    <3>5. InLine(v)'
      BY <3>3, <3>4 DEF InLine, Follow, Continues
    <3> QED
      BY <2>2, <3>2, <3>5 DEF InvOf
  <2> QED
    BY <2>1, <2>2
<1> QED
  BY <1>3, <1>4, <1>5

LEMMA WriteKeeps ==
  ASSUME WriterInv, NEW v \in Writer, Write(v)
  PROVE  WriterInv'
<1> USE DEF WriterInv
<1>1. PICK n \in Chunks :
        /\ written[v] + n <= MaxSamples
        /\ written' = [written EXCEPT ![v] = @ + n]
        /\ pending' = [pending EXCEPT ![v] = [i \in 1 .. n |-> written[v] + i]]
  BY DEF Write
<1>2. /\ writable[v] = "open" /\ pending[v] = None
      /\ UNCHANGED <<open, cmds, writer, buffered, queue, senders, writable, played, told, halted>>
  BY DEF Write
<1> DEFINE x == [i \in 1 .. n |-> written[v] + i]
<1>3. n \in Nat \ {0} /\ written[v] \in Nat /\ written[v] + n \in 0 .. MaxSamples
  <2>1. n \in Nat \ {0} /\ MaxSamples \in Nat
    BY WritersConstants
  <2>2. written[v] \in 0 .. MaxSamples
    BY DEF WritersTypeOK
  <2>3. written[v] + n <= MaxSamples
    BY <1>1
  <2> QED
    BY <2>1, <2>2, <2>3
<1>4. x \in Seq(Sample) /\ Len(x) = n /\ Continues(x, written[v]) /\ x # None
  <2>1. \A i \in 1 .. n : written[v] + i \in Sample
    <3> DEFINE m == written[v]
    <3>1. m \in Nat /\ n \in Nat /\ m + n <= MaxSamples /\ MaxSamples \in Nat
      BY <1>3, WritersConstants
    <3> HIDE DEF m
    <3>2. \A i \in 1 .. n : m + i \in Sample
      BY <3>1 DEF Sample
    <3> QED
      BY <3>2 DEF m
  <2>2. x \in Seq(Sample) /\ Len(x) = n
    BY <1>3, <2>1
  <2>3. \A i \in 1 .. n : x[i] = written[v] + i
    OBVIOUS
  <2> QED
    BY <2>2, <2>3, WriterTypes DEF Continues
<1> HIDE DEF x
<1>5. /\ pending' = [pending EXCEPT ![v] = x] /\ pending'[v] = x
      /\ written'[v] = written[v] + n
      /\ pending' \in [Writer -> Seq(Sample) \cup {None}]
      /\ written' \in [Writer -> 0 .. MaxSamples]
  BY <1>1, <1>3, <1>4 DEF WritersTypeOK, x
<1>6. WritersTypeOK' /\ OnceInv'
  <2>1. WritersTypeOK'
    BY <1>2, <1>5 DEF WritersTypeOK
  <2>2. OnceInv'
    BY <1>2 DEF OnceInv
  <2> QED
    BY <2>1, <2>2
<1>7. ASSUME NEW w \in Writer
      PROVE  InvOf(w)'
  <2>1. CASE w # v
    <3>1. Untouched(w)
      BY <1>1, <1>2, <2>1 DEF Untouched, WritersTypeOK, Held, Coming, Create
    <3> QED
      BY <3>1, UntouchedKeeps
  <2>2. CASE w = v
    <3>1. v \in senders
      BY <1>2 DEF InvOf, Pushes
    <3>2. Unborn(v)' /\ NotYet(v)' /\ Pushes(v)'
      BY <1>2, <3>1 DEF InvOf, Unborn, NotYet, Pushes, Coming, Create
    <3>3. Tells(v)'
      BY <1>2, <3>1 DEF InvOf, Tells
    <3>4. /\ Alive(v)' <=> Alive(v)
          /\ Pushed(v)' = Pushed(v) /\ Held(v)' = Held(v) /\ Pushing(v)' = x /\ Pushing(v) = <<>>
      BY <1>2, <1>4, <1>5 DEF Alive, Create, Pushed, Held, Pushing
    <3>5. /\ played[v] \in Seq(Sample) /\ Held(v) \in Seq(Sample) /\ Pushed(v) \in Seq(Sample)
          /\ Len(<<>>) = 0
      BY WriterTypes
    <3>6. InLine(v)
      BY DEF InvOf
    <3>7. Len(played'[v]) <= written'[v] /\ Continues(played[v], 0)'
      <4>1. /\ Len(played[v]) \in Nat /\ Len(played[v]) <= written[v] /\ Continues(played[v], 0)
            /\ played' = played /\ written'[v] = written[v] + n
        BY <1>2, <1>5, <3>5, <3>6 DEF InLine
      <4>2. Len(played[v]) <= written[v] + n
        BY <1>3, <4>1
      <4> QED
        BY <4>1, <4>2 DEF Continues
    <3>8. ASSUME Alive(v)
          PROVE  Follow(Held(v), Pushed(v), x, Len(played[v]), written[v] + n)
      <4>1. Follow(Held(v), Pushed(v), <<>>, Len(played[v]), written[v])
        BY <3>4, <3>6, <3>8 DEF InLine
      <4>2. Len(played[v]) + Len(Held(v)) + Len(Pushed(v)) = written[v]
        BY <3>5, <4>1 DEF Follow
      <4> QED
        BY <1>4, <4>1, <4>2 DEF Follow
    <3>9. InLine(v)'
      BY <1>2, <1>5, <3>4, <3>7, <3>8 DEF InLine
    <3> QED
      BY <2>2, <3>2, <3>3, <3>9 DEF InvOf
  <2> QED
    BY <2>1, <2>2
<1> QED
  BY <1>6, <1>7

LEMMA PushKeeps ==
  ASSUME WriterInv, NEW v \in Writer, PushWriterBytes(v)
  PROVE  WriterInv'
<1> USE DEF WriterInv
<1>1. /\ pending[v] # None /\ v \in senders /\ Alive(v) /\ Len(queue[v]) < QueueDepth
      /\ queue' = [queue EXCEPT ![v] = Append(@, pending[v])]
      /\ pending' = [pending EXCEPT ![v] = None]
      /\ UNCHANGED <<open, cmds, writer, buffered, senders, writable, written, played, told, halted>>
  BY DEF PushWriterBytes
<1> DEFINE x == pending[v]
           q == queue[v]
<1>2. x \in Seq(Sample) /\ q \in Seq(Seq(Sample)) /\ Len(q) < QueueDepth
  BY <1>1 DEF WritersTypeOK
<1>3. Append(q, x) \in Seq(Seq(Sample)) /\ Len(Append(q, x)) <= QueueDepth
  BY <1>2, AppendFacts, WritersConstants
<1>4. FlattenSeq(Append(q, x)) = FlattenSeq(q) \o x
  BY <1>2, FlattenAppend
<1>5. /\ queue'[v] = Append(q, x) /\ pending'[v] = None
      /\ \A w \in Writer : w # v => queue'[w] = queue[w] /\ pending'[w] = pending[w]
      /\ pending' \in [Writer -> Seq(Sample) \cup {None}]
      /\ queue' \in [Writer -> Seq(Seq(Sample))]
  BY <1>1, <1>3 DEF WritersTypeOK
<1> HIDE DEF x, q
<1>6. \A w \in Writer : Len(queue'[w]) <= QueueDepth
  BY <1>3, <1>5 DEF WritersTypeOK
<1>8. WritersTypeOK' /\ OnceInv'
  <2>1. WritersTypeOK'
    BY <1>1, <1>5, <1>6 DEF WritersTypeOK
  <2>2. OnceInv'
    BY <1>1 DEF OnceInv
  <2> QED
    BY <2>1, <2>2
<1>7. ASSUME NEW w \in Writer
      PROVE  InvOf(w)'
  <2>1. CASE w # v
    <3>1. Untouched(w)
      BY <1>1, <1>5, <2>1 DEF Untouched, Held, Coming, Create
    <3> QED
      BY <3>1, UntouchedKeeps
  <2>2. CASE w = v
    <3>1. writable[v] # "none"
      BY <1>1 DEF InvOf, Pushes
    <3>2. Unborn(v)' /\ NotYet(v)' /\ Pushes(v)'
      BY <1>1, <3>1, <1>5 DEF InvOf, Unborn, NotYet, Pushes, Coming, Create
    <3>3. Tells(v)'
      BY <1>1 DEF InvOf, Tells
    <3>4. /\ Pushed(v)' = Pushed(v) \o x /\ Held(v)' = Held(v)
          /\ Pushing(v)' = <<>> /\ Pushing(v) = x
      BY <1>1, <1>4, <1>5 DEF Pushed, Held, Pushing, x, q
    <3>5. /\ played[v] \in Seq(Sample) /\ Held(v) \in Seq(Sample) /\ Pushed(v) \in Seq(Sample)
          /\ Len(<<>>) = 0
      BY WriterTypes
    <3>6. /\ Len(played[v]) <= written[v] /\ Continues(played[v], 0)
          /\ Follow(Held(v), Pushed(v), x, Len(played[v]), written[v])
      BY <1>1, <3>4 DEF InvOf, InLine
    <3>9. Len(played[v]) \in Nat /\ written[v] \in Nat
      BY <3>5, WriterTypes
    <3>7. Follow(Held(v), Pushed(v) \o x, <<>>, Len(played[v]), written[v])
      BY <1>2, <3>5, <3>6, <3>9, FollowJoined
    <3>8. Pushed(v)' = Pushed(v) \o x /\ played'[v] = played[v] /\ written'[v] = written[v]
      BY <1>1, <3>4
    <3>12. InLine(v)'
      BY <3>4, <3>6, <3>7, <3>8 DEF InLine
    <3> QED
      BY <2>2, <3>2, <3>3, <3>12 DEF InvOf
  <2> QED
    BY <2>1, <2>2
<1> QED
  BY <1>7, <1>8

\* A stream that ends changes no writer but in its own state.
LEMMA EndCallKeeps ==
  ASSUME WriterInv, NEW v \in Writer, EndIsCalled(v)
  PROVE  WriterInv'
<1> USE DEF WriterInv
<1>1. /\ writable[v] = "open" /\ writable' = [writable EXCEPT ![v] = "ending"]
      /\ UNCHANGED <<open, cmds, writer, buffered, queue, senders, pending, written, played, told, halted>>
  BY DEF EndIsCalled
<1>2. WritersTypeOK' /\ OnceInv'
  BY <1>1 DEF WritersTypeOK, OnceInv
<1>3. ASSUME NEW w \in Writer
      PROVE  InvOf(w)'
  <2>1. CASE w # v
    <3>1. Untouched(w)
      BY <1>1, <2>1 DEF Untouched, WritersTypeOK, Held, Coming, Create
    <3> QED
      BY <3>1, UntouchedKeeps
  <2>2. CASE w = v
    <3>1. writable'[v] = "ending"
      BY <1>1 DEF WritersTypeOK
    <3>2. Unborn(v)' /\ Pushes(v)'
      BY <1>1, <3>1 DEF InvOf, Unborn, Pushes
    <3>3. InLine(v)' /\ NotYet(v)' /\ Tells(v)'
      BY <1>1 DEF InvOf, InLine, NotYet, Tells, Alive, Coming, Create, Held, Pushed, Pushing
    <3> QED
      BY <2>2, <3>2, <3>3 DEF InvOf
  <2> QED
    BY <2>1, <2>2
<1> QED
  BY <1>2, <1>3

LEMMA EndKeeps ==
  ASSUME WriterInv, NEW v \in Writer, EndWriteStream(v)
  PROVE  WriterInv'
<1> USE DEF WriterInv
<1>1. /\ writable[v] = "ending" /\ pending[v] = None
      /\ writable' = [writable EXCEPT ![v] = "finished"] /\ senders' = senders \ {v}
      /\ UNCHANGED <<open, cmds, writer, buffered, queue, pending, written, played, told, halted>>
  BY DEF EndWriteStream
<1>2. WritersTypeOK' /\ OnceInv'
  BY <1>1 DEF WritersTypeOK, OnceInv
<1>3. ASSUME NEW w \in Writer
      PROVE  InvOf(w)'
  <2>1. CASE w # v
    <3>1. Untouched(w)
      BY <1>1, <2>1 DEF Untouched, WritersTypeOK, Held, Coming, Create
    <3> QED
      BY <3>1, UntouchedKeeps
  <2>2. CASE w = v
    <3>1. writable'[v] = "finished"
      BY <1>1 DEF WritersTypeOK
    <3>2. Unborn(v)' /\ Pushes(v)' /\ Tells(v)'
      BY <1>1, <3>1 DEF InvOf, Unborn, Pushes, Tells
    <3>3. InLine(v)' /\ NotYet(v)'
      BY <1>1 DEF InvOf, InLine, NotYet, Alive, Coming, Create, Held, Pushed, Pushing
    <3> QED
      BY <2>2, <3>2, <3>3 DEF InvOf
  <2> QED
    BY <2>1, <2>2
<1> QED
  BY <1>2, <1>3

\* A writer is destroyed by Node once it has finished, or by request.
LEMMA DestroyKeeps ==
  ASSUME WriterInv, NEW v \in Writer, AutoDestroy(v) \/ DestroyIsCalled(v)
  PROVE  WriterInv'
<1> USE DEF WriterInv
<1>1. /\ writable' = [writable EXCEPT ![v] = "destroyed"] /\ senders' = senders \ {v}
      /\ TrySend(Destroy(v))
      /\ UNCHANGED <<open, writer, buffered, queue, pending, written, played, told>>
      /\ writable[v] \in {"open", "ending", "finished"}
      /\ \/ writable[v] = "finished" /\ halted' = halted
         \/ halted' = halted \cup {v}
  BY DEF AutoDestroy, DestroyIsCalled, DestroyWriteStream
<1>2. /\ cmds' \in Seq(Command(Writer)) /\ Len(cmds') <= CmdDepth /\ OnceInv'
      /\ \A w \in Writer : Coming(w)' <=> Coming(w)
  <2>1. \A w \in Writer : Destroy(v) # Create(w)
    BY CommandFacts
  <2> QED
    BY <1>1, <2>1, CommandSent, CommandFacts
<1>3. WritersTypeOK'
  BY <1>1, <1>2 DEF WritersTypeOK
<1>4. ASSUME NEW w \in Writer
      PROVE  InvOf(w)'
  <2>1. CASE w # v
    <3>1. Untouched(w)
      BY <1>1, <1>2, <2>1 DEF Untouched, WritersTypeOK, Held
    <3> QED
      BY <3>1, UntouchedKeeps
  <2>2. CASE w = v
    <3>1. writable'[v] = "destroyed"
      BY <1>1 DEF WritersTypeOK
    <3>2. Unborn(v)' /\ Pushes(v)'
      BY <1>1, <3>1 DEF InvOf, Unborn, Pushes
    <3>3. Tells(v)'
      BY <1>1 DEF InvOf, Tells
    <3>4. NotYet(v)'
      BY <1>1, <1>2 DEF InvOf, NotYet
    <3>5. /\ Alive(v)' <=> Alive(v)
          /\ Held(v)' = Held(v) /\ Pushed(v)' = Pushed(v) /\ Pushing(v)' = Pushing(v)
      <4>1. Alive(v)' <=> open' /\ (writer' = v \/ Coming(v)')
        BY DEF Alive, Coming, Create
      <4> QED
        BY <1>1, <1>2, <4>1, AliveFacts DEF Held, Pushed, Pushing
    <3>6. InLine(v)'
      BY <1>1, <3>5 DEF InvOf, InLine
    <3> QED
      BY <2>2, <3>2, <3>3, <3>4, <3>6 DEF InvOf
  <2> QED
    BY <2>1, <2>2
<1> QED
  BY <1>2, <1>3, <1>4

LEMMA CloseCallKeeps ==
  ASSUME WriterInv, CloseIsCalled, UNCHANGED writers
  PROVE  WriterInv'
<1> USE DEF WriterInv
<1>1. TrySend([op |-> "close"]) /\ UNCHANGED <<open, writers>>
  BY DEF CloseIsCalled
<1>2. /\ cmds' \in Seq(Command(Writer)) /\ Len(cmds') <= CmdDepth /\ OnceInv'
      /\ \A w \in Writer : Coming(w)' <=> Coming(w)
  <2>1. \A w \in Writer : [op |-> "close"] # Create(w)
    BY CommandFacts
  <2> QED
    BY <1>1, <2>1, CommandSent, CommandFacts
<1>3. WritersTypeOK'
  BY <1>1, <1>2 DEF WritersTypeOK, writers
<1>4. ASSUME NEW w \in Writer
      PROVE  InvOf(w)'
  <2>1. Untouched(w)
    BY <1>1, <1>2 DEF Untouched, Held, writers
  <2> QED
    BY <2>1, UntouchedKeeps
<1> QED
  BY <1>2, <1>3, <1>4

\* The task takes a command: the writer of before leaves, and the new one comes.
LEMMA TakeCreateKeeps ==
  ASSUME WriterInv, TakeCreateWriter
  PROVE  WriterInv'
<1> USE DEF WriterInv
<1>1. /\ Take("create") /\ writer' = Head(cmds).id /\ buffered' = <<>>
      /\ queue' = (IF writer = None THEN queue ELSE [queue EXCEPT ![writer] = <<>>])
      /\ halted' = (IF writer = None THEN halted ELSE halted \cup {writer})
      /\ UNCHANGED <<open, senders, writable, pending, written, played, told>>
  BY DEF TakeCreateWriter
<1>2. /\ open /\ cmds' \in Seq(Command(Writer)) /\ Len(cmds') <= CmdDepth /\ OnceInv'
      /\ Head(cmds) \in Command(Writer) /\ Head(cmds).op = "create"
      /\ \A w \in Writer : Coming(w) <=> Coming(w)' \/ Head(cmds) = Create(w)
      /\ \A w \in Writer : Head(cmds) = Create(w) => ~Coming(w)'
  BY <1>1, CommandTaken
<1>0. PICK v \in Writer : v = Head(cmds).id /\ Head(cmds) = Create(v)
  BY <1>2 DEF Command, Create
<1>3. /\ Coming(v) /\ ~Coming(v)'
      /\ \A w \in Writer : w # v => (Coming(w)' <=> Coming(w))
  BY <1>0, <1>2, CommandFacts
<1>4. writer \in Writer \cup {None} /\ <<>> \in Seq(Seq(Sample)) /\ <<>> \in Seq(Sample) /\ Len(<<>>) = 0
  BY DEF WritersTypeOK
<1>5. /\ queue' \in [Writer -> Seq(Seq(Sample))]
      /\ \A w \in Writer : w # writer => queue'[w] = queue[w]
      /\ writer \in Writer => queue'[writer] = <<>>
  BY <1>0, <1>1, <1>4, WritersConstants DEF WritersTypeOK
<1>6. WritersTypeOK'
  <2>1. \A w \in Writer : Len(queue'[w]) <= QueueDepth
    <3>1. ASSUME NEW w \in Writer
          PROVE  queue'[w] = <<>> \/ queue'[w] = queue[w]
      BY <1>4, <1>5
    <3>2. \A w \in Writer : Len(queue[w]) <= QueueDepth
      BY DEF WritersTypeOK
    <3> QED
      BY <1>4, <3>1, <3>2, WritersConstants
  <2> QED
    BY <1>0, <1>1, <1>2, <1>3, <1>4, <1>5, <2>1 DEF WritersTypeOK
<1>7. v # writer /\ writable[v] # "none" /\ told[v] = 0 /\ played[v] = <<>>
  BY <1>3 DEF InvOf, NotYet, Unborn
<1>8. ASSUME NEW w \in Writer
      PROVE  InvOf(w)'
  <2>1. CASE w # v /\ w # writer
    <3>1. Untouched(w)
      BY <1>0, <1>1, <1>3, <1>4, <1>5, <2>1 DEF Untouched, Held
    <3> QED
      BY <3>1, UntouchedKeeps
  <2>2. CASE w = v
    <3>1. /\ Held(v)' = <<>> /\ Pushed(v)' = Pushed(v) /\ Pushing(v)' = Pushing(v) /\ Held(v) = <<>>
      BY <1>0, <1>1, <1>3, <1>5, <1>7 DEF Held, Pushed, Pushing
    <3>2. Alive(v)
      BY <1>2, <1>3, AliveFacts
    <3>3. Unborn(v)' /\ NotYet(v)' /\ Pushes(v)'
      BY <1>0, <1>1, <1>3, <1>4, <1>7, <2>2, WritersConstants DEF InvOf, Unborn, NotYet, Pushes
    <3>4. Tells(v)'
      BY <1>0, <1>1, <1>3, <1>7 DEF Tells
    <3>5. InLine(v)'
      BY <1>0, <1>1, <1>3, <3>1, <3>2 DEF InvOf, InLine
    <3> QED
      BY <2>2, <3>3, <3>4, <3>5 DEF InvOf
  <2>3. CASE w = writer /\ w # v
    <3>1. ~Coming(w) /\ ~Coming(w)' /\ writer' # w /\ writable[w] # "none"
      BY <1>0, <1>1, <1>3, <2>3 DEF InvOf, NotYet, Unborn
    <3>2. ~Alive(w)'
      BY <1>0, <1>1, <3>1 DEF Alive, Coming, Create
    <3>3. w \in halted'
      BY <1>0, <1>1, <2>3, WritersConstants
    <3>4. Unborn(w)' /\ NotYet(w)' /\ Pushes(w)'
      BY <1>0, <1>1, <3>1, <3>3 DEF InvOf, Unborn, NotYet, Pushes
    <3>5. Tells(w)'
      BY <1>0, <1>1, <2>3, <3>1, <3>3 DEF InvOf, Tells
    <3>6. InLine(w)'
      BY <1>0, <1>1, <3>2 DEF InvOf, InLine
    <3> QED
      BY <3>4, <3>5, <3>6 DEF InvOf
  <2> QED
    BY <2>1, <2>2, <2>3
<1> QED
  BY <1>2, <1>6, <1>8

LEMMA TakeDestroyKeeps ==
  ASSUME WriterInv, TakeDestroyWriter
  PROVE  WriterInv'
<1> USE DEF WriterInv
<1> DEFINE v == Head(cmds).id
<1>1. /\ Take("destroy")
      /\ \/ writer = v /\ writer' = None /\ buffered' = <<>> /\ queue' = [queue EXCEPT ![v] = <<>>]
         \/ writer # v /\ UNCHANGED <<writer, buffered, queue>>
      /\ UNCHANGED <<open, senders, writable, pending, written, played, told, halted>>
  BY DEF TakeDestroyWriter
<1>2. /\ open /\ cmds' \in Seq(Command(Writer)) /\ Len(cmds') <= CmdDepth /\ OnceInv' /\ v \in Writer
      /\ \A w \in Writer : Coming(w)' <=> Coming(w)
  <2>1. /\ open /\ cmds' \in Seq(Command(Writer)) /\ Len(cmds') <= CmdDepth /\ OnceInv'
        /\ Head(cmds) \in Command(Writer) /\ Head(cmds).op = "destroy"
        /\ \A w \in Writer : Coming(w) <=> Coming(w)' \/ Head(cmds) = Create(w)
    BY <1>1, CommandTaken
  <2>2. \A w \in Writer : Head(cmds) # Create(w)
    BY <2>1, CommandFacts
  <2> QED
    BY <2>1, <2>2, CommandFacts
<1> HIDE DEF v
<1>3. <<>> \in Seq(Seq(Sample)) /\ <<>> \in Seq(Sample) /\ Len(<<>>) = 0
  OBVIOUS
<1>4. /\ queue' \in [Writer -> Seq(Seq(Sample))]
      /\ \A w \in Writer : queue'[w] = IF w = v /\ w = writer THEN <<>> ELSE queue[w]
  <2>1. queue \in [Writer -> Seq(Seq(Sample))]
    BY DEF WritersTypeOK
  <2>2. CASE writer = v
    <3>1. queue' = [queue EXCEPT ![v] = <<>>]
      BY <1>1, <2>2
    <3> QED
      BY <1>3, <2>1, <2>2, <3>1
  <2>3. CASE writer # v
    <3>1. queue' = queue
      BY <1>1, <2>3
    <3> QED
      BY <2>1, <2>3, <3>1
  <2> QED
    BY <2>2, <2>3
<1>5. WritersTypeOK'
  <2>1. \A w \in Writer : Len(queue'[w]) <= QueueDepth
    BY <1>3, <1>4, WritersConstants DEF WritersTypeOK
  <2> QED
    BY <1>1, <1>2, <1>3, <1>4, <2>1 DEF WritersTypeOK
<1>6. ASSUME NEW w \in Writer
      PROVE  InvOf(w)'
  <2>1. CASE w # v \/ w # writer
    <3>1. Untouched(w)
      BY <1>1, <1>2, <1>4, <2>1, WritersConstants DEF Untouched, Held
    <3> QED
      BY <3>1, UntouchedKeeps
  <2>2. CASE w = v /\ w = writer
    <3>1. ~Coming(w)' /\ writer' # w /\ writable[w] # "none"
      BY <1>1, <1>2, <2>2, WritersConstants DEF InvOf, NotYet, Unborn
    <3>2. ~Alive(w)'
      BY <1>1, <3>1 DEF Alive, Coming, Create
    <3>4. Unborn(w)' /\ NotYet(w)' /\ Pushes(w)'
      BY <1>1, <3>1 DEF InvOf, Unborn, NotYet, Pushes
    <3>5. Tells(w)'
      BY <1>1, <2>2, <3>1 DEF InvOf, Tells
    <3>6. InLine(w)'
      BY <1>1, <3>2 DEF InvOf, InLine
    <3> QED
      BY <3>4, <3>5, <3>6 DEF InvOf
  <2> QED
    BY <2>1, <2>2
<1> QED
  BY <1>2, <1>5, <1>6

LEMMA ClosesKeeps ==
  ASSUME WriterInv, CloseWriters
  PROVE  WriterInv'
<1> USE DEF WriterInv
<1>1. /\ Take("close") /\ open' = FALSE /\ writer' = None /\ buffered' = <<>>
      /\ queue' = [w \in Writer |-> <<>>] /\ halted' = Writer
      /\ UNCHANGED <<senders, writable, pending, written, played, told>>
  BY DEF CloseWriters
<1>2. /\ cmds' \in Seq(Command(Writer)) /\ Len(cmds') <= CmdDepth /\ OnceInv'
      /\ \A w \in Writer : Coming(w)' => Coming(w)
  BY <1>1, CommandTaken
<1>3. <<>> \in Seq(Seq(Sample)) /\ <<>> \in Seq(Sample) /\ Len(<<>>) = 0
  OBVIOUS
<1>4. queue' \in [Writer -> Seq(Seq(Sample))] /\ \A w \in Writer : queue'[w] = <<>>
  BY <1>1, <1>3
<1>5. WritersTypeOK'
  <2>1. \A w \in Writer : Len(queue'[w]) <= QueueDepth
    BY <1>3, <1>4, WritersConstants
  <2> QED
    BY <1>1, <1>2, <1>3, <1>4, <2>1 DEF WritersTypeOK
<1>6. ASSUME NEW w \in Writer
      PROVE  InvOf(w)'
  <2>1. ~Alive(w)' /\ writer' # w
    BY <1>1, WritersConstants DEF Alive
  <2>2. Unborn(w)' /\ NotYet(w)' /\ Pushes(w)' /\ Tells(w)'
    BY <1>1, <1>2, <1>4, <2>1 DEF InvOf, Unborn, NotYet, Pushes, Tells
  <2>3. InLine(w)'
    BY <1>1, <2>1 DEF InvOf, InLine
  <2> QED
    BY <2>2, <2>3 DEF InvOf
<1> QED
  BY <1>2, <1>5, <1>6

\* A tick takes the first k samples of all that the writer has.
LEMMA NextFrameFacts ==
  ASSUME NEW S, Drained \in Seq(S)
  PROVE  \E k \in 0 .. Len(Drained) :
           /\ NextFrame = SubSeq(Drained, 1, k)
           /\ Rest = SubSeq(Drained, k + 1, Len(Drained))
<1> DEFINE d == Drained
<1>1. d \in Seq(S) /\ Len(d) \in Nat /\ SubSeq(d, 1, Len(d)) = d /\ SubSeq(d, 1, 0) = <<>>
  OBVIOUS
<1>2. NextFrame = IF Len(d) >= Frame THEN SubSeq(d, 1, Frame) ELSE IF Ended THEN d ELSE <<>>
  BY DEF NextFrame
<1>3. Rest = SubSeq(d, Len(NextFrame) + 1, Len(d))
  BY DEF Rest
<1> HIDE DEF d
<1>4. PICK k \in 0 .. Len(d) : NextFrame = SubSeq(d, 1, k)
  <2>1. CASE Len(d) >= Frame
    <3>1. Frame \in 0 .. Len(d)
      BY <1>1, <2>1, WritersConstants
    <3> QED
      BY <1>2, <2>1, <3>1
  <2>2. CASE ~(Len(d) >= Frame) /\ Ended
    <3>1. Len(d) \in 0 .. Len(d)
      BY <1>1
    <3> QED
      BY <1>1, <1>2, <2>2, <3>1
  <2>3. CASE ~(Len(d) >= Frame) /\ ~Ended
    <3>1. 0 \in 0 .. Len(d)
      BY <1>1
    <3> QED
      BY <1>1, <1>2, <2>3, <3>1
  <2> QED
    BY <2>1, <2>2, <2>3
<1>5. Len(SubSeq(d, 1, k)) = k
  BY <1>1
<1> QED
  BY <1>3, <1>4, <1>5 DEF d

LEMMA TickKeeps ==
  ASSUME WriterInv, TickWriters
  PROVE  WriterInv'
<1> USE DEF WriterInv
<1>1. CASE writer = None
  <2>1. UNCHANGED writersVars
    BY <1>1 DEF TickWriters, TickWriter, writersVars, writers
  <2>2. WritersTypeOK' /\ OnceInv'
    BY <2>1 DEF writersVars, writers, WritersTypeOK, OnceInv
  <2>3. \A w \in Writer : InvOf(w)'
    <3>1. \A w \in Writer : Untouched(w)
      BY <2>1 DEF writersVars, writers, Untouched, Coming, Create, Held
    <3> QED
      BY <3>1, UntouchedKeeps
  <2> QED
    BY <2>2, <2>3
<1>2. CASE writer # None
  <2>1. PICK v \in Writer : writer = v
    BY <1>2 DEF WritersTypeOK
  <2>2. /\ open /\ open' = open /\ cmds' = cmds
        /\ queue' = [queue EXCEPT ![v] = <<>>]
        /\ buffered' = (IF IsDrained THEN <<>> ELSE Rest)
        /\ played' = [played EXCEPT ![v] = @ \o NextFrame]
        /\ \/ IsDrained /\ writer' = None /\ told' = [told EXCEPT ![v] = @ + 1]
           \/ ~IsDrained /\ writer' = writer /\ told' = told
        /\ UNCHANGED <<senders, writable, pending, written, halted>>
    BY <1>2, <2>1 DEF TickWriters, TickWriter
  <2>3. /\ Alive(v) /\ InvOf(v) /\ writable[v] # "none" /\ ~Coming(v) /\ told[v] = 0 /\ Held(v) = buffered
        /\ Drained = Held(v) \o Pushed(v)
    BY <1>2, <2>1, <2>2, AliveFacts DEF InvOf, Unborn, NotYet, Tells, Held, Drained, Pushed
  <2>4. /\ played[v] \in Seq(Sample) /\ Held(v) \in Seq(Sample) /\ Pushed(v) \in Seq(Sample)
        /\ Pushing(v) \in Seq(Sample) /\ written[v] \in Nat /\ Len(played[v]) \in Nat
        /\ <<>> \in Seq(Sample) /\ <<>> \in Seq(Seq(Sample)) /\ Len(<<>>) = 0
    BY WriterTypes, WritersConstants
  <2>5. Drained \in Seq(Sample) /\ Len(Drained) \in Nat
    BY <2>3, <2>4
  <2>6. PICK k \in 0 .. Len(Drained) :
          NextFrame = SubSeq(Drained, 1, k) /\ Rest = SubSeq(Drained, k + 1, Len(Drained))
    BY <2>5, NextFrameFacts
  <2> DEFINE x == Pushing(v)
             p == played[v]
             d == Drained
             a == NextFrame
             b == Rest
  <2>7. Len(p) <= written[v] /\ Continues(p, 0) /\ Follow(Held(v), Pushed(v), x, Len(p), written[v])
    BY <2>3 DEF InvOf, InLine
  <2>8. /\ a \in Seq(Sample) /\ b \in Seq(Sample)
        /\ Len(a) = k /\ Len(b) = Len(d) - k /\ Len(p) + Len(d) + Len(x) = written[v]
        /\ Continues(a, Len(p)) /\ Follow(b, <<>>, x, Len(p) + k, written[v])
    <3> DEFINE h == Held(v)
               q == Pushed(v)
               n == written[v]
               i == Len(p)
    <3>1. /\ h \in Seq(Sample) /\ q \in Seq(Sample) /\ x \in Seq(Sample) /\ i \in Nat /\ n \in Nat
          /\ d = h \o q /\ k \in 0 .. Len(h \o q) /\ Follow(h, q, x, i, n)
          /\ a = SubSeq(h \o q, 1, k) /\ b = SubSeq(h \o q, k + 1, Len(h \o q))
      BY <2>3, <2>4, <2>6, <2>7
    <3> HIDE DEF a, b, d, h, q, x, i, n
    <3>2. LET y == h \o q
              f == SubSeq(y, 1, k)
              g == SubSeq(y, k + 1, Len(y))
          IN  /\ y \in Seq(Sample) /\ f \in Seq(Sample) /\ g \in Seq(Sample)
              /\ Len(f) = k /\ Len(g) = Len(y) - k /\ i + Len(y) + Len(x) = n
              /\ Continues(f, i) /\ Follow(g, <<>>, x, i + k, n)
      BY <3>1, FollowTaken
    <3>3. /\ a \in Seq(Sample) /\ b \in Seq(Sample)
          /\ Len(a) = k /\ Len(b) = Len(d) - k /\ i + Len(d) + Len(x) = n
          /\ Continues(a, i) /\ Follow(b, <<>>, x, i + k, n)
      BY <3>1, <3>2
    <3> QED
      BY <3>3 DEF i, n
  <2>9. p \in Seq(Sample) /\ Len(p) \in Nat /\ x \in Seq(Sample) /\ Len(x) \in Nat /\ k \in Nat
        /\ k <= Len(d) /\ Len(d) \in Nat
    BY <2>4, <2>5, <2>6
  <2>10. Ended <=> v \notin senders
    BY <2>1 DEF Ended
  <2>11. IsDrained <=> v \notin senders /\ Len(b) < Frame
    BY <2>10 DEF IsDrained
  <2>12. played' = [played EXCEPT ![v] = p \o a] /\ buffered' = IF IsDrained THEN <<>> ELSE b
    BY <2>2
  <2> HIDE DEF p, a, b, d, x
  <2>13. /\ p \o a \in Seq(Sample) /\ Len(p \o a) = Len(p) + k /\ Continues(p \o a, 0)
    <3>1. Continues(a, 0 + Len(p)) /\ 0 \in Nat
      BY <2>8, <2>9
    <3> QED
      BY <2>7, <2>8, <2>9, <3>1, Joined
  <2>14. Len(p \o a) <= written[v] /\ Len(p \o a) + Len(b) + Len(x) = written[v]
    BY <2>8, <2>9, <2>13
  <2>15. /\ queue'[v] = <<>> /\ played'[v] = p \o a
         /\ \A w \in Writer : w # v => queue'[w] = queue[w] /\ played'[w] = played[w] /\ told'[w] = told[w]
         /\ queue' \in [Writer -> Seq(Seq(Sample))]
         /\ played' \in [Writer -> Seq(Sample)]
         /\ told'[v] = IF IsDrained THEN 1 ELSE 0
         /\ told' \in [Writer -> 0 .. 1]
    <3>1. /\ queue'[v] = <<>> /\ \A w \in Writer : w # v => queue'[w] = queue[w]
          /\ queue' \in [Writer -> Seq(Seq(Sample))]
      BY <2>2, <2>4 DEF WritersTypeOK
    <3>2. /\ played'[v] = p \o a /\ \A w \in Writer : w # v => played'[w] = played[w]
          /\ played' \in [Writer -> Seq(Sample)]
      BY <2>12, <2>13 DEF WritersTypeOK
    <3>3. /\ told'[v] = IF IsDrained THEN 1 ELSE 0
          /\ \A w \in Writer : w # v => told'[w] = told[w]
          /\ told' \in [Writer -> 0 .. 1]
      <4>1. told \in [Writer -> 0 .. 1] /\ told[v] = 0
        BY <2>3 DEF WritersTypeOK
      <4>2. CASE IsDrained
        <5>1. told' = [told EXCEPT ![v] = 1]
          BY <2>2, <4>1, <4>2
        <5> QED
          BY <4>1, <4>2, <5>1
      <4>3. CASE ~IsDrained
        BY <2>2, <4>1, <4>3
      <4> QED
        BY <4>2, <4>3
    <3> QED
      BY <3>1, <3>2, <3>3
  <2>16. WritersTypeOK'
    <3>1. \A w \in Writer : Len(queue'[w]) <= QueueDepth
      <4>1. \A w \in Writer : queue'[w] = <<>> \/ queue'[w] = queue[w]
        BY <2>15
      <4>2. \A w \in Writer : Len(queue[w]) <= QueueDepth
        BY DEF WritersTypeOK
      <4>3. Len(<<>>) <= QueueDepth
        BY <2>4, WritersConstants
      <4> QED
        BY <4>1, <4>2, <4>3
    <3>2. buffered' \in Seq(Sample) /\ writer' \in Writer \cup {None}
      BY <2>1, <2>2, <2>4, <2>8, <2>12
    <3> QED
      BY <2>2, <2>15, <3>1, <3>2 DEF WritersTypeOK
  <2>17. OnceInv'
    BY <2>2 DEF OnceInv
  <2>18. ASSUME NEW w \in Writer
         PROVE  InvOf(w)'
    <3>1. CASE w # v
      <4>1. Untouched(w)
        BY <2>1, <2>2, <2>15, <3>1, WritersConstants DEF Untouched, Held, Coming, Create
      <4> QED
        BY <4>1, UntouchedKeeps
    <3>2. CASE w = v
      <4>1. ~Coming(v)'
        BY <2>2, <2>3 DEF Coming, Create
      <4>2. Unborn(v)' /\ NotYet(v)' /\ Pushes(v)'
        BY <2>2, <2>3, <4>1 DEF InvOf, Unborn, NotYet, Pushes
      <4>3. Pushed(v)' = <<>> /\ Pushing(v)' = x
        BY <2>2, <2>15, FlattenEmpty DEF Pushed, Pushing, x
      <4>4. CASE IsDrained
        <5>1. writer' # v
          BY <2>2, <4>4, WritersConstants
        <5>2. ~Alive(v)'
          BY <2>2, <4>1, <5>1 DEF Alive, Coming, Create
        <5>3. InLine(v)'
          BY <2>2, <2>13, <2>14, <2>15, <5>2 DEF InLine
        <5>4. v \notin halted => x = <<>>
          BY <2>3, <2>11, <4>4 DEF InvOf, Pushes, Pushing, x
        <5>5. v \notin halted => Len(p \o a) + Frame > written[v]
          <6>1. Len(b) < Frame /\ Len(b) \in Nat /\ Len(p \o a) \in Nat
            BY <2>8, <2>11, <2>13, <4>4
          <6> QED
            BY <2>4, <2>14, <5>4, <6>1, WritersConstants
        <5>6. Tells(v)'
          BY <2>2, <2>11, <2>15, <4>4, <5>1, <5>5 DEF Tells
        <5> QED
          BY <3>2, <4>2, <5>3, <5>6 DEF InvOf
      <4>5. CASE ~IsDrained
        <5>1. writer' = v /\ Held(v)' = b
          BY <2>1, <2>2, <2>12, <4>5 DEF Held
        <5>2. Follow(b, <<>>, x, Len(p \o a), written[v])
          BY <2>8, <2>13
        <5>3. InLine(v)'
          BY <2>2, <2>13, <2>14, <2>15, <4>3, <5>1, <5>2 DEF InLine
        <5>4. Tells(v)'
          BY <2>15, <4>5 DEF Tells
        <5> QED
          BY <3>2, <4>2, <5>3, <5>4 DEF InvOf
      <4> QED
        BY <4>4, <4>5
    <3> QED
      BY <3>1, <3>2
  <2> QED
    BY <2>16, <2>17, <2>18
<1> QED
  BY <1>1, <1>2

-----------------------------------------------------------------------------

LEMMA InitWriters == WritersInit => WriterInv
<1> SUFFICES ASSUME WritersInit
             PROVE  WriterInv
  OBVIOUS
<1>1. <<>> \in Seq(Command(Writer)) /\ <<>> \in Seq(Sample) /\ <<>> \in Seq(Seq(Sample)) /\ Len(<<>>) = 0
  OBVIOUS
<1>2. WritersTypeOK
  BY <1>1, WritersConstants DEF WritersInit, WritersTypeOK
<1>3. OnceInv
  BY <1>1 DEF WritersInit, OnceInv
<1>4. ASSUME NEW w \in Writer
      PROVE  InvOf(w)
  <2>1. ~Coming(w) /\ ~Alive(w) /\ writer # w
    BY <1>1, WritersConstants DEF WritersInit, Coming, Alive
  <2>2. Unborn(w) /\ NotYet(w) /\ Pushes(w) /\ Tells(w)
    BY <2>1 DEF WritersInit, Unborn, NotYet, Pushes, Tells
  <2>3. InLine(w)
    BY <1>1, <2>1 DEF WritersInit, InLine, Continues
  <2> QED
    BY <2>2, <2>3 DEF InvOf
<1> QED
  BY <1>2, <1>3, <1>4 DEF WriterInv

LEMMA WriterStepKept == WriterInv /\ [WritersNext]_writersVars => WriterInv'
<1> SUFFICES ASSUME WriterInv, [WritersNext]_writersVars
             PROVE  WriterInv'
  OBVIOUS
<1>1. ASSUME NEW w \in Writer,
             \/ CreateWriteStream(w) \/ Write(w) \/ EndIsCalled(w) \/ DestroyIsCalled(w)
             \/ PushWriterBytes(w) \/ EndWriteStream(w) \/ AutoDestroy(w)
      PROVE  WriterInv'
  BY <1>1, WriterCreated, WriteKeeps, EndCallKeeps, DestroyKeeps, PushKeeps, EndKeeps
<1>2. CASE CloseIsCalled /\ UNCHANGED writers
  BY <1>2, CloseCallKeeps
<1>3. CASE TakeWriterCommand
  BY <1>3, TakeCreateKeeps, TakeDestroyKeeps, ClosesKeeps DEF TakeWriterCommand
<1>4. CASE TickWriters
  BY <1>4, TickKeeps
<1>5. CASE UNCHANGED writersVars
  <2>1. WritersTypeOK' /\ OnceInv'
    BY <1>5 DEF WriterInv, writersVars, writers, WritersTypeOK, OnceInv
  <2>2. \A w \in Writer : Untouched(w)
    BY <1>5 DEF writersVars, writers, Untouched, Coming, Create, Held
  <2> QED
    BY <2>1, <2>2, UntouchedKeeps DEF WriterInv
<1> QED
  BY <1>1, <1>2, <1>3, <1>4, <1>5 DEF WritersNext, JavaScriptWrites, EventLoop

THEOREM WriterInductive == WritersSpec => []WriterInv
  BY InitWriters, WriterStepKept, PTL DEF WritersSpec

\* What a writer plays is what JavaScript gave it, in order and without a gap,
\* whatever its queue refused and push tried again.
THEOREM WritersPlayInOrder == WritersSpec => []PlaysInOrder
<1>1. WriterInv => PlaysInOrder
  <2> SUFFICES ASSUME WriterInv, NEW w \in Writer
               PROVE  played[w] = [i \in 1 .. Len(played[w]) |-> i]
    BY DEF PlaysInOrder
  <2> DEFINE s == played[w]
  <2>1. s \in Seq(Sample) /\ \A i \in 1 .. Len(s) : s[i] = 0 + i
    BY WriterTypes DEF WriterInv, InvOf, InLine, Continues
  <2> HIDE DEF s
  <2>2. \A i \in 1 .. Len(s) : s[i] = i
    BY <2>1
  <2>3. s = [i \in 1 .. Len(s) |-> s[i]]
    BY <2>1
  <2>4. s = [i \in 1 .. Len(s) |-> i]
    BY <2>2, <2>3
  <2> QED
    BY <2>4 DEF s
<1> QED
  BY <1>1, WriterInductive, PTL

\* play/end comes once, for a writer that has ended and left, with less than a
\* frame of what it was given unplayed.
THEOREM WritersTellTheirEnd == WritersSpec => []EndTold
<1>1. WriterInv => EndTold
  BY DEF WriterInv, InvOf, Tells, EndTold
<1> QED
  BY <1>1, WriterInductive, PTL

-----------------------------------------------------------------------------
(* Prefixes and repetitions. *)

LEMMA SameSeq ==
  ASSUME NEW S, NEW a \in Seq(S), NEW b \in Seq(S),
         Len(a) = Len(b), \A i \in 1 .. Len(a) : a[i] = b[i]
  PROVE  a = b
  OBVIOUS

LEMMA JoinFacts ==
  ASSUME NEW S, NEW a \in Seq(S), NEW b \in Seq(S)
  PROVE  /\ a \o b \in Seq(S)
         /\ Len(a) \in Nat /\ Len(b) \in Nat
         /\ Len(a \o b) = Len(a) + Len(b)
         /\ \A i \in 1 .. Len(a) : (a \o b)[i] = a[i]
         /\ \A i \in 1 .. Len(b) : (a \o b)[Len(a) + i] = b[i]
         /\ \A i \in 1 .. Len(a) + Len(b) :
              i \notin 1 .. Len(a) => i - Len(a) \in 1 .. Len(b) /\ (a \o b)[i] = b[i - Len(a)]
         /\ a \o <<>> = a /\ <<>> \o a = a
  OBVIOUS

\* An equation the provers would otherwise not match.
Associative(a, b, c) == (a \o b) \o c = a \o (b \o c)

LEMMA JoinAssociates ==
  ASSUME NEW S, NEW a \in Seq(S), NEW b \in Seq(S), NEW c \in Seq(S)
  PROVE  Associative(a, b, c)
  BY DEF Associative

LEMMA PrefixMeans ==
  ASSUME NEW S, NEW a \in Seq(S), NEW b \in Seq(S)
  PROVE  IsPrefix(a, b) <=> Len(a) <= Len(b) /\ \A i \in 1 .. Len(a) : a[i] = b[i]
<1>1. CASE Len(a) <= Len(b)
  <2>1. /\ SubSeq(a, 1, Len(a)) \in Seq(S) /\ SubSeq(b, 1, Len(a)) \in Seq(S)
        /\ Len(SubSeq(a, 1, Len(a))) = Len(a) /\ Len(SubSeq(b, 1, Len(a))) = Len(a)
        /\ \A i \in 1 .. Len(a) : SubSeq(a, 1, Len(a))[i] = a[i] /\ SubSeq(b, 1, Len(a))[i] = b[i]
    BY <1>1
  <2>2. SubSeq(a, 1, Len(a)) = SubSeq(b, 1, Len(a)) <=> \A i \in 1 .. Len(a) : a[i] = b[i]
    BY <2>1, SameSeq
  <2> QED
    BY <1>1, <2>2 DEF IsPrefix
<1>2. CASE ~(Len(a) <= Len(b))
  BY <1>2 DEF IsPrefix
<1> QED
  BY <1>1, <1>2

LEMMA PrefixOfJoin ==
  ASSUME NEW S, NEW a \in Seq(S), NEW b \in Seq(S)
  PROVE  IsPrefix(a, a \o b)
<1> DEFINE x == a \o b
<1>1. x \in Seq(S) /\ Len(a) <= Len(x) /\ \A i \in 1 .. Len(a) : x[i] = a[i]
  BY JoinFacts
<1> HIDE DEF x
<1>2. IsPrefix(a, x) <=> Len(a) <= Len(x) /\ \A i \in 1 .. Len(a) : a[i] = x[i]
  BY <1>1, PrefixMeans
<1>3. IsPrefix(a, x)
  BY <1>1, <1>2
<1> QED
  BY <1>3 DEF x

LEMMA PrefixAfter ==
  ASSUME NEW S, NEW a \in Seq(S), NEW b \in Seq(S), NEW c \in Seq(S), IsPrefix(b, c)
  PROVE  IsPrefix(a \o b, a \o c)
<1>1. Len(b) <= Len(c) /\ \A i \in 1 .. Len(b) : b[i] = c[i]
  BY PrefixMeans
<1> DEFINE x == a \o b
           y == a \o c
<1>2. /\ x \in Seq(S) /\ y \in Seq(S)
      /\ Len(a) \in Nat /\ Len(b) \in Nat /\ Len(c) \in Nat
      /\ Len(x) = Len(a) + Len(b) /\ Len(y) = Len(a) + Len(c)
  BY JoinFacts
<1>3. ASSUME NEW i \in 1 .. Len(x) PROVE x[i] = y[i]
  <2>1. CASE i \in 1 .. Len(a)
    BY <2>1, JoinFacts
  <2>2. CASE i \notin 1 .. Len(a)
    <3>1. i - Len(a) \in 1 .. Len(b) /\ x[i] = b[i - Len(a)]
      BY <1>2, <1>3, <2>2, JoinFacts
    <3>2. y[i] = c[i - Len(a)]
      BY <1>1, <1>2, <1>3, <2>2, JoinFacts
    <3> QED
      BY <1>1, <3>1, <3>2
  <2> QED
    BY <2>1, <2>2
<1> HIDE DEF x, y
<1>4. IsPrefix(x, y) <=> Len(x) <= Len(y) /\ \A i \in 1 .. Len(x) : x[i] = y[i]
  <2>1. x \in Seq(S) /\ y \in Seq(S)
    BY <1>2
  <2> QED
    BY ONLY <2>1, PrefixMeans
<1>5. Len(x) <= Len(y)
  BY <1>1, <1>2
<1>6. IsPrefix(x, y)
  BY <1>3, <1>4, <1>5
<1> QED
  BY <1>6 DEF x, y

LEMMA PrefixOfPrefix ==
  ASSUME NEW S, NEW a \in Seq(S), NEW b \in Seq(S), NEW c \in Seq(S),
         IsPrefix(a, b), IsPrefix(b, c)
  PROVE  IsPrefix(a, c)
<1>1. /\ Len(a) <= Len(b) /\ \A i \in 1 .. Len(a) : a[i] = b[i]
      /\ Len(b) <= Len(c) /\ \A i \in 1 .. Len(b) : b[i] = c[i]
  BY PrefixMeans
<1>2. Len(a) \in Nat /\ Len(b) \in Nat /\ Len(c) \in Nat
  OBVIOUS
<1> QED
  BY <1>1, <1>2, PrefixMeans

LEMMA TimesFacts ==
  ASSUME NEW S, NEW s \in Seq(S), NEW n \in Nat
  PROVE  /\ Times(s, n) \in Seq(S)
         /\ Len(s) * n \in Nat
         /\ Len(Times(s, n)) = Len(s) * n
         /\ \A i \in 1 .. Len(s) * n :
              ((i - 1) % Len(s)) + 1 \in 1 .. Len(s) /\ Times(s, n)[i] = s[((i - 1) % Len(s)) + 1]
<1>1. Len(s) \in Nat /\ Len(s) * n \in Nat
  OBVIOUS
<1>2. ASSUME NEW i \in 1 .. Len(s) * n PROVE ((i - 1) % Len(s)) + 1 \in 1 .. Len(s)
  <2>1. Len(s) # 0
    BY <1>1, <1>2
  <2>2. i - 1 \in Nat
    BY <1>1, <1>2
  <2>3. (i - 1) % Len(s) \in 0 .. Len(s) - 1
    BY <1>1, <2>1, <2>2
  <2> QED
    BY <1>1, <2>3
<1>3. Times(s, n) = [i \in 1 .. Len(s) * n |-> s[((i - 1) % Len(s)) + 1]]
  BY DEF Times
<1>4. \A i \in 1 .. Len(s) * n : s[((i - 1) % Len(s)) + 1] \in S
  BY <1>2
<1> DEFINE l == Len(s) * n
           g(i) == s[((i - 1) % Len(s)) + 1]
<1> HIDE DEF l, g
<1>5. /\ [i \in 1 .. l |-> g(i)] \in Seq(S)
      /\ Len([i \in 1 .. l |-> g(i)]) = l
      /\ \A i \in 1 .. l : [j \in 1 .. l |-> g(j)][i] = g(i)
  BY <1>1, <1>4 DEF l, g
<1> QED
  BY <1>1, <1>2, <1>3, <1>5 DEF l, g

LEMMA NoTimes ==
  ASSUME NEW S, NEW s \in Seq(S)
  PROVE  Times(s, 0) = <<>>
<1>1. Times(s, 0) \in Seq(S) /\ Len(Times(s, 0)) = Len(s) * 0
  BY TimesFacts
<1>2. Len(s) * 0 = 0
  OBVIOUS
<1> QED
  BY <1>1, <1>2

\* Quotient and remainder are what they are said to be.
LEMMA Division ==
  ASSUME NEW r \in Nat \ {0}, NEW q \in Nat, NEW e \in 0 .. r - 1
  PROVE  (q * r + e) \div r = q /\ (q * r + e) % r = e
<1> DEFINE x == q * r + e
           y == x \div r
           f == x % r
<1>1. x \in Nat
  OBVIOUS
<1> HIDE DEF x
<1>2. x = r * y + f /\ y \in Int /\ f \in 0 .. r - 1
  BY <1>1
<1>3. x = q * r + e
  BY DEF x
<1> HIDE DEF y, f
<1>4. (y - q) * r = e - f
  BY <1>2, <1>3
<1>5. PICK d \in Int : d = y - q
  BY <1>2
<1>6. d * r = e - f
  BY <1>4, <1>5
<1>7. e - f < r /\ e - f > -r
  BY <1>2
<1>8. d >= 1 => d * r >= r
  OBVIOUS
<1>9. d <= -1 => d * r <= -r
  OBVIOUS
<1>10. d = 0
  BY <1>2, <1>5, <1>6, <1>7, <1>8, <1>9
<1>11. y = q
  BY <1>2, <1>5, <1>10
<1>12. e = f
  BY <1>2, <1>6, <1>10
<1> QED
  BY <1>11, <1>12 DEF x, y, f

LEMMA TimesMore ==
  ASSUME NEW S, NEW s \in Seq(S), NEW n \in Nat
  PROVE  Times(s, n + 1) = Times(s, n) \o s
<1> DEFINE L == Len(s)
           a == Times(s, n)
           b == Times(s, n + 1)
           c == a \o s
<1>1. L \in Nat /\ L * n \in Nat /\ L * (n + 1) = L * n + L
  OBVIOUS
<1>2. /\ a \in Seq(S) /\ Len(a) = L * n
      /\ \A i \in 1 .. L * n : a[i] = s[((i - 1) % L) + 1]
  BY TimesFacts
<1>3. /\ b \in Seq(S) /\ Len(b) = L * n + L
      /\ \A i \in 1 .. L * n + L : b[i] = s[((i - 1) % L) + 1]
  <2>1. n + 1 \in Nat
    OBVIOUS
  <2>2. /\ b \in Seq(S) /\ Len(b) = L * (n + 1)
        /\ \A i \in 1 .. L * (n + 1) : b[i] = s[((i - 1) % L) + 1]
    BY <2>1, TimesFacts
  <2> HIDE DEF b, L
  <2> QED
    BY <1>1, <2>2
<1>4. /\ c \in Seq(S) /\ Len(c) = L * n + L
      /\ \A i \in 1 .. L * n : c[i] = a[i]
      /\ \A i \in 1 .. L * n + L : i \notin 1 .. L * n => i - L * n \in 1 .. L /\ c[i] = s[i - L * n]
  <2> HIDE DEF a
  <2> QED
    BY <1>2, JoinFacts
<1> HIDE DEF a, b, c
<1>5. ASSUME NEW i \in 1 .. L * n + L PROVE b[i] = c[i]
  <2>1. CASE i \in 1 .. L * n
    BY <1>2, <1>3, <1>4, <2>1
  <2>2. CASE i \notin 1 .. L * n
    <3>1. PICK j \in 1 .. L : j = i - L * n
      BY <1>4, <2>2
    <3>2. c[i] = s[j]
      BY <1>4, <2>2, <3>1
    <3>3. L # 0 /\ j - 1 \in 0 .. L - 1 /\ i - 1 = n * L + (j - 1)
      BY <1>1, <3>1
    <3>4. (i - 1) % L = j - 1
      <4> HIDE DEF L
      <4>1. PICK e \in 0 .. L - 1 : e = j - 1
        BY <3>3
      <4>2. L \in Nat \ {0}
        BY <1>1, <3>3
      <4>3. (n * L + e) % L = e
        BY ONLY n \in Nat, <4>1, <4>2, Division
      <4> QED
        BY <3>3, <4>1, <4>3
    <3>5. ((i - 1) % L) + 1 = j
      BY <3>1, <3>4
    <3> QED
      BY <1>3, <3>2, <3>5
  <2> QED
    BY <2>1, <2>2
<1>6. b = c
  BY <1>3, <1>4, <1>5, SameSeq
<1> QED
  BY <1>6 DEF a, b, c

\* What begins one number of repetitions begins any that are long enough.
LEMMA TimesBegin ==
  ASSUME NEW S, NEW s \in Seq(S), NEW x \in Seq(S), NEW n \in Nat, NEW m \in Nat,
         IsPrefix(x, Times(s, n)), Len(x) <= Len(s) * m
  PROVE  IsPrefix(x, Times(s, m))
<1> DEFINE a == Times(s, n)
           b == Times(s, m)
<1>1. /\ a \in Seq(S) /\ Len(a) = Len(s) * n /\ Len(s) * n \in Nat
      /\ \A i \in 1 .. Len(s) * n : a[i] = s[((i - 1) % Len(s)) + 1]
  BY TimesFacts
<1>2. /\ b \in Seq(S) /\ Len(b) = Len(s) * m /\ Len(s) * m \in Nat
      /\ \A i \in 1 .. Len(s) * m : b[i] = s[((i - 1) % Len(s)) + 1]
  BY TimesFacts
<1>3. IsPrefix(x, a)
  OBVIOUS
<1> HIDE DEF a, b
<1>4. Len(x) <= Len(a) /\ \A i \in 1 .. Len(x) : x[i] = a[i]
  <2>1. a \in Seq(S)
    BY <1>1
  <2> QED
    BY ONLY x \in Seq(S), <2>1, <1>3, PrefixMeans
<1>5. Len(x) \in Nat
  OBVIOUS
<1>6. \A i \in 1 .. Len(x) : i \in 1 .. Len(s) * n /\ i \in 1 .. Len(s) * m
  BY <1>1, <1>2, <1>4, <1>5
<1>7. \A i \in 1 .. Len(x) : x[i] = b[i]
  BY <1>1, <1>2, <1>4, <1>6
<1>8. Len(x) <= Len(b)
  BY <1>2
<1>9. IsPrefix(x, b)
  <2>1. b \in Seq(S)
    BY <1>2
  <2> QED
    BY ONLY x \in Seq(S), <2>1, <1>7, <1>8, PrefixMeans
<1> QED
  BY <1>9 DEF b

SoupConstants ==
  /\ SamplesWanted \in Nat \ {0} /\ MaxReads \in Nat /\ MaxFaults \in Nat
  /\ Forever \notin Nat /\ Nothing \notin Int

LEMMA SoupIsTyped == SoupConstants
  BY SoupAssumption DEF SoupConstants

\* As long as no more than can be read is asked of it, a loop without end is as
\* good as one that is counted.
LEMMA AgainBegins ==
  ASSUME NEW S, NEW s \in Seq(S), NEW x \in Seq(S), NEW k \in Nat,
         NEW loops \in (Nat \ {0}) \cup {Forever},
         loops # Forever => k < loops,
         IsPrefix(x, Times(s, k + 1)), Len(x) <= SamplesWanted * MaxReads
  PROVE  IsPrefix(x, Again(s, loops))
<1>1. SamplesWanted * MaxReads + 1 \in Nat /\ SamplesWanted * MaxReads \in Nat
  BY SoupIsTyped DEF SoupConstants
<1> DEFINE a == Times(s, k + 1)
<1>2. k + 1 \in Nat /\ Len(s) \in Nat /\ Len(x) \in Nat
  OBVIOUS
<1>3. a \in Seq(S) /\ Len(a) = Len(s) * (k + 1)
  BY <1>2, TimesFacts
<1>4. IsPrefix(x, a)
  OBVIOUS
<1>5. Len(x) <= Len(s) * (k + 1)
  <2> HIDE DEF a
  <2>1. a \in Seq(S)
    BY <1>3
  <2>2. Len(x) <= Len(a)
    BY ONLY x \in Seq(S), <2>1, <1>4, PrefixMeans
  <2> QED
    BY <1>3, <2>2
<1>6. CASE loops = Forever
  <2>1. Len(x) <= Len(s) * (SamplesWanted * MaxReads + 1)
    <3>1. CASE Len(s) = 0
      BY <1>1, <1>2, <1>5, <3>1
    <3>2. CASE Len(s) >= 1
      <4>1. Len(s) * (SamplesWanted * MaxReads + 1) >= SamplesWanted * MaxReads + 1
        <5> DEFINE z == SamplesWanted * MaxReads
                   l == Len(s)
        <5>1. z \in Nat /\ l \in Nat \ {0}
          BY <1>1, <1>2, <3>2
        <5> HIDE DEF z, l
        <5>2. l * (z + 1) >= z + 1
          BY <5>1
        <5> QED
          BY <5>2 DEF z, l
      <4>2. Len(s) * (SamplesWanted * MaxReads + 1) \in Nat
        BY <1>1, <1>2
      <4> QED
        BY <1>1, <1>2, <4>1, <4>2
    <3> QED
      BY <1>2, <3>1, <3>2
  <2>2. IsPrefix(x, Times(s, SamplesWanted * MaxReads + 1))
    <3> DEFINE z == SamplesWanted * MaxReads + 1
    <3>1. z \in Nat /\ Len(x) <= Len(s) * z
      BY <1>1, <2>1
    <3> HIDE DEF z
    <3>2. IsPrefix(x, Times(s, z))
      BY <1>2, <1>4, <3>1, TimesBegin
    <3> QED
      BY <3>2 DEF z
  <2> QED
    BY <1>6, <2>2 DEF Again
<1>7. CASE loops # Forever
  <2>1. loops \in Nat /\ k + 1 <= loops
    BY <1>2, <1>7
  <2>2. Len(x) <= Len(s) * loops
    <3>1. Len(s) * (k + 1) <= Len(s) * loops
      <4> DEFINE l == Len(s)
      <4>1. l \in Nat
        BY <1>2
      <4> HIDE DEF l
      <4>2. PICK d \in Nat : loops = (k + 1) + d
        <5>1. loops - (k + 1) \in Nat /\ loops = (k + 1) + (loops - (k + 1))
          BY <2>1
        <5> QED
          BY <5>1
      <4>3. l * loops = l * (k + 1) + l * d /\ l * d \in Nat
        BY <4>1, <4>2
      <4>4. l * (k + 1) <= l * loops
        BY <4>1, <4>3
      <4> QED
        BY <4>4 DEF l
    <3>2. Len(s) * (k + 1) \in Nat /\ Len(s) * loops \in Nat
      BY <1>2, <2>1
    <3> QED
      BY <1>2, <1>5, <3>1, <3>2
  <2>3. IsPrefix(x, Times(s, loops))
    BY <1>2, <1>4, <2>1, <2>2, TimesBegin
  <2> QED
    BY <1>7, <2>3 DEF Again
<1> QED
  BY <1>6, <1>7

-----------------------------------------------------------------------------
(* Samples of a file. *)

\* Rounded up: the one number whose multiple is x or up to r - 1 more.
LEMMA RoundsUp ==
  ASSUME NEW r \in Nat \ {0}, NEW x \in Nat
  PROVE  /\ (x + r - 1) \div r \in Nat
         /\ ((x + r - 1) \div r) * r >= x
         /\ ((x + r - 1) \div r) * r < x + r
         /\ \A c \in Int : c * r >= x /\ c * r < x + r => c = (x + r - 1) \div r
<1> DEFINE z == x + r - 1
           y == z \div r
           e == z % r
<1>1. z \in Nat
  OBVIOUS
<1>2. z = x + r - 1
  OBVIOUS
<1> HIDE DEF z
<1>3. z = r * y + e /\ y \in Nat /\ e \in 0 .. r - 1
  BY <1>1
<1> HIDE DEF y, e
<1>4. y * r \in Nat /\ y * r = x + r - 1 - e
  BY <1>2, <1>3
<1>5. y * r >= x /\ y * r < x + r
  BY <1>3, <1>4
<1>6. ASSUME NEW c \in Int, c * r >= x, c * r < x + r PROVE c = y
  <2>1. PICK d \in Int : d = c - y
    BY <1>3
  <2>2. d * r = c * r - y * r /\ c * r \in Int
    BY <1>3, <2>1
  <2>3. d * r < r /\ d * r > -r
    BY <1>4, <1>5, <1>6, <2>2
  <2>4. (d >= 1 => d * r >= r) /\ (d <= -1 => d * r <= -r)
    OBVIOUS
  <2>5. d = 0
    BY <2>3, <2>4
  <2> QED
    BY <1>3, <2>1, <2>5
<1> QED
  BY <1>3, <1>5, <1>6 DEF y, z

\* Samples of a file whose data, or whose trimming, ends at e.
Within(e, start, r) == IF e > start * r THEN (e - start * r + r - 1) \div r ELSE 0

LEMMA WithinIsNat ==
  ASSUME NEW r \in Nat \ {0}, NEW start \in Nat, NEW e \in Nat
  PROVE  Within(e, start, r) \in Nat
<1>1. start * r \in Nat
  OBVIOUS
<1>2. CASE e > start * r
  <2>1. PICK x \in Nat : x = e - start * r
    BY <1>1, <1>2
  <2>2. (x + r - 1) \div r \in Nat
    BY RoundsUp
  <2> QED
    BY <1>2, <2>1, <2>2 DEF Within
<1> QED
  BY <1>2 DEF Within

\* t samples and g more fit if their data do.
LEMMA Fits ==
  ASSUME NEW r \in Nat \ {0}, NEW start \in Nat, NEW e \in Nat, NEW t \in Nat, NEW g \in Nat,
         (start + t) * r + g * r <= e
  PROVE  /\ (start + t) * r + g * r = (start + (t + g)) * r
         /\ t + g <= Within(e, start, r)
<1>1. /\ (start + t) * r + g * r = (start + (t + g)) * r
      /\ (start + (t + g)) * r = start * r + (t + g) * r
      /\ start * r \in Nat /\ (t + g) * r \in Nat
  OBVIOUS
<1>2. (t + g) * r <= e - start * r
  BY <1>1
<1>3. CASE e > start * r
  <2>1. PICK x \in Nat : x = e - start * r
    BY <1>1, <1>3
  <2>2. PICK n \in Nat : n = (x + r - 1) \div r /\ n * r >= x
    BY RoundsUp
  <2>3. n * r >= (t + g) * r
    BY <1>1, <1>2, <2>1, <2>2
  <2>4. n >= t + g
    <3>1. PICK u \in Nat : u = t + g
      OBVIOUS
    <3>2. PICK d \in Int : d = n - u
      OBVIOUS
    <3>3. d * r = n * r - u * r
      BY <3>2
    <3>4. d * r >= 0
      BY <2>3, <3>1, <3>3
    <3>5. d <= -1 => d * r <= -r
      OBVIOUS
    <3>6. d >= 0
      BY <3>4, <3>5
    <3> QED
      BY <3>1, <3>2, <3>6
  <2> QED
    BY <1>1, <1>3, <2>1, <2>2, <2>4 DEF Within
<1>4. CASE ~(e > start * r)
  <2>1. (t + g) * r = 0
    BY <1>1, <1>2, <1>4
  <2>2. t + g = 0
    <3>1. PICK u \in Nat : u = t + g
      OBVIOUS
    <3>2. u >= 1 => u * r >= 1
      OBVIOUS
    <3> QED
      BY <2>1, <3>1, <3>2
  <2> QED
    BY <1>1, <1>4, <2>2 DEF Within
<1> QED
  BY <1>3, <1>4

\* d is g / r, rounded up.
Rounded(d, g, r) == d * r >= g /\ d * r < g + r

\* e is g more than the place of the sample after t.
Beyond(e, g, start, t, r) == e = (start + t) * r + g

\* The last samples, of which the data's end may cut a group short.
LEMMA Fills ==
  ASSUME NEW r \in Nat \ {0}, NEW start \in Nat, NEW t \in Nat, NEW g \in Nat, NEW d \in Nat,
         NEW e \in Nat, Beyond(e, g, start, t, r), Rounded(d, g, r),
         e > start * r \/ t + d = 0
  PROVE  t + d = Within(e, start, r)
<1>1. /\ (start + t) * r = start * r + t * r /\ (t + d) * r = t * r + d * r
      /\ start * r \in Nat /\ t * r \in Nat /\ d * r \in Nat
  OBVIOUS
<1>3. CASE e > start * r
  <2>1. PICK x \in Nat : x = e - start * r
    BY <1>1, <1>3
  <2>2. x = t * r + g
    BY <1>1, <2>1 DEF Beyond
  <2>3. (t + d) * r >= x /\ (t + d) * r < x + r /\ t + d \in Int
    BY <1>1, <2>2 DEF Rounded
  <2>4. t + d = (x + r - 1) \div r
    BY <2>3, RoundsUp
  <2> QED
    BY <1>3, <2>1, <2>4 DEF Within
<1>4. CASE ~(e > start * r)
  BY <1>4 DEF Within
<1> QED
  BY <1>3, <1>4

LEMMA FileTyped ==
  ASSUME NEW f \in File
  PROVE  /\ f.length \in Nat /\ f.start \in Nat /\ f.ratio \in Nat \ {0}
         /\ f.stop \in Nat \cup {Nothing} /\ f.loops \in (Nat \ {0}) \cup {Forever}
         /\ Nothing \notin Int /\ f.start * f.ratio \in Nat
         /\ EndOf(f) \in Nat /\ EndOf(f) <= f.length
         /\ f.stop # Nothing => f.stop * f.ratio \in Nat /\ EndOf(f) <= f.stop * f.ratio
         /\ EndOf(f) = f.length \/ (f.stop # Nothing /\ EndOf(f) = f.stop * f.ratio)
         /\ SamplesOf(f) = Within(EndOf(f), f.start, f.ratio)
         /\ SamplesOf(f) \in Nat
<1>1. /\ f.length \in Nat /\ f.start \in Nat /\ f.ratio \in Nat \ {0}
      /\ f.stop \in Nat \cup {Nothing} /\ f.loops \in (Nat \ {0}) \cup {Forever}
      /\ Nothing \notin Int
  BY SoupAssumption DEF File
<1>2. f.start * f.ratio \in Nat /\ (f.stop # Nothing => f.stop * f.ratio \in Nat)
  BY <1>1
<1>3. /\ EndOf(f) \in Nat /\ EndOf(f) <= f.length
      /\ f.stop # Nothing => f.stop * f.ratio \in Nat /\ EndOf(f) <= f.stop * f.ratio
      /\ EndOf(f) = f.length \/ (f.stop # Nothing /\ EndOf(f) = f.stop * f.ratio)
  BY <1>1, <1>2 DEF EndOf, Smaller
<1>4. SamplesOf(f) = Within(EndOf(f), f.start, f.ratio)
  BY DEF SamplesOf, Within
<1>5. SamplesOf(f) \in Nat
  BY <1>1, <1>3, <1>4, WithinIsNat
<1> QED
  BY <1>1, <1>2, <1>3, <1>4, <1>5

\* Where reading stands in f when t samples have come of it: at the next one, or
\* at the end of data that cut the last group short.
InFile(f, pos, rem, t) ==
  \/ /\ pos = (f.start + t) * f.ratio /\ pos <= f.length
     /\ t <= SamplesOf(f)
     /\ rem = IF f.stop = Nothing THEN Nothing ELSE Window(f) - t * f.ratio
  \/ /\ pos = f.length /\ t = SamplesOf(f)
     /\ rem = Nothing <=> f.stop = Nothing

\* Wanted and Got, with w samples to go.
Wants(f, rem, w) == IF rem = Nothing THEN w * f.ratio ELSE Smaller(w * f.ratio, rem)
Gets(f, pos, rem, w) == Smaller(Wants(f, rem, w), f.length - pos)

LEMMA WindowFacts ==
  ASSUME NEW f \in File
  PROVE  /\ f.stop = Nothing => Window(f) = Nothing
         /\ f.stop # Nothing => Window(f) \in Nat
         /\ f.stop # Nothing /\ f.stop > f.start =>
              Window(f) = f.stop * f.ratio - f.start * f.ratio
         /\ f.stop # Nothing /\ ~(f.stop > f.start) =>
              Window(f) = 0 /\ f.stop * f.ratio <= f.start * f.ratio
<1>1. CASE f.stop = Nothing
  BY <1>1 DEF Window
<1>2. CASE f.stop # Nothing
  <2>1. f.stop \in Nat /\ f.start \in Nat /\ f.ratio \in Nat \ {0} /\ Nothing \notin Int
    BY <1>2, FileTyped
  <2> DEFINE a == f.stop
             b == f.start
             r == f.ratio
  <2>2. a \in Nat /\ b \in Nat /\ r \in Nat \ {0}
    BY <2>1
  <2> HIDE DEF a, b, r
  <2>3. CASE a > b
    <3>1. (a - b) * r = a * r - b * r /\ (a - b) * r \in Nat
      <4>1. PICK d \in Nat : d = a - b
        BY <2>2, <2>3
      <4>2. a = b + d
        BY <2>2, <4>1
      <4>3. a * r = b * r + d * r /\ b * r \in Nat /\ d * r \in Nat
        BY <2>2, <4>2
      <4> QED
        BY <4>1, <4>3
    <3> QED
      BY <1>2, <2>3, <3>1 DEF Window, a, b, r
  <2>4. CASE ~(a > b)
    <3>1. a * r <= b * r
      <4>1. PICK d \in Nat : d = b - a
        BY <2>2, <2>4
      <4>2. b = a + d
        BY <2>2, <4>1
      <4>3. b * r = a * r + d * r /\ a * r \in Nat /\ d * r \in Nat
        BY <2>2, <4>2
      <4> QED
        BY <4>3
    <3> QED
      BY <1>2, <2>4, <3>1 DEF Window, a, b, r
  <2> QED
    BY <2>3, <2>4
<1> QED
  BY <1>1, <1>2

LEMMA Opens ==
  ASSUME NEW f \in File
  PROVE  /\ SeekTo(f) \in Nat /\ Window(f) \in Nat \cup {Nothing}
         /\ InFile(f, SeekTo(f), Window(f), 0)
<1> DEFINE r == f.ratio
           s == f.start * f.ratio
<1>1. /\ f.length \in Nat /\ s \in Nat /\ r \in Nat \ {0} /\ f.start \in Nat
      /\ EndOf(f) <= f.length /\ EndOf(f) \in Nat /\ SamplesOf(f) \in Nat
      /\ SamplesOf(f) = Within(EndOf(f), f.start, f.ratio) /\ Nothing \notin Int
  BY FileTyped
<1>2. /\ f.stop = Nothing => Window(f) = Nothing
      /\ f.stop # Nothing => Window(f) \in Nat
  BY WindowFacts
<1>3. CASE s < f.length
  <2>1. SeekTo(f) = s
    BY <1>3 DEF SeekTo, Smaller
  <2>2. (f.start + 0) * f.ratio = s /\ 0 * f.ratio = 0
    BY <1>1
  <2> QED
    BY <1>1, <1>2, <1>3, <2>1, <2>2 DEF InFile
<1>4. CASE ~(s < f.length)
  <2>1. SeekTo(f) = f.length
    BY <1>4 DEF SeekTo, Smaller
  <2>2. SamplesOf(f) = 0
    BY <1>1, <1>4 DEF Within
  <2> QED
    BY <1>1, <1>2, <2>1, <2>2 DEF InFile
<1> QED
  BY <1>3, <1>4

LEMMA Leaves ==
  ASSUME NEW f \in File, NEW pos \in Nat, NEW rem \in Nat \cup {Nothing}, NEW t \in Nat,
         NEW w \in Nat \ {0}, InFile(f, pos, rem, t),
         rem = 0 \/ Gets(f, pos, rem, w) = 0
  PROVE  t = SamplesOf(f)
<1>1. /\ f.length \in Nat /\ f.ratio \in Nat \ {0} /\ f.start \in Nat /\ f.start * f.ratio \in Nat
      /\ EndOf(f) \in Nat /\ SamplesOf(f) \in Nat /\ EndOf(f) <= f.length
      /\ SamplesOf(f) = Within(EndOf(f), f.start, f.ratio) /\ Nothing \notin Int
      /\ f.stop \in Nat \cup {Nothing}
      /\ f.stop # Nothing => f.stop * f.ratio \in Nat /\ EndOf(f) <= f.stop * f.ratio
      /\ EndOf(f) = f.length \/ (f.stop # Nothing /\ EndOf(f) = f.stop * f.ratio)
  BY FileTyped
<1>2. SUFFICES ASSUME pos = (f.start + t) * f.ratio, pos <= f.length, t <= SamplesOf(f),
                      rem = IF f.stop = Nothing THEN Nothing ELSE Window(f) - t * f.ratio
               PROVE  t = SamplesOf(f)
  BY DEF InFile
<1>3. pos = f.start * f.ratio + t * f.ratio /\ t * f.ratio \in Nat
  BY <1>1, <1>2
<1>4. pos > f.start * f.ratio \/ t = 0
  <2>1. t # 0 => t * f.ratio >= 1
    BY <1>1
  <2> QED
    BY <1>1, <1>3, <2>1
<1>5. CASE f.stop # Nothing /\ ~(f.stop > f.start)
  BY <1>1, <1>2, <1>5, WindowFacts DEF Within
<1>6. CASE f.stop = Nothing \/ f.stop > f.start
  <2>1. f.stop # Nothing => rem = f.stop * f.ratio - pos /\ rem \in Nat
    BY <1>1, <1>2, <1>3, <1>6, WindowFacts
  <2>2. EndOf(f) = pos
    <3>1. CASE rem = 0
      BY <1>1, <1>2, <2>1, <3>1 DEF EndOf, Smaller
    <3>2. CASE rem # 0
      <4>1. w * f.ratio \in Nat \ {0}
        BY <1>1
      <4>2. Wants(f, rem, w) \in Nat \ {0}
        BY <1>1, <3>2, <4>1 DEF Wants, Smaller
      <4>3. f.length - pos = 0
        BY <1>1, <1>2, <3>2, <4>2 DEF Gets, Smaller
      <4> QED
        BY <1>1, <1>2, <2>1, <4>3
    <3> QED
      BY <3>1, <3>2
  <2>3. t = Within(pos, f.start, f.ratio)
    <3>1. PICK z \in Nat : z = 0
      OBVIOUS
    <3>2. PICK r \in Nat \ {0} : r = f.ratio
      BY <1>1
    <3>3. PICK s \in Nat : s = f.start
      BY <1>1
    <3>4. Rounded(z, z, r)
      BY <3>1 DEF Rounded
    <3>5. Beyond(pos, z, s, t, r)
      BY <1>2, <3>1, <3>2, <3>3 DEF Beyond
    <3>6. pos > s * r \/ t + z = 0
      BY <1>4, <3>1, <3>2, <3>3
    <3>7. t + z = Within(pos, s, r)
      BY <3>4, <3>5, <3>6, Fills
    <3> QED
      BY <3>1, <3>2, <3>3, <3>7
  <2> QED
    BY <1>1, <2>2, <2>3
<1> QED
  BY <1>1, <1>5, <1>6

\* A piece read from a file, wherever it begins.
LEMMA Reads ==
  ASSUME NEW f \in File, NEW pos \in Nat, NEW rem \in Nat \cup {Nothing},
         NEW w \in Nat \ {0}, NEW d,
         NEW g \in Int, g = Gets(f, pos, rem, w), g > 0,
         d = (g + f.ratio - 1) \div f.ratio
  PROVE  /\ d \in Nat /\ d <= w /\ Rounded(d, g, f.ratio)
         /\ pos + g \in Nat /\ (rem # Nothing => rem - g \in Nat)
<1>1. f.length \in Nat /\ f.ratio \in Nat \ {0} /\ Nothing \notin Int
  BY FileTyped
<1>2. PICK r \in Nat \ {0} : r = f.ratio
  BY <1>1
<1>3. PICK all \in Nat \ {0} : all = w * r
  OBVIOUS
<1>4. /\ rem = Nothing => Wants(f, rem, w) = all
      /\ rem # Nothing => Wants(f, rem, w) = Smaller(all, rem)
  BY <1>2, <1>3 DEF Wants
<1>5. Wants(f, rem, w) \in Nat /\ Wants(f, rem, w) <= all /\ (rem # Nothing => Wants(f, rem, w) <= rem)
  BY <1>1, <1>4 DEF Smaller
<1>6. g <= Wants(f, rem, w) /\ g <= f.length - pos
  BY <1>1, <1>5 DEF Gets, Smaller
<1>7. d \in Nat /\ Rounded(d, g, r)
  <2>1. g \in Nat /\ d = (g + r - 1) \div r
    BY <1>2
  <2> QED
    BY <2>1, RoundsUp DEF Rounded
<1>8. d <= w
  <2>1. PICK k \in Int : k = d - w
    BY <1>7
  <2>2. k * r = d * r - w * r
    BY <1>7, <2>1
  <2>3. d * r < w * r + r
    BY <1>3, <1>5, <1>6, <1>7 DEF Rounded
  <2>4. k * r < r
    BY <1>7, <2>2, <2>3
  <2>5. k >= 1 => k * r >= r
    OBVIOUS
  <2> QED
    BY <1>7, <2>1, <2>4, <2>5
<1>9. pos + g \in Nat /\ (rem # Nothing => rem - g \in Nat)
  BY <1>5, <1>6
<1> QED
  BY <1>2, <1>7, <1>8, <1>9

\* Where a piece of g leads to.
Leads(f, pos, rem, t, g, d) ==
  /\ t + d <= SamplesOf(f)
  /\ pos = (f.start + t) * f.ratio
  /\ InFile(f, pos + g, IF rem = Nothing THEN Nothing ELSE rem - g, t + d)

LEMMA ReadsOn ==
  ASSUME NEW f \in File, NEW pos \in Nat, NEW rem \in Nat \cup {Nothing}, NEW t \in Nat,
         NEW w \in Nat \ {0}, NEW d, InFile(f, pos, rem, t), rem # 0,
         NEW g \in Int, g = Gets(f, pos, rem, w), g > 0,
         d = (g + f.ratio - 1) \div f.ratio
  PROVE  Leads(f, pos, rem, t, g, d)
<1>1. /\ f.length \in Nat /\ f.ratio \in Nat \ {0} /\ f.start \in Nat /\ f.start * f.ratio \in Nat
      /\ EndOf(f) \in Nat /\ SamplesOf(f) \in Nat /\ EndOf(f) <= f.length
      /\ SamplesOf(f) = Within(EndOf(f), f.start, f.ratio) /\ Nothing \notin Int
      /\ f.stop \in Nat \cup {Nothing}
      /\ f.stop # Nothing => f.stop * f.ratio \in Nat /\ EndOf(f) <= f.stop * f.ratio
      /\ EndOf(f) = f.length \/ (f.stop # Nothing /\ EndOf(f) = f.stop * f.ratio)
  BY FileTyped
<1>2. PICK r \in Nat \ {0} : r = f.ratio
  BY <1>1
<1>3. PICK s \in Nat : s = f.start
  BY <1>1
<1>4. PICK all \in Nat \ {0} : all = w * r
  OBVIOUS
<1>5. /\ rem = Nothing => Wants(f, rem, w) = all
      /\ rem # Nothing => Wants(f, rem, w) = Smaller(all, rem)
  BY <1>2, <1>4 DEF Wants
<1>6. Wants(f, rem, w) \in Nat \ {0} /\ Wants(f, rem, w) <= all /\ (rem # Nothing => Wants(f, rem, w) <= rem)
  BY <1>1, <1>5 DEF Smaller
<1>7. /\ g <= Wants(f, rem, w) /\ g <= f.length - pos
      /\ g = Wants(f, rem, w) \/ (g = f.length - pos /\ g < Wants(f, rem, w))
  BY <1>1, <1>6 DEF Gets, Smaller
<1>8. /\ pos = (f.start + t) * f.ratio /\ pos <= f.length /\ t <= SamplesOf(f)
      /\ rem = IF f.stop = Nothing THEN Nothing ELSE Window(f) - t * f.ratio
  BY <1>1, <1>7 DEF InFile
<1>9. PICK tr \in Nat : tr = t * r
  OBVIOUS
<1>10. pos = s * r + tr /\ s * r \in Nat
  BY <1>2, <1>3, <1>8, <1>9
<1>11. f.stop # Nothing => f.stop > f.start /\ rem = f.stop * f.ratio - pos
  <2>1. ASSUME f.stop # Nothing, ~(f.stop > f.start) PROVE FALSE
    <3>1. rem = 0 - tr /\ rem # Nothing
      BY <1>1, <1>2, <1>8, <1>9, <2>1, WindowFacts
    <3> QED
      BY <3>1
  <2>2. ASSUME f.stop # Nothing, f.stop > f.start PROVE rem = f.stop * f.ratio - pos
    <3>1. Window(f) = f.stop * f.ratio - s * r
      BY <1>2, <1>3, <2>2, WindowFacts
    <3> QED
      BY <1>1, <1>2, <1>8, <1>9, <1>10, <2>2, <3>1
  <2> QED
    BY <2>1, <2>2
<1>12. pos + g <= EndOf(f) /\ (rem # Nothing <=> f.stop # Nothing)
  <2>1. rem # Nothing <=> f.stop # Nothing
    BY <1>1, <1>8, <1>10, <1>11
  <2> QED
    BY <1>1, <1>6, <1>7, <1>11, <2>1
<1>13. /\ d \in Nat /\ d <= w /\ Rounded(d, g, r)
       /\ pos + g \in Nat /\ (rem # Nothing => rem - g \in Nat)
  BY <1>2, Reads
<1>14. CASE \E u \in Nat : g = u * r
  <2>1. PICK u \in Nat : g = u * r
    BY <1>14
  <2>2. d = u
    <3>1. u * r >= g /\ u * r < g + r /\ u \in Int
      BY <2>1
    <3>2. g \in Nat /\ d = (g + r - 1) \div r
      BY <1>2
    <3> QED
      BY <3>1, <3>2, RoundsUp
  <2>3. /\ (s + t) * r + u * r = (s + (t + u)) * r
        /\ t + u <= Within(EndOf(f), s, r)
    <3>1. (s + t) * r + u * r <= EndOf(f)
      BY <1>2, <1>3, <1>8, <1>12, <2>1
    <3>2. PICK e \in Nat : e = EndOf(f)
      BY <1>1
    <3>3. (s + t) * r + u * r <= e
      BY <3>1, <3>2
    <3>4. /\ (s + t) * r + u * r = (s + (t + u)) * r
          /\ t + u <= Within(e, s, r)
      BY <3>3, Fits
    <3> QED
      BY <3>2, <3>4
  <2>4. t + d <= SamplesOf(f)
    BY <1>1, <1>2, <1>3, <2>2, <2>3
  <2>5. pos + g = (f.start + (t + d)) * f.ratio /\ pos + g <= f.length
    BY <1>1, <1>2, <1>3, <1>8, <1>12, <2>1, <2>2, <2>3
  <2>6. rem # Nothing => rem - g = Window(f) - (t + d) * f.ratio
    <3>1. (t + d) * r = tr + g
      BY <1>9, <2>1, <2>2
    <3>2. rem # Nothing => f.stop # Nothing /\ Window(f) = rem + tr
      <4>1. f.stop # Nothing => Window(f) \in Nat
        BY WindowFacts
      <4> QED
        BY <1>2, <1>8, <1>9, <1>12, <4>1
    <3> QED
      BY <1>2, <3>1, <3>2
  <2>7. InFile(f, pos + g, IF rem = Nothing THEN Nothing ELSE rem - g, t + d)
    BY <1>12, <2>4, <2>5, <2>6 DEF InFile
  <2> QED
    BY <1>8, <2>4, <2>7 DEF Leads
<1>15. CASE ~\E u \in Nat : g = u * r
  <2>1. g # all
    BY <1>4, <1>15
  <2>2. g # rem
    <3>1. SUFFICES ASSUME g = rem PROVE FALSE
      OBVIOUS
    <3>2. f.stop # Nothing /\ f.stop \in Nat
      BY <1>1, <1>12, <3>1
    <3>3. PICK p \in Nat : p = f.stop
      BY <3>2
    <3>4. g = p * r - (s * r + tr)
      BY <1>2, <1>10, <1>11, <3>1, <3>2, <3>3
    <3>5. PICK v \in Int : v = p - s - t
      OBVIOUS
    <3>6. g = v * r
      BY <1>9, <3>4, <3>5
    <3>7. v >= 0
      <4>1. v <= -1 => v * r <= -r
        OBVIOUS
      <4> QED
        BY <3>6, <4>1
    <3> QED
      BY <1>15, <3>6, <3>7
  <2>3. g = f.length - pos
    BY <1>5, <1>7, <2>1, <2>2 DEF Smaller
  <2>4. EndOf(f) = pos + g
    BY <1>1, <1>12, <2>3
  <2>5. t + d = SamplesOf(f)
    <3>1. PICK e \in Nat : e = EndOf(f)
      BY <1>1
    <3>2. Beyond(e, g, s, t, r)
      BY <1>2, <1>3, <1>8, <2>4, <3>1 DEF Beyond
    <3>3. e > s * r \/ t + d = 0
      BY <1>10, <2>4, <3>1
    <3>4. g \in Nat /\ d \in Nat /\ Rounded(d, g, r)
      BY <1>13
    <3>5. t + d = Within(e, s, r)
      BY ONLY <3>2, <3>3, <3>4, Fills
    <3> QED
      BY <1>1, <1>2, <1>3, <3>1, <3>5
  <2>6. InFile(f, pos + g, IF rem = Nothing THEN Nothing ELSE rem - g, t + d)
    BY <1>1, <1>12, <1>13, <2>3, <2>5 DEF InFile
  <2> QED
    BY <1>1, <1>8, <2>5, <2>6 DEF Leads
<1> QED
  BY <1>14, <1>15

-----------------------------------------------------------------------------
(* What is to be heard, by files. *)

LEMMA BeginningFacts ==
  ASSUME NEW S, NEW s \in Seq(S), NEW t \in Nat, t <= Len(s)
  PROVE  /\ SubSeq(s, 1, t) \in Seq(S) /\ Len(SubSeq(s, 1, t)) = t
         /\ \A i \in 1 .. t : SubSeq(s, 1, t)[i] = s[i]
         /\ t = Len(s) => SubSeq(s, 1, t) = s
         /\ IsPrefix(SubSeq(s, 1, t), s)
<1> DEFINE x == SubSeq(s, 1, t)
<1>1. x \in Seq(S) /\ Len(x) = t /\ \A i \in 1 .. t : x[i] = s[i]
  OBVIOUS
<1> HIDE DEF x
<1>2. t = Len(s) => x = s
  BY <1>1, SameSeq
<1>3. IsPrefix(x, s) <=> Len(x) <= Len(s) /\ \A i \in 1 .. Len(x) : x[i] = s[i]
  BY <1>1, PrefixMeans
<1> QED
  BY <1>1, <1>2, <1>3 DEF x

LEMMA BeginningMore ==
  ASSUME NEW S, NEW s \in Seq(S), NEW x \in Seq(S), NEW t \in Nat, t + Len(x) <= Len(s),
         \A i \in 1 .. Len(x) : x[i] = s[t + i]
  PROVE  SubSeq(s, 1, t) \o x = SubSeq(s, 1, t + Len(x))
<1> DEFINE a == SubSeq(s, 1, t)
           b == SubSeq(s, 1, t + Len(x))
           c == a \o x
<1>1. Len(x) \in Nat /\ Len(s) \in Nat /\ t <= Len(s) /\ t + Len(x) \in Nat
  OBVIOUS
<1>2. a \in Seq(S) /\ Len(a) = t /\ \A i \in 1 .. t : a[i] = s[i]
  BY <1>1, BeginningFacts
<1>3. b \in Seq(S) /\ Len(b) = t + Len(x) /\ \A i \in 1 .. t + Len(x) : b[i] = s[i]
  BY <1>1, BeginningFacts
<1> HIDE DEF a, b
<1>4. /\ c \in Seq(S) /\ Len(c) = t + Len(x)
      /\ \A i \in 1 .. t : c[i] = a[i]
      /\ \A i \in 1 .. t + Len(x) : i \notin 1 .. t => i - t \in 1 .. Len(x) /\ c[i] = x[i - t]
  <2>1. /\ c \in Seq(S) /\ Len(c) = Len(a) + Len(x)
        /\ \A i \in 1 .. Len(a) : c[i] = a[i]
        /\ \A i \in 1 .. Len(a) + Len(x) :
             i \notin 1 .. Len(a) => i - Len(a) \in 1 .. Len(x) /\ c[i] = x[i - Len(a)]
    <3>1. a \in Seq(S)
      BY <1>2
    <3> QED
      BY ONLY x \in Seq(S), <3>1, JoinFacts
  <2> HIDE DEF c
  <2> QED
    BY <1>2, <2>1
<1> HIDE DEF c
<1>5. ASSUME NEW i \in 1 .. t + Len(x) PROVE c[i] = b[i]
  <2>1. CASE i \in 1 .. t
    BY <1>1, <1>2, <1>3, <1>4, <2>1
  <2>2. CASE i \notin 1 .. t
    <3>1. PICK j \in 1 .. Len(x) : j = i - t
      BY <1>4, <2>2
    <3>2. c[i] = x[j] /\ i = t + j
      BY <1>1, <1>4, <2>2, <3>1
    <3>3. b[i] = s[t + j]
      BY <1>3, <3>2
    <3> QED
      BY <3>2, <3>3
  <2> QED
    BY <2>1, <2>2
<1>6. c = b
  BY <1>3, <1>4, <1>5, SameSeq
<1> QED
  BY <1>6 DEF a, b, c

LEMMA ExcerptFacts ==
  ASSUME TypeOK, NEW i \in 1 .. Len(files)
  PROVE  /\ files[i] \in File /\ i \in Nat
         /\ Excerpt(i) \in Seq(SoundSample)
         /\ Len(Excerpt(i)) = SamplesOf(files[i])
         /\ \A k \in 1 .. SamplesOf(files[i]) :
              Excerpt(i)[k] = <<i, (files[i].start + k - 1) * files[i].ratio>>
<1>1. files[i] \in File /\ i \in Nat
  BY DEF TypeOK
<1>2. PICK n \in Nat : n = SamplesOf(files[i])
  BY <1>1, FileTyped
<1>3. PICK r \in Nat : r = files[i].ratio
  BY <1>1, FileTyped
<1>4. PICK s \in Nat : s = files[i].start
  BY <1>1, FileTyped
<1>5. Excerpt(i) = [k \in 1 .. n |-> <<i, (s + k - 1) * r>>]
  BY <1>2, <1>3, <1>4 DEF Excerpt
<1>6. \A k \in 1 .. n : <<i, (s + k - 1) * r>> \in SoundSample
  <2>1. \A k \in 1 .. n : s + k - 1 \in Nat
    OBVIOUS
  <2>2. \A k \in 1 .. n : (s + k - 1) * r \in Nat
    BY <2>1
  <2> QED
    BY <1>1, <2>2 DEF SoundSample
<1> DEFINE g(k) == <<i, (s + k - 1) * r>>
<1>7. \A k \in 1 .. n : g(k) \in SoundSample
  BY <1>6
<1>8. Excerpt(i) = [k \in 1 .. n |-> g(k)]
  BY <1>5
<1> HIDE DEF g
<1>9. /\ Excerpt(i) \in Seq(SoundSample) /\ Len(Excerpt(i)) = n
      /\ \A k \in 1 .. n : Excerpt(i)[k] = g(k)
  BY <1>7, <1>8
<1> QED
  BY <1>1, <1>2, <1>3, <1>4, <1>9 DEF g

\* All loops of a file.
Part(i) == Again(Excerpt(i), files[i].loops)

\* The first j files.
Upto(j) == FlattenSeq([i \in 1 .. j |-> Part(i)])

LEMMA AgainTyped ==
  ASSUME NEW S, NEW s \in Seq(S), NEW loops \in (Nat \ {0}) \cup {Forever}
  PROVE  Again(s, loops) \in Seq(S)
<1>1. SamplesWanted * MaxReads + 1 \in Nat
  BY SoupIsTyped DEF SoupConstants
<1>2. PICK n \in Nat : n = IF loops = Forever THEN SamplesWanted * MaxReads + 1 ELSE loops
  BY <1>1
<1>3. Times(s, n) \in Seq(S)
  BY TimesFacts
<1> QED
  BY <1>2, <1>3 DEF Again

LEMMA PartTyped ==
  ASSUME TypeOK, NEW i \in 1 .. Len(files)
  PROVE  Part(i) \in Seq(SoundSample)
<1>1. Excerpt(i) \in Seq(SoundSample) /\ files[i].loops \in (Nat \ {0}) \cup {Forever}
  BY ExcerptFacts, FileTyped
<1> QED
  BY <1>1, AgainTyped DEF Part

LEMMA UptoFacts ==
  ASSUME TypeOK
  PROVE  /\ Upto(0) = <<>>
         /\ \A j \in 0 .. Len(files) : Upto(j) \in Seq(SoundSample)
         /\ \A j \in 1 .. Len(files) : Upto(j) = Upto(j - 1) \o Part(j)
         /\ Expected = Again(Upto(Len(files)), overall)
<1>1. Len(files) \in Nat
  BY DEF TypeOK
<1>2. ASSUME NEW j \in 0 .. Len(files)
      PROVE  [i \in 1 .. j |-> Part(i)] \in Seq(Seq(SoundSample))
  <2>1. \A i \in 1 .. j : Part(i) \in Seq(SoundSample)
    BY <1>1, PartTyped
  <2> QED
    BY <1>1, <2>1
<1>3. Upto(0) = <<>>
  <2>1. [i \in 1 .. 0 |-> Part(i)] = <<>>
    OBVIOUS
  <2> QED
    BY <2>1, FlattenEmpty DEF Upto
<1>4. \A j \in 0 .. Len(files) : Upto(j) \in Seq(SoundSample)
  BY <1>2, FlattenTyped DEF Upto
<1>5. ASSUME NEW j \in 1 .. Len(files) PROVE Upto(j) = Upto(j - 1) \o Part(j)
  <2> DEFINE q == [i \in 1 .. j - 1 |-> Part(i)]
             r == [i \in 1 .. j |-> Part(i)]
             x == Part(j)
             a == Append(q, x)
  <2>1. j - 1 \in 0 .. Len(files) /\ j \in 0 .. Len(files) /\ j \in Nat
    BY <1>1
  <2>2. q \in Seq(Seq(SoundSample)) /\ r \in Seq(Seq(SoundSample)) /\ x \in Seq(SoundSample)
    BY <1>2, <2>1, PartTyped
  <2>3. Len(q) = j - 1 /\ Len(r) = j /\ (\A i \in 1 .. j - 1 : q[i] = r[i]) /\ r[j] = x
    BY <2>1
  <2> HIDE DEF q, r, x
  <2>4. /\ a \in Seq(Seq(SoundSample)) /\ Len(a) = j
        /\ \A i \in 1 .. j - 1 : a[i] = q[i]
        /\ a[j] = x
    BY <2>1, <2>2, <2>3
  <2>5. \A i \in 1 .. j : a[i] = r[i]
    BY <2>1, <2>3, <2>4
  <2> HIDE DEF a
  <2>6. a = r
    BY <2>2, <2>3, <2>4, <2>5, SameSeq
  <2>7. FlattenSeq(a) = FlattenSeq(q) \o x
    BY <2>2, FlattenAppend DEF a
  <2> QED
    BY <2>6, <2>7 DEF Upto, q, r, x
<1>6. Expected = Again(Upto(Len(files)), overall)
  BY DEF Expected, Upto, Part
<1> QED
  BY <1>3, <1>4, <1>5, <1>6

LEMMA UptoBegins ==
  ASSUME TypeOK, NEW i \in 0 .. Len(files)
  PROVE  IsPrefix(Upto(i), Upto(Len(files)))
<1> DEFINE N == Len(files)
<1>1. N \in Nat
  BY DEF TypeOK
<1> HIDE DEF N
<1> DEFINE T == {d \in Nat : i + d <= N => IsPrefix(Upto(i), Upto(i + d))}
<1>2. 0 \in T
  <2>1. Upto(i) \in Seq(SoundSample) /\ i + 0 = i
    BY <1>1, UptoFacts DEF N
  <2>2. IsPrefix(Upto(i), Upto(i)) <=>
          Len(Upto(i)) <= Len(Upto(i)) /\ \A k \in 1 .. Len(Upto(i)) : Upto(i)[k] = Upto(i)[k]
    BY <2>1, PrefixMeans
  <2>3. Len(Upto(i)) <= Len(Upto(i))
    BY <2>1
  <2>4. IsPrefix(Upto(i), Upto(i))
    BY <2>2, <2>3
  <2> QED
    BY <2>1, <2>4
<1>3. ASSUME NEW d \in Nat, d \in T PROVE d + 1 \in T
  <2>1. SUFFICES ASSUME i + (d + 1) <= N PROVE IsPrefix(Upto(i), Upto(i + (d + 1)))
    BY <1>1
  <2>2. PICK j \in 1 .. N : j = i + (d + 1)
    BY <1>1, <2>1 DEF N
  <2>3. j - 1 = i + d /\ i + d <= N /\ j - 1 \in 0 .. N
    BY <1>1, <2>2 DEF N
  <2>4. IsPrefix(Upto(i), Upto(j - 1))
    BY <1>3, <2>3
  <2>5. /\ Upto(i) \in Seq(SoundSample) /\ Upto(j - 1) \in Seq(SoundSample) /\ Upto(j) \in Seq(SoundSample)
        /\ Part(j) \in Seq(SoundSample)
        /\ Upto(j) = Upto(j - 1) \o Part(j)
    BY <1>1, <2>2, <2>3, UptoFacts, PartTyped DEF N
  <2>6. IsPrefix(Upto(j - 1), Upto(j))
    BY <2>5, PrefixOfJoin
  <2>7. IsPrefix(Upto(i), Upto(j))
    BY <2>4, <2>5, <2>6, PrefixOfPrefix
  <2> QED
    BY <2>2, <2>7
<1>4. Nat \subseteq T
  <2> HIDE DEF T
  <2> QED
    BY <1>2, <1>3, Induction
<1>5. PICK d \in Nat : d = N - i
  BY <1>1 DEF N
<1>6. d \in T
  BY <1>4, <1>5
<1>7. i + d = N
  BY <1>1, <1>5 DEF N
<1> QED
  BY <1>1, <1>6, <1>7 DEF N

\* Another at the end of four.
AtTheEnd(a, b, c, d, x) ==
  (a \o (b \o (c \o d))) \o x = a \o (b \o (c \o (d \o x)))

LEMMA JoinFour ==
  ASSUME NEW S, NEW a \in Seq(S), NEW b \in Seq(S), NEW c \in Seq(S), NEW d \in Seq(S),
         NEW x \in Seq(S)
  PROVE  AtTheEnd(a, b, c, d, x)
<1>1. c \o d \in Seq(S)
  BY ONLY c \in Seq(S), d \in Seq(S)
<1>2. PICK p \in Seq(S) : p = c \o d
  BY ONLY <1>1
<1>3. b \o p \in Seq(S)
  BY ONLY b \in Seq(S), p \in Seq(S)
<1>4. PICK q \in Seq(S) : q = b \o p
  BY ONLY <1>3
<1>5. Associative(c, d, x)
  BY JoinAssociates
<1>6. Associative(b, p, x)
  BY JoinAssociates
<1>7. Associative(a, q, x)
  BY JoinAssociates
<1> QED
  BY <1>2, <1>4, <1>5, <1>6, <1>7, Zenon DEF Associative, AtTheEnd

-----------------------------------------------------------------------------
(* What has been heard. *)

\* After m rounds, in file j, after k loops of it, t samples.
Sounds(m, j, k, t) ==
  Times(Upto(Len(files)), m)
    \o (Upto(j - 1) \o (Times(Excerpt(j), k) \o SubSeq(Excerpt(j), 1, t)))

LEMMA SoundsParts ==
  ASSUME TypeOK, NEW m \in Nat, NEW j \in 1 .. Len(files), NEW k \in Nat,
         NEW t \in Nat, t <= SamplesOf(files[j])
  PROVE  /\ Times(Upto(Len(files)), m) \in Seq(SoundSample)
         /\ Upto(j - 1) \in Seq(SoundSample) /\ Upto(j) \in Seq(SoundSample)
         /\ Upto(Len(files)) \in Seq(SoundSample)
         /\ Excerpt(j) \in Seq(SoundSample) /\ Times(Excerpt(j), k) \in Seq(SoundSample)
         /\ SubSeq(Excerpt(j), 1, t) \in Seq(SoundSample)
         /\ Times(Excerpt(j), k) \o SubSeq(Excerpt(j), 1, t) \in Seq(SoundSample)
         /\ Upto(j - 1) \o (Times(Excerpt(j), k) \o SubSeq(Excerpt(j), 1, t)) \in Seq(SoundSample)
         /\ Sounds(m, j, k, t) \in Seq(SoundSample)
<1>1. Len(files) \in Nat /\ Len(files) \in 0 .. Len(files) /\ j - 1 \in 0 .. Len(files) /\ j \in 0 .. Len(files)
  <2>1. Len(files) \in Nat
    BY DEF TypeOK
  <2> QED
    BY <2>1
<1>2. Upto(Len(files)) \in Seq(SoundSample) /\ Upto(j - 1) \in Seq(SoundSample) /\ Upto(j) \in Seq(SoundSample)
  BY <1>1, UptoFacts
<1>3. Excerpt(j) \in Seq(SoundSample) /\ t <= Len(Excerpt(j))
  BY ExcerptFacts
<1> DEFINE A == Times(Upto(Len(files)), m)
           B == Upto(j - 1)
           C == Times(Excerpt(j), k)
           D == SubSeq(Excerpt(j), 1, t)
<1>4. A \in Seq(SoundSample) /\ C \in Seq(SoundSample)
  BY <1>2, <1>3, TimesFacts
<1>5. D \in Seq(SoundSample)
  BY <1>3, BeginningFacts
<1>6. B \in Seq(SoundSample)
  BY <1>2
<1> HIDE DEF A, B, C, D
<1>7. C \o D \in Seq(SoundSample)
  BY <1>4, <1>5
<1>8. B \o (C \o D) \in Seq(SoundSample)
  BY <1>6, <1>7
<1>9. A \o (B \o (C \o D)) \in Seq(SoundSample)
  BY <1>4, <1>8
<1> QED
  BY <1>2, <1>3, <1>4, <1>5, <1>7, <1>8, <1>9 DEF Sounds, A, B, C, D

\* At the beginning.
LEMMA SoundsFirst ==
  ASSUME TypeOK, Len(files) >= 1
  PROVE  Sounds(0, 1, 0, 0) = <<>>
<1>1. Len(files) \in Nat /\ 1 \in 1 .. Len(files) /\ Len(files) \in 0 .. Len(files)
  <2>1. Len(files) \in Nat
    BY DEF TypeOK
  <2> QED
    BY <2>1
<1>2. Upto(Len(files)) \in Seq(SoundSample) /\ Upto(1 - 1) = <<>>
  BY <1>1, UptoFacts
<1>3. Excerpt(1) \in Seq(SoundSample)
  BY <1>1, ExcerptFacts
<1>4. Times(Upto(Len(files)), 0) = <<>> /\ Times(Excerpt(1), 0) = <<>>
  BY <1>2, <1>3, NoTimes
<1>5. SubSeq(Excerpt(1), 1, 0) = <<>>
  OBVIOUS
<1>6. <<>> \o <<>> = <<>>
  OBVIOUS
<1> QED
  BY <1>2, <1>4, <1>5, <1>6 DEF Sounds

\* More of the same file.
Continue(m, j, k, t, x) == Sounds(m, j, k, t) \o x = Sounds(m, j, k, t + Len(x))

LEMMA SoundsMore ==
  ASSUME TypeOK, NEW m \in Nat, NEW j \in 1 .. Len(files), NEW k \in Nat,
         NEW t \in Nat, NEW x \in Seq(SoundSample), t + Len(x) <= SamplesOf(files[j]),
         \A i \in 1 .. Len(x) : x[i] = Excerpt(j)[t + i]
  PROVE  Continue(m, j, k, t, x)
<1>1. Len(x) \in Nat /\ t <= SamplesOf(files[j]) /\ t + Len(x) \in Nat
  <2>1. SamplesOf(files[j]) \in Nat
    BY ExcerptFacts, FileTyped
  <2> QED
    BY <2>1
<1> DEFINE A == Times(Upto(Len(files)), m)
           B == Upto(j - 1)
           C == Times(Excerpt(j), k)
           D == SubSeq(Excerpt(j), 1, t)
<1>2. A \in Seq(SoundSample) /\ B \in Seq(SoundSample) /\ C \in Seq(SoundSample) /\ D \in Seq(SoundSample)
  BY <1>1, SoundsParts
<1>3. D \o x = SubSeq(Excerpt(j), 1, t + Len(x))
  <2>1. Excerpt(j) \in Seq(SoundSample) /\ t + Len(x) <= Len(Excerpt(j))
    BY ExcerptFacts
  <2> QED
    BY <2>1, BeginningMore
<1> HIDE DEF A, B, C, D
<1>4. AtTheEnd(A, B, C, D, x)
  BY <1>2, JoinFour
<1> QED
  BY <1>3, <1>4, Zenon DEF Continue, Sounds, A, B, C, D, AtTheEnd

\* All of it, once more.
LEMMA SoundsLoop ==
  ASSUME TypeOK, NEW m \in Nat, NEW j \in 1 .. Len(files), NEW k \in Nat
  PROVE  Sounds(m, j, k, SamplesOf(files[j])) = Sounds(m, j, k + 1, 0)
<1> DEFINE e == Excerpt(j)
           n == SamplesOf(files[j])
<1>1. e \in Seq(SoundSample) /\ Len(e) = n /\ n \in Nat
  BY ExcerptFacts
<1> HIDE DEF e, n
<1>2. SubSeq(e, 1, n) = e
  BY <1>1, BeginningFacts
<1>3. SubSeq(e, 1, 0) = <<>>
  BY <1>1
<1>4. Times(e, k + 1) = Times(e, k) \o e
  BY <1>1, TimesMore
<1>5. k + 1 \in Nat
  OBVIOUS
<1>6. Times(e, k + 1) \in Seq(SoundSample)
  BY <1>1, <1>5, TimesFacts
<1>7. Times(e, k + 1) \o <<>> = Times(e, k + 1)
  <2> DEFINE y == Times(e, k + 1)
  <2>1. y \in Seq(SoundSample)
    BY <1>6
  <2> HIDE DEF y
  <2>2. y \o <<>> = y
    BY <2>1
  <2> QED
    BY <2>2 DEF y
<1>8. Times(e, k) \o SubSeq(e, 1, n) = Times(e, k + 1) \o SubSeq(e, 1, 0)
  BY <1>2, <1>3, <1>4, <1>7
<1> QED
  BY <1>8 DEF Sounds, e, n

\* All its loops, and the next file.
LEMMA SoundsNext ==
  ASSUME TypeOK, NEW m \in Nat, NEW j \in 1 .. Len(files),
         NEW k \in Nat, files[j].loops = k, files[j].loops # Forever
  PROVE  /\ Sounds(m, j, k, 0) = Times(Upto(Len(files)), m) \o Upto(j)
         /\ j + 1 \in 1 .. Len(files) => Sounds(m, j, k, 0) = Sounds(m, j + 1, 0, 0)
<1>0. 0 \in Nat /\ 0 <= SamplesOf(files[j])
  <2>1. files[j] \in File
    BY ExcerptFacts
  <2>2. SamplesOf(files[j]) \in Nat
    BY <2>1, FileTyped
  <2> QED
    BY <2>2
<1> DEFINE A == Times(Upto(Len(files)), m)
           B == Upto(j - 1)
           C == Times(Excerpt(j), k)
<1>1. A \in Seq(SoundSample) /\ B \in Seq(SoundSample) /\ C \in Seq(SoundSample) /\ Upto(j) \in Seq(SoundSample)
  BY <1>0, SoundsParts
<1>2. Upto(j) = B \o C
  BY UptoFacts DEF Part, Again
<1>3. SubSeq(Excerpt(j), 1, 0) = <<>>
  OBVIOUS
<1>4. Sounds(m, j, k, 0) = A \o Upto(j)
  <2> HIDE DEF A, B, C
  <2>1. C \o <<>> = C
    BY <1>1
  <2> QED
    BY <1>2, <1>3, <2>1 DEF Sounds, A, B, C
<1>5. ASSUME j + 1 \in 1 .. Len(files) PROVE Sounds(m, j + 1, 0, 0) = A \o Upto(j)
  <2>1. Excerpt(j + 1) \in Seq(SoundSample)
    BY <1>5, ExcerptFacts
  <2>2. Times(Excerpt(j + 1), 0) = <<>>
    BY <2>1, NoTimes
  <2>3. SubSeq(Excerpt(j + 1), 1, 0) = <<>>
    OBVIOUS
  <2>4. (j + 1) - 1 = j
    OBVIOUS
  <2>5. <<>> \o <<>> = <<>>
    OBVIOUS
  <2> DEFINE Y == Upto(j)
  <2> HIDE DEF A, Y
  <2>6. Y \o <<>> = Y
    BY <1>1 DEF Y
  <2> QED
    BY <2>2, <2>3, <2>4, <2>5, <2>6 DEF Sounds, A, Y
<1> QED
  BY <1>4, <1>5

\* All files, once more.
LEMMA SoundsRound ==
  ASSUME TypeOK, NEW m \in Nat, Len(files) >= 1
  PROVE  /\ Times(Upto(Len(files)), m) \o Upto(Len(files)) = Times(Upto(Len(files)), m + 1)
         /\ Sounds(m + 1, 1, 0, 0) = Times(Upto(Len(files)), m + 1)
<1>1. Len(files) \in Nat /\ 1 \in 1 .. Len(files) /\ Len(files) \in 0 .. Len(files) /\ m + 1 \in Nat
  <2>1. Len(files) \in Nat
    BY DEF TypeOK
  <2> QED
    BY <2>1
<1> DEFINE U == Upto(Len(files))
<1>2. U \in Seq(SoundSample) /\ Upto(1 - 1) = <<>>
  BY <1>1, UptoFacts
<1>3. Excerpt(1) \in Seq(SoundSample)
  BY <1>1, ExcerptFacts
<1>4. Times(Excerpt(1), 0) = <<>>
  BY <1>3, NoTimes
<1>5. SubSeq(Excerpt(1), 1, 0) = <<>>
  OBVIOUS
<1>6. <<>> \o <<>> = <<>>
  OBVIOUS
<1> HIDE DEF U
<1>7. Times(U, m + 1) = Times(U, m) \o U /\ Times(U, m + 1) \in Seq(SoundSample)
  BY <1>1, <1>2, TimesMore, TimesFacts
<1> DEFINE Y == Times(U, m + 1)
<1>8. Y \in Seq(SoundSample)
  BY <1>7
<1> HIDE DEF Y
<1>9. Y \o <<>> = Y
  BY <1>8
<1> QED
  BY <1>2, <1>4, <1>5, <1>6, <1>7, <1>9 DEF Sounds, U, Y

\* Nothing of it is out of order.
LEMMA SoundsBegin ==
  ASSUME TypeOK, NEW m \in Nat, NEW j \in 1 .. Len(files), NEW k \in Nat, NEW t \in Nat,
         t <= SamplesOf(files[j]),
         overall # Forever => m < overall,
         files[j].loops # Forever => k < files[j].loops,
         Len(Sounds(m, j, k, t)) <= SamplesWanted * MaxReads
  PROVE  IsPrefix(Sounds(m, j, k, t), Expected)
<1> DEFINE E == Excerpt(j)
           U == Upto(Len(files))
           A == Times(U, m)
           B == Upto(j - 1)
           C == Times(E, k)
           D == SubSeq(E, 1, t)
           P == Part(j)
           V == Upto(j)
           all == SamplesWanted * MaxReads
<1>0. all \in Nat
  BY SoupIsTyped DEF SoupConstants
<1>1. /\ A \in Seq(SoundSample) /\ B \in Seq(SoundSample) /\ C \in Seq(SoundSample) /\ D \in Seq(SoundSample)
      /\ E \in Seq(SoundSample) /\ U \in Seq(SoundSample) /\ V \in Seq(SoundSample)
  BY SoundsParts
<1>2. P \in Seq(SoundSample) /\ V = B \o P
  BY PartTyped, UptoFacts
<1>3. IsPrefix(D, E)
  BY ExcerptFacts, BeginningFacts
<1>4. Times(E, k + 1) = C \o E /\ Times(E, k + 1) \in Seq(SoundSample)
  <2>1. k + 1 \in Nat
    OBVIOUS
  <2> HIDE DEF E
  <2> QED
    BY <1>1, <2>1, TimesMore, TimesFacts
<1>5. Times(U, m + 1) = A \o U /\ Times(U, m + 1) \in Seq(SoundSample)
  <2>1. m + 1 \in Nat
    OBVIOUS
  <2> HIDE DEF U
  <2> QED
    BY <1>1, <2>1, TimesMore, TimesFacts
<1>6. IsPrefix(V, U)
  <2>1. Len(files) \in Nat
    BY DEF TypeOK
  <2>2. j \in 0 .. Len(files)
    BY <2>1
  <2> QED
    BY <2>2, UptoBegins
<1>7. files[j].loops \in (Nat \ {0}) \cup {Forever} /\ overall \in (Nat \ {0}) \cup {Forever}
  <2>1. files[j] \in File
    BY ExcerptFacts
  <2>2. overall \in (Nat \ {0}) \cup {Forever}
    BY SoupAssumption DEF TypeOK
  <2> QED
    BY <2>1, <2>2, FileTyped
<1>8. Sounds(m, j, k, t) = A \o (B \o (C \o D))
  BY DEF Sounds
<1>9. Expected = Again(U, overall) /\ P = Again(E, files[j].loops)
  BY UptoFacts DEF Part
<1> DEFINE R == Times(E, k + 1)
           T == Times(U, m + 1)
           G == Again(U, overall)
<1>10. G \in Seq(SoundSample)
  <2> HIDE DEF U
  <2> QED
    BY <1>1, <1>7, AgainTyped
<1> HIDE DEF A, B, C, D, P, V
<1>11. C \o D \in Seq(SoundSample)
  BY ONLY <1>1, JoinFacts
<1>12. PICK x \in Seq(SoundSample) : x = C \o D
  BY ONLY <1>11
<1>13. B \o x \in Seq(SoundSample)
  BY ONLY <1>1, x \in Seq(SoundSample), JoinFacts
<1>14. PICK y \in Seq(SoundSample) : y = B \o x
  BY ONLY <1>13
<1>15. A \o y \in Seq(SoundSample)
  BY ONLY <1>1, y \in Seq(SoundSample), JoinFacts
<1>16. PICK z \in Seq(SoundSample) : z = A \o y
  BY ONLY <1>15
<1>17. Len(x) <= all /\ Len(z) <= all
  <2>1. Len(z) = Len(A) + Len(y) /\ Len(A) \in Nat /\ Len(y) \in Nat
    BY ONLY <1>1, <1>16, y \in Seq(SoundSample), JoinFacts
  <2>2. Len(y) = Len(B) + Len(x) /\ Len(B) \in Nat /\ Len(x) \in Nat
    BY ONLY <1>1, <1>14, x \in Seq(SoundSample), JoinFacts
  <2>3. Len(z) <= all
    BY <1>8, <1>12, <1>14, <1>16
  <2> QED
    BY <1>0, <2>1, <2>2, <2>3
<1> HIDE DEF E, U
<1>18. IsPrefix(x, R)
  <2>1. IsPrefix(C \o D, C \o E)
    BY <1>1, <1>3, PrefixAfter
  <2> QED
    BY <1>4, <1>12, <2>1
<1>19. IsPrefix(x, P)
  BY <1>1, <1>7, <1>9, <1>17, <1>18, AgainBegins
<1>20. IsPrefix(y, V)
  <2>1. IsPrefix(B \o x, B \o P)
    BY <1>1, <1>2, <1>19, PrefixAfter
  <2> QED
    BY <1>2, <1>14, <2>1
<1>21. IsPrefix(y, U)
  BY <1>1, <1>6, <1>20, PrefixOfPrefix
<1>22. IsPrefix(z, T)
  <2>1. IsPrefix(A \o y, A \o U)
    BY <1>1, <1>21, PrefixAfter
  <2> QED
    BY <1>5, <1>16, <2>1
<1>23. IsPrefix(z, G)
  BY <1>1, <1>7, <1>17, <1>22, AgainBegins
<1> QED
  BY <1>8, <1>9, <1>12, <1>14, <1>16, <1>23

\* At the end.
LEMMA SoundsEnd ==
  ASSUME TypeOK, Len(files) >= 1, overall # Forever, NEW m \in Nat, overall = m
  PROVE  Times(Upto(Len(files)), m) = Expected
  BY UptoFacts DEF Again

-----------------------------------------------------------------------------
(* The player. *)

\* Where it is: in the round m, in the k-th loop of its file, t samples read.
SoundAt(m, k, t) ==
  /\ overall # Forever => m = overallLoop /\ m < overall
  /\ Current.loops # Forever => k = fileLoop /\ k < Current.loops
  /\ IF reader = Nothing THEN t = 0 ELSE InFile(Current, reader, remaining, t)
  /\ Heard = Sounds(m, index, k, t)

OnItsWay ==
  /\ TypeOK
  /\ Len(files) >= 1
  /\ ~finished => index <= Len(files)
  /\ short => finished
  /\ Len(returned) + (IF frame = Nothing THEN 0 ELSE SamplesWanted) <= SamplesWanted * reads

SoupInv ==
  /\ OnItsWay
  /\ faults = 0 /\ finished => Heard = Expected
  /\ faults = 0 /\ ~finished => \E m, k, t \in Nat : SoundAt(m, k, t)

LEMMA SoundsStay ==
  ASSUME UNCHANGED soup
  PROVE  /\ \A m, j, k, t \in Nat : Sounds(m, j, k, t)' = Sounds(m, j, k, t)
         /\ Expected' = Expected
<1>1. files' = files /\ overall' = overall
  BY DEF soup
<1>2. \A i : Excerpt(i)' = Excerpt(i)
  BY <1>1 DEF Excerpt
<1>3. \A i : Part(i)' = Part(i)
  BY <1>1, <1>2 DEF Part, Again, Times
<1>4. \A j : Upto(j)' = Upto(j)
  BY <1>1, <1>3 DEF Upto
<1>5. \A m, j, k, t \in Nat : Sounds(m, j, k, t)' = Sounds(m, j, k, t)
  BY <1>1, <1>2, <1>4 DEF Sounds, Times
<1>6. Expected' = Expected
  BY <1>1 DEF Expected, Excerpt, Again, Times
<1> QED
  BY <1>5, <1>6

LEMMA HeardFacts ==
  ASSUME TypeOK
  PROVE  /\ Heard \in Seq(SoundSample)
         /\ frame = Nothing => Len(Heard) = Len(returned)
         /\ frame # Nothing => Len(Heard) = Len(returned) + Len(frame)
<1>1. CASE frame = Nothing
  BY <1>1 DEF TypeOK, Heard
<1>2. CASE frame # Nothing
  <2>1. frame \in Seq(SoundSample) /\ returned \in Seq(SoundSample)
    BY <1>2 DEF TypeOK
  <2>2. returned \o frame \in Seq(SoundSample) /\ Len(returned \o frame) = Len(returned) + Len(frame)
    BY ONLY <2>1, JoinFacts
  <2> QED
    BY <1>2, <2>2 DEF Heard
<1> QED
  BY <1>1, <1>2

\* Nothing is not a sequence of samples.
LEMMA NothingElse == Nothing \notin Seq(SoundSample) /\ Nothing \notin Nat /\ Nothing # 0
  BY SoupAssumption DEF SoundSample

LEMMA SoupBegins == Init => SoupInv
<1> SUFFICES ASSUME Init PROVE SoupInv
  OBVIOUS
<1>1. PICK n \in 1 .. MaxFiles : files \in [1 .. n -> File]
  BY DEF Init
<1>2. files \in Seq(File) /\ Len(files) = n /\ n \in Nat /\ n >= 1
  BY <1>1, SoupAssumption
<1>3. overall \in (Nat \ {0}) \cup {Forever}
  BY SoupAssumption DEF Init
<1>4. <<>> \in Seq(SoundSample) /\ Len(<<>>) = 0
  OBVIOUS
<1>5. TypeOK
  <2>1. 1 \in 1 .. Len(files) + 1
    BY <1>2
  <2>2. 0 \in 0 .. MaxReads /\ 0 \in 0 .. MaxFaults
    BY SoupIsTyped DEF SoupConstants
  <2> QED
    BY <1>2, <1>4, <2>1, <2>2 DEF Init, TypeOK
<1>6. OnItsWay
  <2>1. SamplesWanted * 0 = 0
    BY SoupAssumption
  <2> QED
    BY <1>2, <1>4, <1>5, <2>1 DEF OnItsWay, Init
<1>7. Heard = Sounds(0, 1, 0, 0)
  BY <1>2, <1>5, SoundsFirst DEF Init, Heard
<1>8. Current.loops \in (Nat \ {0}) \cup {Forever}
  <2>1. files[1] \in File
    BY <1>1
  <2> QED
    BY <2>1, FileTyped DEF Current, Init
<1>9. SoundAt(0, 0, 0)
  BY <1>3, <1>7, <1>8 DEF SoundAt, Init
<1> QED
  BY <1>6, <1>9 DEF SoupInv, Init

-----------------------------------------------------------------------------
(* What a turn of the loop leaves true. *)

\* A file is open or is to be opened.
LEMMA TurnFacts ==
  ASSUME OnItsWay, Turns
  PROVE  /\ index \in 1 .. Len(files) /\ index \in Nat /\ Current \in File /\ Len(files) \in Nat
         /\ frame \in Seq(SoundSample) /\ frame # Nothing
         /\ SamplesWanted - Len(frame) \in Nat \ {0}
         /\ ~finished /\ ~short
<1>1. /\ TypeOK /\ index <= Len(files) /\ ~finished /\ ~short /\ frame # Nothing
      /\ Len(frame) < SamplesWanted
  BY DEF OnItsWay, Turns
<1>2. Len(files) \in Nat /\ index \in 1 .. Len(files) + 1 /\ frame \in Seq(SoundSample) /\ files \in Seq(File)
  BY <1>1 DEF TypeOK
<1>3. index \in 1 .. Len(files)
  BY <1>1, <1>2
<1>4. Current \in File
  BY <1>2, <1>3 DEF Current
<1>5. SamplesWanted \in Nat
  BY SoupIsTyped DEF SoupConstants
<1> QED
  BY <1>1, <1>2, <1>3, <1>4, <1>5

\* What is heard is the same.
LEMMA HeardStays ==
  ASSUME UNCHANGED <<frame, returned>>
  PROVE  Heard' = Heard
  BY DEF Heard

LEMMA Begun ==
  ASSUME SoupInv, ReadBegins
  PROVE  SoupInv'
<1>1. OnItsWay /\ TypeOK /\ frame = Nothing /\ ~finished /\ frame' = <<>> /\ reads' = reads + 1
  BY DEF SoupInv, OnItsWay, ReadBegins
<1>2. UNCHANGED <<files, overall, index, fileLoop, overallLoop, finished, reader, remaining, returned,
                  short, faults>>
  BY DEF ReadBegins, soup, place
<1>3. <<>> \in Seq(SoundSample) /\ Len(<<>>) = 0 /\ <<>> # Nothing
  <2>1. <<>> \in Seq(SoundSample) /\ Len(<<>>) = 0
    OBVIOUS
  <2> QED
    BY <2>1, NothingElse
<1>4. reads' \in 0 .. MaxReads
  BY SoupIsTyped DEF SoupConstants, ReadBegins, OnItsWay, SoupInv, TypeOK
<1>5. TypeOK'
  BY <1>1, <1>2, <1>3, <1>4, SoupIsTyped DEF TypeOK, SoupConstants
<1>6. OnItsWay'
  <2>1. SamplesWanted * (reads + 1) = SamplesWanted * reads + SamplesWanted
    BY SoupIsTyped DEF SoupConstants, OnItsWay, SoupInv, TypeOK
  <2>2. Len(returned) + 0 <= SamplesWanted * reads /\ Len(returned) \in Nat
    BY <1>1 DEF OnItsWay, TypeOK
  <2>3. PICK n \in Nat : n = SamplesWanted * reads
    BY SoupIsTyped DEF SoupConstants, OnItsWay, SoupInv, TypeOK
  <2>4. Len(returned) + SamplesWanted <= SamplesWanted * (reads + 1)
    BY <2>1, <2>2, <2>3, SoupIsTyped DEF SoupConstants
  <2> QED
    BY <1>1, <1>2, <1>3, <1>5, <2>4 DEF OnItsWay
<1>7. Heard' = Heard
  <2>1. returned \o <<>> = returned
    BY <1>1 DEF TypeOK
  <2> QED
    BY <1>1, <1>2, <1>3, <2>1 DEF Heard
<1>8. ASSUME faults = 0 PROVE \E m, k, t \in Nat : SoundAt(m, k, t)'
  <2>1. PICK m \in Nat, k \in Nat, t \in Nat : SoundAt(m, k, t)
    BY <1>1, <1>8 DEF SoupInv
  <2>2. Sounds(m, index, k, t)' = Sounds(m, index, k, t)
    <3>1. PICK j \in Nat : j = index
      BY <1>1 DEF TypeOK
    <3>2. Sounds(m, j, k, t)' = Sounds(m, j, k, t)
      BY <1>2, SoundsStay DEF soup
    <3> QED
      BY <1>2, <3>1, <3>2 DEF Sounds
  <2>3. SoundAt(m, k, t)'
    BY <1>2, <1>7, <2>1, <2>2 DEF SoundAt, Current
  <2> QED
    BY <2>3
<1> QED
  BY <1>1, <1>2, <1>6, <1>8 DEF SoupInv

LEMMA Opened ==
  ASSUME SoupInv, OpenCurrent
  PROVE  SoupInv'
<1>1. /\ OnItsWay /\ TypeOK /\ Turns /\ reader = Nothing
      /\ reader' = SeekTo(Current) /\ remaining' = Window(Current)
      /\ UNCHANGED <<files, overall, index, fileLoop, overallLoop, finished, frame, returned, short,
                     reads, faults>>
  BY DEF SoupInv, OnItsWay, OpenCurrent, soup, place
<1>2. Current \in File /\ index \in Nat /\ ~finished
  BY <1>1, TurnFacts
<1>3. /\ reader' \in Nat /\ remaining' \in Nat \cup {Nothing}
      /\ InFile(Current, reader', remaining', 0)
  BY <1>1, <1>2, Opens
<1>4. TypeOK'
  BY <1>1, <1>3 DEF TypeOK
<1>5. OnItsWay'
  BY <1>1, <1>4 DEF OnItsWay
<1>6. Heard' = Heard
  BY <1>1, HeardStays
<1>7. ASSUME faults = 0 PROVE \E m, k, t \in Nat : SoundAt(m, k, t)'
  <2>1. PICK m \in Nat, k \in Nat, t \in Nat : SoundAt(m, k, t)
    BY <1>2, <1>7 DEF SoupInv
  <2>2. t = 0
    BY <1>1, <2>1 DEF SoundAt
  <2>3. Sounds(m, index, k, t)' = Sounds(m, index, k, t)
    <3>1. PICK j \in Nat : j = index
      BY <1>2
    <3>2. Sounds(m, j, k, t)' = Sounds(m, j, k, t)
      BY <1>1, SoundsStay DEF soup
    <3> QED
      BY <1>1, <3>1, <3>2 DEF Sounds
  <2>4. Current' = Current
    BY <1>1 DEF Current
  <2>5. reader' # Nothing
    BY <1>3, NothingElse
  <2>6. InFile(Current, reader, remaining, t)'
    <3>1. PICK c \in File : c = Current
      BY <1>2
    <3>2. InFile(c, reader', remaining', t)
      BY <1>3, <2>2, <3>1
    <3>3. InFile(c, reader, remaining, t)'
      BY <3>2 DEF InFile
    <3> QED
      BY <2>4, <3>1, <3>3 DEF InFile
  <2>7. SoundAt(m, k, t)'
    BY <1>1, <1>6, <2>1, <2>3, <2>4, <2>5, <2>6 DEF SoundAt
  <2> QED
    BY <2>7
<1> QED
  BY <1>1, <1>2, <1>5, <1>7 DEF SoupInv

LEMMA NotOpened ==
  ASSUME SoupInv, OpenFails
  PROVE  SoupInv'
<1>1. /\ OnItsWay /\ TypeOK /\ finished' = TRUE /\ faults < MaxFaults /\ faults' = faults + 1
      /\ UNCHANGED <<files, overall, index, fileLoop, overallLoop, reader, remaining, frame, returned,
                     short, reads>>
  BY DEF SoupInv, OnItsWay, OpenFails, soup
<1>2. faults' \in 0 .. MaxFaults /\ faults' # 0
  BY <1>1, SoupIsTyped DEF SoupConstants, TypeOK
<1>3. TypeOK'
  BY <1>1, <1>2 DEF TypeOK
<1>4. OnItsWay'
  BY <1>1, <1>3 DEF OnItsWay
<1> QED
  BY <1>2, <1>4 DEF SoupInv

LEMMA Returned ==
  ASSUME SoupInv, ReadReturns
  PROVE  SoupInv'
<1>1. /\ OnItsWay /\ TypeOK /\ frame # Nothing /\ ~Turns /\ returned' = returned \o frame
      /\ short' = (short \/ Len(frame) < SamplesWanted) /\ frame' = Nothing
      /\ UNCHANGED <<files, overall, index, fileLoop, overallLoop, finished, reader, remaining, reads,
                     faults>>
  BY DEF SoupInv, OnItsWay, ReadReturns, soup, place
<1>2. /\ returned' \in Seq(SoundSample) /\ Len(returned') = Len(returned) + Len(frame)
      /\ Len(returned) \in Nat /\ Len(frame) \in Nat /\ Len(frame) <= SamplesWanted
  <2>1. frame \in Seq(SoundSample) /\ returned \in Seq(SoundSample) /\ Len(frame) <= SamplesWanted
    BY <1>1 DEF TypeOK
  <2>2. /\ returned \o frame \in Seq(SoundSample)
        /\ Len(returned \o frame) = Len(returned) + Len(frame)
        /\ Len(returned) \in Nat /\ Len(frame) \in Nat
    BY ONLY <2>1, JoinFacts
  <2> QED
    BY <1>1, <2>1, <2>2
<1>3. TypeOK'
  <2>1. short' \in BOOLEAN
    BY <1>1 DEF TypeOK
  <2> QED
    BY <1>1, <1>2, <2>1 DEF TypeOK
<1>4. OnItsWay'
  <2>1. PICK n \in Nat : n = SamplesWanted * reads
    BY <1>1, SoupIsTyped DEF SoupConstants, TypeOK
  <2>2. SamplesWanted \in Nat
    BY SoupIsTyped DEF SoupConstants
  <2>3. Len(returned) + SamplesWanted <= n
    BY <1>1, <2>1 DEF OnItsWay
  <2>4. Len(returned') + 0 <= n
    BY <1>2, <2>2, <2>3
  <2>5. short' => finished
    BY <1>1 DEF OnItsWay, Turns
  <2> QED
    BY <1>1, <1>3, <2>1, <2>4, <2>5 DEF OnItsWay
<1>5. Heard' = Heard
  BY <1>1 DEF Heard
<1>6. ASSUME faults = 0, ~finished PROVE \E m, k, t \in Nat : SoundAt(m, k, t)'
  <2>1. PICK m \in Nat, k \in Nat, t \in Nat : SoundAt(m, k, t)
    BY <1>6 DEF SoupInv
  <2>2. Sounds(m, index, k, t)' = Sounds(m, index, k, t)
    <3>1. PICK j \in Nat : j = index
      BY <1>1 DEF TypeOK
    <3>2. Sounds(m, j, k, t)' = Sounds(m, j, k, t)
      BY <1>1, SoundsStay DEF soup
    <3> QED
      BY <1>1, <3>1, <3>2 DEF Sounds
  <2>3. SoundAt(m, k, t)'
    BY <1>1, <1>5, <2>1, <2>2 DEF SoundAt, Current
  <2> QED
    BY <2>3
<1>7. Expected' = Expected
  BY <1>1, SoundsStay DEF soup
<1> QED
  BY <1>1, <1>4, <1>5, <1>6, <1>7 DEF SoupInv

LEMMA ReadMore ==
  ASSUME SoupInv, ReadSome
  PROVE  SoupInv'
<1>1. /\ OnItsWay /\ TypeOK /\ Turns /\ reader # Nothing /\ remaining # 0 /\ Got > 0
      /\ frame' = frame \o Decimated /\ reader' = reader + Got
      /\ remaining' = (IF remaining = Nothing THEN Nothing ELSE remaining - Got)
      /\ UNCHANGED <<files, overall, index, fileLoop, overallLoop, finished, returned, short, reads,
                     faults>>
  BY DEF SoupInv, OnItsWay, ReadSome, soup, place
<1>2. /\ index \in 1 .. Len(files) /\ index \in Nat /\ Current \in File /\ Len(files) \in Nat
      /\ frame \in Seq(SoundSample) /\ frame # Nothing
      /\ SamplesWanted - Len(frame) \in Nat \ {0}
      /\ ~finished /\ ~short
  BY <1>1, TurnFacts
<1>3. reader \in Nat /\ remaining \in Nat \cup {Nothing} /\ SamplesWanted \in Nat
  BY <1>1, SoupIsTyped DEF TypeOK, SoupConstants
<1>4. PICK c \in File : c = Current
  BY <1>2
<1>5. PICK w \in Nat \ {0} : w = SamplesWanted - Len(frame)
  BY <1>2
<1>6. /\ c.length \in Nat /\ c.ratio \in Nat \ {0} /\ c.start \in Nat /\ Nothing \notin Int
  BY FileTyped
<1>7. Got = Gets(c, reader, remaining, w)
  BY <1>4, <1>5 DEF Got, Gets, Wanted, Wants
<1>8. PICK g \in Int : g = Got
  <2>1. w * c.ratio \in Int /\ c.length - reader \in Int
    BY <1>3, <1>6
  <2>2. Wants(c, remaining, w) \in Int
    BY <1>3, <2>1 DEF Wants, Smaller
  <2> QED
    BY <1>7, <2>1, <2>2 DEF Gets, Smaller
<1>9. PICK d \in Nat : d = (g + c.ratio - 1) \div c.ratio
  BY <1>1, <1>3, <1>6, <1>7, <1>8, Reads
<1>10. d <= w /\ reader + g \in Nat /\ (remaining # Nothing => remaining - g \in Nat)
  BY <1>1, <1>3, <1>6, <1>7, <1>8, <1>9, Reads
<1>11. /\ Decimated \in Seq(SoundSample) /\ Len(Decimated) = d
       /\ \A i \in 1 .. d : Decimated[i] = <<index, reader + (i - 1) * c.ratio>>
  <2>1. Decimated = [i \in 1 .. d |-> <<index, reader + (i - 1) * c.ratio>>]
    BY <1>4, <1>8, <1>9 DEF Decimated
  <2>2. PICK r \in Nat : r = c.ratio
    BY <1>6
  <2> DEFINE h(i) == <<index, reader + (i - 1) * c.ratio>>
  <2>3. \A i \in 1 .. d : h(i) \in SoundSample
    <3>1. \A i \in 1 .. d : i - 1 \in Nat
      OBVIOUS
    <3>2. \A i \in 1 .. d : (i - 1) * r \in Nat
      BY <3>1
    <3>3. \A i \in 1 .. d : reader + (i - 1) * r \in Nat
      BY <1>3, <3>2
    <3> QED
      BY <1>2, <2>2, <3>3 DEF SoundSample
  <2>4. Decimated = [i \in 1 .. d |-> h(i)]
    BY <2>1
  <2> HIDE DEF h
  <2>5. /\ Decimated \in Seq(SoundSample) /\ Len(Decimated) = d
        /\ \A i \in 1 .. d : Decimated[i] = h(i)
    BY <2>3, <2>4
  <2> QED
    BY <2>5 DEF h
<1>12. PICK x \in Seq(SoundSample) : x = Decimated
  BY <1>11
<1>13. /\ Len(x) = d /\ \A i \in 1 .. d : x[i] = <<index, reader + (i - 1) * c.ratio>>
  BY <1>11, <1>12
<1>14. /\ frame' \in Seq(SoundSample) /\ frame' # Nothing /\ Len(frame') <= SamplesWanted
  <2>1. frame \o x \in Seq(SoundSample) /\ Len(frame \o x) = Len(frame) + Len(x) /\ Len(frame) \in Nat
    BY ONLY <1>2, x \in Seq(SoundSample), JoinFacts
  <2>2. frame' = frame \o x
    BY <1>1, <1>12
  <2>3. frame' # Nothing
    BY <2>1, <2>2, NothingElse
  <2>4. PICK n \in Nat : n = Len(frame)
    BY <2>1
  <2>5. n + d <= SamplesWanted
    BY <1>3, <1>5, <1>10, <2>4
  <2> QED
    BY <1>13, <2>1, <2>2, <2>3, <2>4, <2>5
<1>15. TypeOK'
  <2>1. reader' \in Nat \cup {Nothing} /\ remaining' \in Nat \cup {Nothing}
    BY <1>1, <1>8, <1>10
  <2> QED
    BY <1>1, <1>14, <2>1 DEF TypeOK
<1>16. OnItsWay'
  BY <1>1, <1>2, <1>14, <1>15 DEF OnItsWay
<1>17. Heard' = Heard \o x
  <2>1. returned \in Seq(SoundSample)
    BY <1>1 DEF TypeOK
  <2>2. Associative(returned, frame, x)
    BY <1>2, <2>1, JoinAssociates
  <2>3. Heard = returned \o frame
    BY <1>2 DEF Heard
  <2>4. Heard' = returned \o (frame \o x)
    BY <1>1, <1>12, <1>14 DEF Heard
  <2> QED
    BY <2>2, <2>3, <2>4, Zenon DEF Associative
<1>18. ASSUME faults = 0 PROVE \E m, k, t \in Nat : SoundAt(m, k, t)'
  <2>1. PICK m \in Nat, k \in Nat, t \in Nat : SoundAt(m, k, t)
    BY <1>2, <1>18 DEF SoupInv
  <2>2. InFile(c, reader, remaining, t)
    BY <1>1, <1>4, <2>1 DEF SoundAt
  <2>3. /\ t + d <= SamplesOf(c)
        /\ reader = (c.start + t) * c.ratio
        /\ InFile(c, reader + g, IF remaining = Nothing THEN Nothing ELSE remaining - g, t + d)
    <3>1. g = Gets(c, reader, remaining, w) /\ g > 0 /\ reader \in Nat /\ remaining \in Nat \cup {Nothing}
          /\ remaining # 0
      BY <1>1, <1>3, <1>7, <1>8
    <3>2. PICK p \in Nat, q \in Nat \cup {Nothing} : p = reader /\ q = remaining
      BY <3>1
    <3>3. InFile(c, p, q, t) /\ g = Gets(c, p, q, w) /\ q # 0
      BY <2>2, <3>1, <3>2
    <3>4. Leads(c, p, q, t, g, d)
      BY ONLY c \in File, p \in Nat, q \in Nat \cup {Nothing}, t \in Nat, w \in Nat \ {0}, g \in Int,
              <1>9, <3>1, <3>3, ReadsOn
    <3> QED
      BY <3>2, <3>4 DEF Leads
  <2>4. Sounds(m, index, k, t) \o x = Sounds(m, index, k, t + d)
    <3>1. SamplesOf(c) \in Nat /\ t <= SamplesOf(c)
      BY <2>3, FileTyped
    <3>2. ASSUME NEW i \in 1 .. d PROVE x[i] = Excerpt(index)[t + i]
      <4>1. t + i \in 1 .. SamplesOf(c)
        BY <2>3, <3>1
      <4>2. Excerpt(index)[t + i] = <<index, (c.start + (t + i) - 1) * c.ratio>>
        BY <1>1, <1>2, <1>4, <4>1, ExcerptFacts DEF Current
      <4>3. PICK r \in Nat, s \in Nat : r = c.ratio /\ s = c.start
        BY <1>6
      <4>4. (s + t) * r + (i - 1) * r = (s + (t + i) - 1) * r
        OBVIOUS
      <4> QED
        BY <1>13, <2>3, <4>2, <4>3, <4>4
    <3>3. t + Len(x) <= SamplesOf(files[index])
      BY <1>4, <1>13, <2>3 DEF Current
    <3>4. \A i \in 1 .. Len(x) : x[i] = Excerpt(index)[t + i]
      BY <1>13, <3>2
    <3>5. Continue(m, index, k, t, x)
      BY ONLY m \in Nat, k \in Nat, t \in Nat, x \in Seq(SoundSample),
              <1>1, <1>2, <3>3, <3>4, SoundsMore
    <3> QED
      BY <1>13, <3>5 DEF Continue
  <2>5. Sounds(m, index, k, t + d)' = Sounds(m, index, k, t + d)
    <3>1. PICK j \in Nat, u \in Nat : j = index /\ u = t + d
      BY <1>2
    <3>2. Sounds(m, j, k, u)' = Sounds(m, j, k, u)
      BY <1>1, SoundsStay DEF soup
    <3> QED
      BY <1>1, <3>1, <3>2 DEF Sounds
  <2>6. Current' = Current
    BY <1>1 DEF Current
  <2>7. InFile(Current, reader, remaining, t + d)'
    <3>1. PICK u \in Nat : u = t + d
      OBVIOUS
    <3>2. InFile(c, reader', remaining', u)
      BY <1>1, <1>8, <2>3, <3>1
    <3>3. InFile(c, reader, remaining, u)'
      BY <3>2 DEF InFile
    <3> QED
      BY <1>4, <2>6, <3>1, <3>3 DEF InFile
  <2>8. reader' # Nothing
    BY <1>1, <1>6, <1>8, <1>10
  <2>9. Heard' = Sounds(m, index, k, t + d)
    BY <1>17, <2>1, <2>4 DEF SoundAt
  <2>10. SoundAt(m, k, t + d)'
    BY <1>1, <2>1, <2>5, <2>6, <2>7, <2>8, <2>9 DEF SoundAt
  <2>11. t + d \in Nat
    OBVIOUS
  <2> QED
    BY <2>10, <2>11
<1> QED
  BY <1>1, <1>2, <1>16, <1>18 DEF SoupInv

\* A file left, for whatever reason.
LEMMA Advanced ==
  ASSUME OnItsWay, Turns, Advance, UNCHANGED <<soup, frame, returned, short, reads>>,
         faults' \in 0 .. MaxFaults
  PROVE  OnItsWay'
<1>1. /\ TypeOK /\ ~finished /\ reader' = Nothing /\ remaining' = Nothing
      /\ UNCHANGED <<files, overall, frame, returned, short, reads>>
  BY DEF OnItsWay, Turns, Advance, soup
<1>2. /\ index \in 1 .. Len(files) /\ index \in Nat /\ Len(files) \in Nat /\ ~short
  BY TurnFacts
<1>3. fileLoop \in Nat /\ overallLoop \in Nat /\ finished \in BOOLEAN
  BY <1>1 DEF TypeOK
<1>4. /\ fileLoop' \in Nat /\ overallLoop' \in Nat /\ finished' \in BOOLEAN
      /\ index' \in 1 .. Len(files) + 1 /\ (~finished' => index' <= Len(files))
  <2>1. CASE /\ fileLoop' = Counted(fileLoop, Current.loops)
             /\ UNCHANGED <<index, overallLoop, finished>>
    BY <1>1, <1>2, <1>3, <2>1 DEF Counted
  <2>2. CASE /\ fileLoop' = 0 /\ index < Len(files) /\ index' = index + 1
             /\ UNCHANGED <<overallLoop, finished>>
    BY <1>1, <1>2, <1>3, <2>2
  <2>3. CASE /\ fileLoop' = 0 /\ index = Len(files)
             /\ overallLoop' = Counted(overallLoop, overall)
             /\ finished' = Enough(overallLoop, overall)
             /\ index' = IF finished' THEN index + 1 ELSE 1
    <3>1. overallLoop' \in Nat
      BY <1>3, <2>3 DEF Counted
    <3>2. finished' \in BOOLEAN
      BY <2>3 DEF Enough
    <3>3. index' \in 1 .. Len(files) + 1 /\ (~finished' => index' <= Len(files))
      BY <1>2, <2>3, <3>2
    <3> QED
      BY <2>3, <3>1, <3>2, <3>3
  <2> QED
    BY <2>1, <2>2, <2>3 DEF Advance
<1>5. TypeOK'
  BY <1>1, <1>4 DEF TypeOK
<1> QED
  BY <1>1, <1>2, <1>4, <1>5 DEF OnItsWay

LEMMA NotRead ==
  ASSUME SoupInv, ReadFails
  PROVE  SoupInv'
<1>1. OnItsWay /\ TypeOK /\ faults < MaxFaults /\ faults' = faults + 1
  BY DEF SoupInv, OnItsWay, ReadFails
<1>2. faults' \in 0 .. MaxFaults /\ faults' # 0
  BY <1>1, SoupIsTyped DEF SoupConstants, TypeOK
<1>3. OnItsWay'
  BY <1>1, <1>2, Advanced DEF ReadFails
<1> QED
  BY <1>2, <1>3 DEF SoupInv

LEMMA Left ==
  ASSUME SoupInv, LeaveFile
  PROVE  SoupInv'
<1>1. /\ OnItsWay /\ TypeOK /\ Turns /\ reader # Nothing /\ (remaining = 0 \/ Got = 0)
      /\ Advance /\ reader' = Nothing
      /\ UNCHANGED <<files, overall, frame, returned, short, reads, faults>>
  BY DEF SoupInv, OnItsWay, LeaveFile, Advance, soup
<1>2. /\ index \in 1 .. Len(files) /\ index \in Nat /\ Current \in File /\ Len(files) \in Nat
      /\ SamplesWanted - Len(frame) \in Nat \ {0}
      /\ ~finished /\ ~short
  BY <1>1, TurnFacts
<1>3. OnItsWay'
  <2>1. faults' \in 0 .. MaxFaults
    BY <1>1 DEF TypeOK
  <2> QED
    BY <1>1, <2>1, Advanced DEF LeaveFile
<1>4. Heard' = Heard
  BY <1>1, HeardStays
<1>5. ASSUME faults = 0
      PROVE  /\ finished' => Heard = Expected
             /\ ~finished' => \E m, k, t \in Nat : SoundAt(m, k, t)'
  <2>1. PICK m \in Nat, k \in Nat, t \in Nat : SoundAt(m, k, t)
    BY <1>2, <1>5 DEF SoupInv
  <2>2. PICK j \in 1 .. Len(files) : j = index
    BY <1>2
  <2>3. /\ j \in Nat /\ files[j] = Current /\ files[j].loops \in (Nat \ {0}) \cup {Forever}
        /\ overall \in (Nat \ {0}) \cup {Forever} /\ Forever \notin Nat
        /\ fileLoop \in Nat /\ overallLoop \in Nat /\ Len(files) >= 1
    <3>1. overall \in (Nat \ {0}) \cup {Forever} /\ Forever \notin Nat
      BY <1>1, SoupAssumption DEF TypeOK
    <3>2. Current = files[j] /\ Current.loops \in (Nat \ {0}) \cup {Forever}
      BY <1>2, <2>2, FileTyped DEF Current
    <3> QED
      BY <1>1, <2>2, <3>1, <3>2 DEF TypeOK, OnItsWay
  <2>4. t = SamplesOf(files[j])
    <3>1. PICK w \in Nat \ {0} : w = SamplesWanted - Len(frame)
      BY <1>2
    <3>2. Got = Gets(Current, reader, remaining, w)
      BY <3>1 DEF Got, Gets, Wanted, Wants
    <3>3. PICK c \in File : c = Current
      BY <1>2
    <3>4. reader \in Nat /\ remaining \in Nat \cup {Nothing} /\ InFile(c, reader, remaining, t)
      BY <1>1, <2>1, <3>3 DEF SoundAt, TypeOK
    <3>5. remaining = 0 \/ Gets(c, reader, remaining, w) = 0
      BY <1>1, <3>2, <3>3
    <3>6. t = SamplesOf(c)
      BY <3>4, <3>5, Leaves
    <3> QED
      BY <2>3, <3>3, <3>6
  <2>5. Heard = Sounds(m, j, k + 1, 0)
    BY <1>1, <2>1, <2>2, <2>4, SoundsLoop DEF SoundAt
  <2>6. /\ overall # Forever => m = overallLoop /\ m < overall
        /\ files[j].loops # Forever => k = fileLoop /\ k < files[j].loops
    BY <2>1, <2>3 DEF SoundAt
  <2>7. ASSUME NEW u \in Nat, NEW i \in Nat, NEW l \in Nat, index' = i,
               Heard = Sounds(u, i, l, 0),
               overall # Forever => u = overallLoop' /\ u < overall,
               files[i].loops # Forever => l = fileLoop' /\ l < files[i].loops
        PROVE  \E a, b, c \in Nat : SoundAt(a, b, c)'
    <3>1. Sounds(u, i, l, 0)' = Sounds(u, i, l, 0)
      BY <1>1, SoundsStay DEF soup
    <3>2. Sounds(u, index, l, 0)' = Sounds(u, i, l, 0)
      BY <2>7, <3>1 DEF Sounds
    <3>3. Current' = files[i]
      BY <1>1, <2>7 DEF Current
    <3>4. SoundAt(u, l, 0)'
      BY <1>1, <1>4, <2>7, <3>2, <3>3 DEF SoundAt
    <3> QED
      BY <3>4
  <2>8. CASE /\ ~Enough(fileLoop, Current.loops)
             /\ fileLoop' = Counted(fileLoop, Current.loops)
             /\ UNCHANGED <<index, overallLoop, finished>>
    <3>1. files[j].loops # Forever => k + 1 = fileLoop' /\ k + 1 < files[j].loops
      BY <2>3, <2>6, <2>8 DEF Enough, Counted
    <3>2. ~finished' /\ index' = j /\ overallLoop' = overallLoop /\ k + 1 \in Nat
      BY <1>2, <2>2, <2>8
    <3> QED
      BY <2>3, <2>5, <2>6, <2>7, <3>1, <3>2
  <2>9. ASSUME Enough(fileLoop, Current.loops), fileLoop' = 0
        PROVE  /\ files[j].loops = k + 1 /\ files[j].loops # Forever
               /\ Heard = Times(Upto(Len(files)), m) \o Upto(j)
               /\ j + 1 \in 1 .. Len(files) => Heard = Sounds(m, j + 1, 0, 0)
    <3>1. files[j].loops # Forever /\ fileLoop + 1 >= files[j].loops
      BY <2>3, <2>9 DEF Enough
    <3>2. files[j].loops = k + 1 /\ k + 1 \in Nat
      BY <2>3, <2>6, <3>1
    <3> QED
      BY <1>1, <2>5, <3>1, <3>2, SoundsNext
  <2>10. CASE /\ Enough(fileLoop, Current.loops)
              /\ fileLoop' = 0
              /\ index < Len(files)
              /\ index' = index + 1
              /\ UNCHANGED <<overallLoop, finished>>
    <3>1. j + 1 \in 1 .. Len(files) /\ j + 1 \in Nat /\ index' = j + 1 /\ ~finished' /\ overallLoop' = overallLoop
      BY <1>2, <2>2, <2>10
    <3>2. Heard = Sounds(m, j + 1, 0, 0)
      BY <2>9, <2>10, <3>1
    <3>3. files[j + 1].loops # Forever => 0 < files[j + 1].loops
      <4>1. files[j + 1] \in File
        BY <1>1, <3>1 DEF TypeOK
      <4>2. files[j + 1].loops \in (Nat \ {0}) \cup {Forever}
        BY <4>1, FileTyped
      <4> QED
        BY <4>2
    <3>4. files[j + 1].loops # Forever => 0 = fileLoop' /\ 0 < files[j + 1].loops
      BY <2>10, <3>3
    <3>5. PICK i \in Nat : i = j + 1
      BY <3>1
    <3> QED
      BY <2>6, <2>7, <3>1, <3>2, <3>4, <3>5
  <2>11. CASE /\ Enough(fileLoop, Current.loops)
              /\ fileLoop' = 0
              /\ index = Len(files)
              /\ overallLoop' = Counted(overallLoop, overall)
              /\ finished' = Enough(overallLoop, overall)
              /\ index' = IF finished' THEN index + 1 ELSE 1
    <3>1. Heard = Times(Upto(Len(files)), m + 1)
      BY <1>1, <2>2, <2>3, <2>9, <2>11, SoundsRound
    <3>2. ASSUME finished' PROVE Heard = Expected
      <4>1. overall # Forever /\ overallLoop + 1 >= overall
        BY <2>11, <3>2 DEF Enough
      <4>2. PICK n \in Nat : n = m + 1
        OBVIOUS
      <4>3. overall = n
        BY <2>3, <2>6, <4>1, <4>2
      <4>4. Times(Upto(Len(files)), n) = Expected
        BY <1>1, <2>3, <4>1, <4>3, SoundsEnd
      <4> QED
        BY <3>1, <4>2, <4>4
    <3>3. ASSUME ~finished' PROVE \E a, b, c \in Nat : SoundAt(a, b, c)'
      <4>1. index' = 1 /\ ~Enough(overallLoop, overall)
        BY <2>11, <3>3
      <4>2. overall # Forever => m + 1 = overallLoop' /\ m + 1 < overall
        BY <2>3, <2>6, <2>11, <4>1 DEF Enough, Counted
      <4>3. Heard = Sounds(m + 1, 1, 0, 0)
        BY <1>1, <2>3, <3>1, SoundsRound
      <4>4. files[1].loops # Forever => 0 = fileLoop' /\ 0 < files[1].loops
        <5>1. files[1] \in File
          BY <1>1, <1>2, <2>3 DEF TypeOK
        <5>2. files[1].loops \in (Nat \ {0}) \cup {Forever}
          BY <5>1, FileTyped
        <5> QED
          BY <2>11, <5>2
      <4>5. PICK u \in Nat : u = m + 1
        OBVIOUS
      <4> QED
        BY <2>7, <4>1, <4>2, <4>3, <4>4, <4>5
    <3> QED
      BY <3>2, <3>3
  <2> QED
    BY <1>1, <2>8, <2>10, <2>11 DEF Advance
<1>6. Expected' = Expected
  BY <1>1, SoundsStay DEF soup
<1> QED
  BY <1>1, <1>3, <1>4, <1>5, <1>6 DEF SoupInv

LEMMA SoupStep ==
  ASSUME SoupInv, [Next]_vars
  PROVE  SoupInv'
<1>1. CASE ReadBegins
  BY <1>1, Begun
<1>2. CASE OpenCurrent
  BY <1>2, Opened
<1>3. CASE OpenFails
  BY <1>3, NotOpened
<1>4. CASE ReadSome
  BY <1>4, ReadMore
<1>5. CASE LeaveFile
  BY <1>5, Left
<1>6. CASE ReadFails
  BY <1>6, NotRead
<1>7. CASE ReadReturns
  BY <1>7, Returned
<1>8. CASE UNCHANGED vars
  <2>1. /\ UNCHANGED <<files, overall, index, fileLoop, overallLoop, finished, reader, remaining, frame,
                       returned, short, reads, faults>>
    BY <1>8 DEF vars, soup, place
  <2>2. OnItsWay'
    BY <2>1 DEF SoupInv, OnItsWay, TypeOK
  <2>3. Heard' = Heard /\ Expected' = Expected
    BY <2>1, HeardStays, SoundsStay DEF soup
  <2>4. ASSUME faults = 0, ~finished PROVE \E m, k, t \in Nat : SoundAt(m, k, t)'
    <3>1. PICK m \in Nat, k \in Nat, t \in Nat : SoundAt(m, k, t)
      BY <2>4 DEF SoupInv
    <3>2. PICK j \in Nat : j = index
      BY DEF SoupInv, OnItsWay, TypeOK
    <3>3. Sounds(m, j, k, t)' = Sounds(m, j, k, t)
      BY <2>1, SoundsStay DEF soup
    <3>4. Sounds(m, index, k, t)' = Sounds(m, index, k, t)
      BY <2>1, <3>2, <3>3 DEF Sounds
    <3>5. InFile(Current, reader, remaining, t)' = InFile(Current, reader, remaining, t)
      BY <2>1 DEF InFile, Current
    <3>6. SoundAt(m, k, t)'
      BY <2>1, <2>3, <3>1, <3>4, <3>5 DEF SoundAt, Current
    <3> QED
      BY <3>6
  <2> QED
    BY <2>1, <2>2, <2>3, <2>4 DEF SoupInv
<1> QED
  BY <1>1, <1>2, <1>3, <1>4, <1>5, <1>6, <1>7, <1>8 DEF Next

\* The player, its reader and what its reads return keep their types (player.rs
\* 41-72): a read returns no more than it was asked for, and neither the place
\* in the soup nor the rest of a file's window gets out of its range.
THEOREM SoupTypes == Spec => []TypeOK
<1>1. SoupInv => TypeOK
  BY DEF SoupInv, OnItsWay
<1> QED
  BY <1>1, SoupBegins, SoupStep, PTL DEF Spec

\* Whatever the frames' borders, files, trimming and loops are heard as they were
\* asked for, in order and to the end, and a read that falls short is the last of
\* a soup that is finished (player.rs 83-193): what has been heard is always m
\* rounds, the files before this one, k of its loops, and its first t samples.
THEOREM PlaysWhatIsAsked == Spec => []PlaysAsAsked
<1>1. ASSUME SoupInv PROVE PlaysAsAsked
  <2>1. OnItsWay /\ TypeOK /\ Heard \in Seq(SoundSample)
    BY <1>1, HeardFacts DEF SoupInv, OnItsWay
  <2>2. ASSUME faults = 0, finished PROVE IsPrefix(Heard, Expected) /\ Heard = Expected
    <3>1. Heard = Expected
      BY <1>1, <2>2 DEF SoupInv
    <3>2. PICK h \in Seq(SoundSample) : h = Heard
      BY <2>1
    <3>3. IsPrefix(h, h) <=> Len(h) <= Len(h) /\ \A i \in 1 .. Len(h) : h[i] = h[i]
      BY ONLY h \in Seq(SoundSample), PrefixMeans
    <3>4. IsPrefix(h, h)
      BY <3>3
    <3> QED
      BY <3>1, <3>2, <3>4
  <2>3. ASSUME faults = 0, ~finished PROVE IsPrefix(Heard, Expected)
    <3>1. PICK m \in Nat, k \in Nat, t \in Nat : SoundAt(m, k, t)
      BY <1>1, <2>3 DEF SoupInv
    <3>2. Len(files) \in Nat /\ index \in 1 .. Len(files)
      BY <2>1, <2>3 DEF OnItsWay, TypeOK
    <3>3. t <= SamplesOf(files[index])
      <4>1. files[index] \in File
        BY <2>1, <3>2 DEF TypeOK
      <4>2. SamplesOf(files[index]) \in Nat
        BY <4>1, FileTyped
      <4> QED
        BY <3>1, <4>2 DEF SoundAt, InFile, Current
    <3>4. Len(Heard) <= SamplesWanted * MaxReads
      <4>1. PICK n \in Nat : n = SamplesWanted * reads
        BY <2>1, SoupIsTyped DEF TypeOK, SoupConstants
      <4>2. SamplesWanted * reads <= SamplesWanted * MaxReads
        BY <2>1, SoupIsTyped DEF TypeOK, SoupConstants
      <4>3. SamplesWanted * MaxReads \in Nat /\ SamplesWanted \in Nat
        BY SoupIsTyped DEF SoupConstants
      <4>4. Len(Heard) <= n
        <5>1. CASE frame = Nothing
          BY <2>1, <4>1, <5>1, HeardFacts DEF OnItsWay
        <5>2. CASE frame # Nothing
          <6>1. Len(returned) + SamplesWanted <= n
            BY <2>1, <4>1, <5>2 DEF OnItsWay
          <6>2. Len(frame) <= SamplesWanted /\ frame \in Seq(SoundSample) /\ returned \in Seq(SoundSample)
            BY <2>1, <5>2 DEF TypeOK
          <6>3. Len(frame) \in Nat /\ Len(returned) \in Nat
            BY <6>2
          <6>4. Len(Heard) = Len(returned) + Len(frame)
            BY <2>1, <5>2, HeardFacts
          <6> QED
            BY <4>3, <6>1, <6>2, <6>3, <6>4
        <5> QED
          BY <5>1, <5>2
      <4>5. Len(Heard) \in Nat
        BY <2>1
      <4> QED
        BY <4>1, <4>2, <4>3, <4>4, <4>5
    <3>5. /\ overall # Forever => m < overall
          /\ files[index].loops # Forever => k < files[index].loops
          /\ Heard = Sounds(m, index, k, t)
      BY <3>1 DEF SoundAt, Current
    <3> QED
      BY <2>1, <3>2, <3>3, <3>4, <3>5, SoundsBegin
  <2>4. short => finished
    BY <2>1 DEF OnItsWay
  <2> QED
    BY <2>2, <2>3, <2>4 DEF PlaysAsAsked
<1> QED
  BY <1>1, SoupBegins, SoupStep, PTL DEF Spec
=============================================================================
