--------------------------- MODULE PlaybackProofs ---------------------------
(***************************************************************************)
(* Proofs about prompts and recordings, for any number of files and        *)
(* requests: that the events JavaScript gets are true, that a recording    *)
(* belongs to its prompt, and that no file has two recorders.              *)
(***************************************************************************)
EXTENDS Playback, TLAPS

-----------------------------------------------------------------------------
(* The inductive invariant. *)

\* A prompt and a writer are together only after one was started over the other.
Sources == player # None /\ writer # None => clashed

\* Recorders are fed in the tick's last part only.
Fed == phase # "recorders" => unfed = {}

\* No two recorders come from one request.
OneId == \A r, s \in recorders : r.id = s.id => r = s

\* A request is told of only when its time has come: a pending recording has
\* neither a recorder nor events, and a recorder's prompt is over.
Fresh ==
  /\ \A i \in Id : i > requests => told[i] = "no"
  /\ \A r \in recorders : r.id <= requests /\ r.id # playing
  /\ pending # None => /\ pending.id <= requests
                       /\ told[pending.id] = "no"
                       /\ \A r \in recorders : r.id # pending.id
  /\ playing # None => playing <= requests

\* What prompts and writers need of each other.
PromptInv == PromptOwns /\ PlayTold /\ Sources

\* What recorders and events need of each other.
RecordInv == RecordTold /\ OneFile /\ OneId /\ Fresh /\ PlayFirst

Inv == TypeOK /\ Fed /\ PromptInv /\ RecordInv

-----------------------------------------------------------------------------
(* Changes of the set of recorders. *)

\* None is none of the things it stands in for, and requests are numbers.
LEMMA Apart ==
  /\ MaxRequests \in Nat
  /\ Id \subseteq Nat
  /\ None \notin Id
  /\ None \notin Prompt
  /\ None \notin Pending
  /\ None \notin Recorder
<1>1. MaxRequests \in Nat /\ Id \subseteq Nat /\ None \notin Id
  BY PlaybackAssumption DEF Id
<1>2. None \notin Prompt
  BY <1>1, PlaybackAssumption DEF Prompt
<1>3. None \notin Pending
  BY <1>1, PlaybackAssumption DEF Pending
<1>4. None \notin Recorder
  BY <1>1, PlaybackAssumption DEF Recorder
<1> QED
  BY <1>1, <1>2, <1>3, <1>4

\* A recorder that opens has its file, and its request, to itself.
LEMMA OpenedKeeps ==
  ASSUME recorders \subseteq Recorder, OneFile, OneId,
         NEW id \in Id, NEW file \in Files, NEW gated \in BOOLEAN, NEW old \in Same(file),
         \A r \in recorders : r.id # id,
         Opened(id, file, gated, old)
  PROVE  /\ recorders' \subseteq Recorder
         /\ OneFile'
         /\ OneId'
         /\ \A r \in recorders' : r.id = id \/ r \in recorders
         /\ \E r \in recorders' : r.id = id
         /\ \A r \in recorders : r = old \/ r \in recorders'
         /\ old # None => old \in recorders /\ old \notin recorders'
<1> DEFINE new == [id |-> id, file |-> file, state |-> IF gated THEN "gated" ELSE "active"]
<1>1. new \in Recorder /\ new.id = id /\ new.file = file /\ new \notin recorders
  BY DEF Recorder
<1>2. recorders' = (recorders \ {old}) \cup {new}
  BY DEF Opened
<1>3. \A r \in recorders : r.file = file => r = old
  BY DEF Same, OneFile
<1>4. old # None => old \in recorders
  BY DEF Same
<1> HIDE DEF new
<1>5. OneFile'
  BY <1>1, <1>2, <1>3 DEF OneFile
<1>6. OneId'
  BY <1>1, <1>2 DEF OneId
<1> QED
  BY <1>1, <1>2, <1>4, <1>5, <1>6

\* A recorder that changes its state stays the same recorder.
LEMMA StateKeeps ==
  ASSUME recorders \subseteq Recorder, OneFile, OneId,
         NEW r \in recorders, NEW state \in {"gated", "active", "paused"},
         recorders' = (recorders \ {r}) \cup {[r EXCEPT !.state = state]}
  PROVE  /\ recorders' \subseteq Recorder
         /\ OneFile'
         /\ OneId'
         /\ \A s \in recorders' : \E t \in recorders : s.id = t.id
         /\ \A t \in recorders : \E s \in recorders' : s.id = t.id
<1> DEFINE new == [r EXCEPT !.state = state]
<1>1. new \in Recorder /\ new.id = r.id /\ new.file = r.file
  BY DEF Recorder
<1>2. recorders' = (recorders \ {r}) \cup {new}
  OBVIOUS
<1> HIDE DEF new
<1>3. OneFile' /\ OneId'
  BY <1>1, <1>2 DEF OneFile, OneId
<1> QED
  BY <1>1, <1>2, <1>3

\* The end of a prompt leaves nothing pending, and the records in order.
LEMMA ActivateKeeps ==
  ASSUME TypeOK, PromptOwns, RecordInv, Activate
  PROVE  /\ pending' = None
         /\ prebuffer' = {}
         /\ recorders' \subseteq Recorder
         /\ told' \in [Id -> {"no", "recording", "finished"}]
         /\ silenced' \subseteq Id
         /\ OneFile'
         /\ OneId'
         /\ \A i \in Id : told'[i] = "recording" =>
              lost \/ i \in silenced' \/ \E r \in recorders' : r.id = i
         /\ \A r \in recorders' : told'[r.id] # "finished" /\ r.id <= requests
         /\ \A i \in Id : i > requests => told'[i] = "no"
<1> USE DEF RecordInv
<1>1. CASE pending = None
  <2>1. UNCHANGED <<pending, prebuffer, recorders, told, silenced>>
    BY <1>1 DEF Activate
  <2>2. prebuffer = {}
    BY <1>1 DEF PromptOwns
  <2> QED
    BY <1>1, <2>1, <2>2 DEF TypeOK, OneFile, OneId, RecordTold, Fresh
<1>2. CASE pending # None
  <2> DEFINE id == pending.id
  <2>1. /\ id \in Id /\ pending.file \in Files /\ pending.gated \in BOOLEAN
        /\ id <= requests /\ told[id] = "no" /\ \A r \in recorders : r.id # id
    BY <1>2 DEF TypeOK, Pending, Fresh
  <2>2. pending' = None /\ prebuffer' = {}
    BY <1>2 DEF Activate, Superseded
  <2>3. \A r \in recorders : r.id \in Id
    BY DEF TypeOK, Recorder
  <2>4. requests \in Nat /\ Id \subseteq Nat
    BY Apart DEF TypeOK
  <2>5. CASE told' = [told EXCEPT ![pending.id] = "finished"] /\ UNCHANGED <<recorders, silenced>>
    <3> HIDE DEF id
    <3>1. told' = [told EXCEPT ![id] = "finished"] /\ UNCHANGED <<recorders, silenced>>
      BY <2>5 DEF id
    <3> QED
      BY <2>1, <2>2, <2>3, <2>4, <3>1 DEF TypeOK, OneFile, OneId, RecordTold, Fresh
  <2>6. CASE \E old \in Same(pending.file) :
               /\ Opened(pending.id, pending.file, pending.gated, old)
               /\ told' = Announced(pending.id, pending.gated)
               /\ silenced' = IF old = None THEN silenced ELSE silenced \cup {old.id}
    <3>1. PICK old \in Same(pending.file) :
               /\ Opened(id, pending.file, pending.gated, old)
               /\ told' = Announced(id, pending.gated)
               /\ silenced' = IF old = None THEN silenced ELSE silenced \cup {old.id}
      BY <2>6
    <3>2. recorders \subseteq Recorder
      BY DEF TypeOK
    <3> HIDE DEF id
    <3>3. /\ recorders' \subseteq Recorder
          /\ OneFile'
          /\ OneId'
          /\ \A r \in recorders' : r.id = id \/ r \in recorders
          /\ \E r \in recorders' : r.id = id
          /\ \A r \in recorders : r = old \/ r \in recorders'
          /\ old # None => old \in recorders /\ old \notin recorders'
      BY <2>1, <3>1, <3>2, OpenedKeeps
    <3>4. /\ told' \in [Id -> {"no", "recording", "finished"}]
          /\ told'[id] # "finished"
          /\ \A i \in Id : i # id => told'[i] = told[i]
      BY <2>1, <3>1 DEF Announced, TypeOK
    <3>5. silenced' \subseteq Id /\ silenced \subseteq silenced'
      BY <2>3, <3>1, <3>3 DEF TypeOK
    <3>6. ASSUME NEW i \in Id, told'[i] = "recording"
          PROVE  lost \/ i \in silenced' \/ \E r \in recorders' : r.id = i
      <4>1. CASE i = id
        BY <3>3, <4>1
      <4>2. CASE i # id
        <5>1. lost \/ i \in silenced \/ \E r \in recorders : r.id = i
          BY <3>4, <3>6, <4>2 DEF RecordTold
        <5>2. ASSUME NEW r \in recorders, r.id = i, r \notin recorders'
              PROVE  i \in silenced'
          <6>1. r = old /\ old # None
            BY <3>2, <3>3, <5>2, Apart
          <6> QED
            BY <3>1, <5>2, <6>1
        <5> QED
          BY <3>5, <5>1, <5>2
      <4> QED
        BY <4>1, <4>2
    <3>7. \A r \in recorders' : told'[r.id] # "finished" /\ r.id <= requests
      BY <2>1, <2>3, <3>3, <3>4 DEF RecordTold, Fresh
    <3>8. \A i \in Id : i > requests => told'[i] = "no"
      BY <2>1, <2>4, <3>4 DEF Fresh
    <3> QED
      BY <2>2, <3>3, <3>4, <3>5, <3>6, <3>7, <3>8
  <2> QED
    BY <1>2, <2>5, <2>6 DEF Activate
<1> QED
  BY <1>1, <1>2

-----------------------------------------------------------------------------
(* Types *)

\* What feeding starts with.
LEMMA FeedsFew ==
  ASSUME Feeds
  PROVE  unfed' \subseteq recorders' /\ phase' = "recorders" /\ inbound' = FALSE /\ outbound' = FALSE
BY DEF Feeds

\* Commands keep the types.
LEMMA CommandTypes ==
  ASSUME Inv, Command
  PROVE  TypeOK' /\ Fed'
<1> USE DEF TypeOK, Fed, tick, prompt
<1>1. MaxRequests \in Nat /\ Id = 1 .. MaxRequests /\ phase = "idle" /\ unfed = {}
  <2>1. phase = "idle"
    BY DEF Command, Between, Asked, Play, PlayRecord, Record, Resume, RecordFinish, RecordSetPaused,
           CreateWriteStream, DestroyWriteStream, EnterMix, LeaveMix, Close, Lose
  <2> QED
    BY <2>1, Apart DEF Inv, Id
<1>2. requests < MaxRequests => requests + 1 \in Id /\ requests + 1 \in 0 .. MaxRequests
  BY <1>1 DEF Inv
<1>3. Unguarded \in Id \cup {None}
  BY DEF Inv, Unguarded
<1>4. ASSUME NEW interrupts \in BOOLEAN, Play(interrupts)
      PROVE  TypeOK' /\ Fed'
  BY <1>1, <1>2, <1>3, <1>4 DEF Inv, Play, Asked, NewPrompt, Superseded, Prompt
<1>5. ASSUME NEW file \in Files, NEW gated \in BOOLEAN, NEW interrupts \in BOOLEAN,
             NEW guarded \in BOOLEAN, PlayRecord(file, gated, interrupts, guarded)
      PROVE  TypeOK' /\ Fed'
  BY <1>1, <1>2, <1>3, <1>5 DEF Inv, PlayRecord, Asked, NewPrompt, Prompt, Pending
<1>6. ASSUME NEW file \in Files, NEW gated \in BOOLEAN, Record(file, gated)
      PROVE  TypeOK' /\ Fed'
  <2> DEFINE id == requests + 1
  <2>1. id \in Id /\ requests' = id /\ id \in 0 .. MaxRequests
    BY <1>2, <1>6 DEF Record, Asked
  <2>2. /\ pending' = None /\ prebuffer' = {}
        /\ UNCHANGED <<mode, tick, player, bargein, writer, playing, clashed, silenced, lost>>
    BY <1>6 DEF Record, Superseded
  <2>3. CASE told' = [told EXCEPT ![id] = "finished"] /\ UNCHANGED recorders
    <3> HIDE DEF id
    <3> QED
      BY <1>1, <2>1, <2>2, <2>3 DEF Inv
  <2>4. CASE \E old \in Same(file) :
               /\ Opened(id, file, gated, old)
               /\ told' = [Replaced(old) EXCEPT ![id] = IF gated THEN "no" ELSE "recording"]
    <3>1. PICK old \in Same(file) :
               /\ Opened(id, file, gated, old)
               /\ told' = [Replaced(old) EXCEPT ![id] = IF gated THEN "no" ELSE "recording"]
      BY <2>4
    <3> HIDE DEF id
    <3>2. recorders' \subseteq Recorder
      <4>1. [id |-> id, file |-> file, state |-> IF gated THEN "gated" ELSE "active"] \in Recorder
        BY <2>1 DEF Recorder
      <4> QED
        BY <3>1, <4>1 DEF Opened, Inv
    <3>3. told' \in [Id -> {"no", "recording", "finished"}]
      BY <3>1 DEF Inv, Replaced
    <3> QED
      BY <1>1, <2>1, <2>2, <3>2, <3>3 DEF Inv
  <2> QED
    BY <1>6, <2>3, <2>4 DEF Record
<1>7. ASSUME NEW file \in Files, Resume(file)
      PROVE  TypeOK' /\ Fed'
  <2>1. PICK r \in recorders :
          /\ recorders' = (recorders \ {r}) \cup {[r EXCEPT !.state = "active"]}
          /\ told' = [told EXCEPT ![r.id] = "recording"]
    BY <1>7 DEF Resume, Paused
  <2>2. recorders' \subseteq Recorder
    BY <2>1, StateKeeps DEF Inv, RecordInv
  <2>3. told' \in [Id -> {"no", "recording", "finished"}]
    BY <2>1 DEF Inv
  <2> QED
    BY <1>1, <1>7, <2>2, <2>3 DEF Inv, Resume, Superseded
<1>8. ASSUME NEW file \in Files, RecordFinish(file)
      PROVE  TypeOK' /\ Fed'
  <2>1. recorders' \subseteq recorders /\ told' \in [Id -> {"no", "recording", "finished"}]
    BY <1>8 DEF Inv, RecordFinish
  <2> QED
    BY <1>1, <1>8, <2>1 DEF Inv, RecordFinish
<1>9. ASSUME NEW file \in Files, NEW state \in {"active", "paused"}, RecordSetPaused(file, state)
      PROVE  TypeOK' /\ Fed'
  <2>1. PICK r \in recorders : recorders' = (recorders \ {r}) \cup {[r EXCEPT !.state = state]}
    BY <1>9 DEF RecordSetPaused
  <2>2. recorders' \subseteq Recorder
    BY <2>1, StateKeeps DEF Inv, RecordInv
  <2> QED
    BY <1>1, <1>9, <2>2 DEF Inv, RecordSetPaused
<1>10. ASSUME CreateWriteStream \/ DestroyWriteStream
       PROVE  TypeOK' /\ Fed'
  BY <1>1, <1>2, <1>3, <1>10 DEF Inv, CreateWriteStream, DestroyWriteStream, Asked, Superseded
<1>11. ASSUME EnterMix \/ LeaveMix
       PROVE  TypeOK' /\ Fed'
  BY <1>1, <1>3, <1>11 DEF Inv, EnterMix, LeaveMix, Superseded
<1>12. ASSUME Close \/ Lose
       PROVE  TypeOK' /\ Fed'
  BY <1>1, <1>12 DEF Inv, Close, Lose, Dropped, Superseded
<1> QED
  BY <1>4, <1>5, <1>6, <1>7, <1>8, <1>9, <1>10, <1>11, <1>12 DEF Command

\* What the end of a prompt changes keeps its types.
LEMMA PromptEndsTypes ==
  ASSUME Inv, PromptEnds
  PROVE  /\ player' = None /\ bargein' = None /\ playing' = None
         /\ pending' = None /\ prebuffer' = {}
         /\ recorders' \subseteq Recorder
         /\ told' \in [Id -> {"no", "recording", "finished"}]
         /\ silenced' \subseteq Id
BY ActivateKeeps DEF Inv, PromptInv, PromptEnds

\* Parts of the tick keep the types.
LEMMA TickTypes ==
  ASSUME Inv, TickPart
  PROVE  TypeOK' /\ Fed'
<1> USE DEF TypeOK, Fed, tick, prompt
<1>1. CASE TickBegins \/ Drained \/ TickEnds
  <2>1. unfed = {} /\ unfed' = unfed
    BY <1>1 DEF Inv, TickBegins, Between, Drained, TickEnds
  <2>2. phase' \in {"dtmf", "player", "recorders", "idle"}
    BY <1>1 DEF TickBegins, Drained, TickEnds
  <2>3. digit' \in BOOLEAN /\ inbound' \in BOOLEAN /\ outbound' \in BOOLEAN
    BY <1>1 DEF Inv, TickBegins, Drained, TickEnds
  <2>4. UNCHANGED <<mode, prompt, writer, recorders, requests, playing, told, clashed, silenced, lost>>
    BY <1>1 DEF TickBegins, Drained, TickEnds
  <2> QED
    BY <2>1, <2>2, <2>3, <2>4 DEF Inv
<1>2. CASE Digit
  BY <1>2, PromptEndsTypes DEF Inv, Digit
<1>3. CASE TickPlayer
  BY <1>3, PromptEndsTypes DEF Inv, TickPlayer
<1>4. CASE TickWriter
  <2>1. outbound' \in BOOLEAN
    BY <1>4 DEF Inv, TickWriter
  <2>2. phase' = "listen" /\ unfed = {} /\ unfed' = {}
    BY <1>4 DEF Inv, TickWriter
  <2>3. writer' \in Id \cup {None} /\ playing' \in Id \cup {None}
    BY <1>4 DEF Inv, TickWriter
  <2>4. UNCHANGED <<mode, digit, inbound, prompt, recorders, requests, told, clashed, silenced, lost>>
    BY <1>4 DEF TickWriter
  <2> QED
    BY <2>1, <2>2, <2>3, <2>4 DEF Inv
<1>5. CASE BargeIn
  BY <1>5, PromptEndsTypes, FeedsFew DEF Inv, BargeIn
<1>6. CASE Listen
  <2>1. prebuffer' \subseteq Id
    BY <1>6 DEF Inv, Listen, Prompt
  <2> QED
    BY <1>6, <2>1, FeedsFew DEF Inv, Listen
<1>7. ASSUME NEW r \in recorders, FeedRecorder(r)
      PROVE  TypeOK' /\ Fed'
  <2>1. phase' = "recorders" /\ unfed' \subseteq recorders'
    BY <1>7 DEF Inv, FeedRecorder
  <2>2. recorders' \subseteq Recorder
    BY <1>7, StateKeeps DEF Inv, RecordInv, FeedRecorder
  <2>3. told' \in [Id -> {"no", "recording", "finished"}]
    BY <1>7 DEF Inv, FeedRecorder
  <2> QED
    BY <1>7, <2>1, <2>2, <2>3 DEF Inv, FeedRecorder
<1> QED
  BY <1>1, <1>2, <1>3, <1>4, <1>5, <1>6, <1>7 DEF TickPart

-----------------------------------------------------------------------------
(* Prompts *)

\* Without a prompt there is no barge-in left.
LEMMA UnguardedNone ==
  ASSUME PromptOwns
  PROVE  Unguarded = None
BY DEF PromptOwns, Unguarded

\* Commands keep prompts, their guards and their events together.
LEMMA CommandPrompts ==
  ASSUME Inv, Command
  PROVE  PromptInv'
<1> USE DEF PromptInv, PromptOwns, PlayTold, Sources, tick, prompt
<1>1. Unguarded = None
  BY UnguardedNone DEF Inv
<1>2. player # None => player.id \in Id /\ player \in Prompt
  BY DEF Inv, TypeOK, Prompt
<1>3. requests < MaxRequests => requests + 1 \in Id
  BY Apart DEF Inv, TypeOK, Id
<1>4. ASSUME NEW interrupts \in BOOLEAN, NewPrompt(interrupts), Asked
      PROVE  player' # None /\ player'.id = requests + 1 /\ playing' = requests + 1
  <2>1. player' \in Prompt
    BY <1>3, <1>4 DEF NewPrompt, Asked, Prompt
  <2> QED
    BY <1>4, <2>1, Apart DEF NewPrompt
<1>5. ASSUME NEW interrupts \in BOOLEAN, Play(interrupts)
      PROVE  PromptInv'
  BY <1>1, <1>4, <1>5 DEF Inv, Play, NewPrompt, Superseded
<1>6. ASSUME NEW file \in Files, NEW gated \in BOOLEAN, NEW interrupts \in BOOLEAN,
             NEW guarded \in BOOLEAN, PlayRecord(file, gated, interrupts, guarded)
      PROVE  PromptInv'
  BY <1>1, <1>4, <1>6 DEF Inv, PlayRecord, NewPrompt
<1>7. ASSUME UNCHANGED <<player, bargein, writer, playing, clashed, lost>>,
             UNCHANGED <<pending, prebuffer>> \/ Superseded
      PROVE  PromptInv'
  BY <1>7 DEF Inv, Superseded
<1>8. ASSUME CreateWriteStream \/ EnterMix
      PROVE  PromptInv'
  BY <1>1, <1>8 DEF Inv, CreateWriteStream, EnterMix, Superseded
<1>9. ASSUME DestroyWriteStream
      PROVE  PromptInv'
  BY <1>9 DEF Inv, DestroyWriteStream
<1>10. ASSUME Close \/ Lose
       PROVE  PromptInv'
  BY <1>10 DEF Inv, Close, Lose, Dropped, Superseded
<1> QED
  BY <1>5, <1>6, <1>7, <1>8, <1>9, <1>10
     DEF Command, Record, Resume, RecordFinish, RecordSetPaused, LeaveMix

\* Parts of the tick do, too.
LEMMA TickPrompts ==
  ASSUME Inv, TickPart
  PROVE  PromptInv'
<1> USE DEF PromptInv, PromptOwns, PlayTold, Sources, tick, prompt
<1>1. ASSUME PromptEnds, UNCHANGED <<writer, clashed, lost>>
      PROVE  PromptInv'
  BY <1>1, PromptEndsTypes
<1>2. ASSUME UNCHANGED <<prompt, writer, playing, clashed, lost>>
      PROVE  PromptInv'
  BY <1>2 DEF Inv
<1>3. CASE TickWriter
  BY <1>3 DEF Inv, TickWriter
<1>4. CASE Listen
  BY <1>4 DEF Inv, Listen
<1> QED
  BY <1>1, <1>2, <1>3, <1>4
     DEF TickPart, TickBegins, Digit, Drained, TickPlayer, BargeIn, FeedRecorder, TickEnds

-----------------------------------------------------------------------------
(* Recordings *)

\* Requests, recorders and prompts have numbers.
LEMMA Numbers ==
  ASSUME TypeOK
  PROVE  /\ requests \in Nat
         /\ Id \subseteq Nat
         /\ \A r \in recorders : r.id \in Id
         /\ pending # None => pending.id \in Id
         /\ playing # None => playing \in Nat
         /\ None \notin Id
         /\ None \notin recorders
BY Apart DEF TypeOK, Recorder, Pending

\* A step that opens, closes and tells of no recording.
LEMMA RecordsRest ==
  ASSUME Inv,
         UNCHANGED <<recorders, told, silenced>>,
         lost => lost',
         playing' \in {playing, None},
         pending' \in {pending, None},
         requests' \in {requests, requests + 1}
  PROVE  RecordInv'
<1> USE DEF Inv, RecordInv
<1>1. RecordTold' /\ OneFile' /\ OneId'
  BY DEF RecordTold, OneFile, OneId
<1>2. Fresh'
  BY Numbers DEF Fresh
<1>3. PlayFirst'
  BY Numbers DEF PlayFirst
<1> QED
  BY <1>1, <1>2, <1>3

\* A recorder that stays, and whose state is told of or not.
LEMMA StateRecords ==
  ASSUME Inv,
         NEW r \in recorders, NEW state \in {"gated", "active", "paused"},
         recorders' = (recorders \ {r}) \cup {[r EXCEPT !.state = state]},
         told' \in {told, [told EXCEPT ![r.id] = "recording"]},
         UNCHANGED <<silenced, lost, playing, requests>>,
         pending' \in {pending, None}
  PROVE  RecordInv'
<1> USE DEF Inv, RecordInv
<1>1. /\ OneFile'
      /\ OneId'
      /\ \A s \in recorders' : \E t \in recorders : s.id = t.id
      /\ \A t \in recorders : \E s \in recorders' : s.id = t.id
  <2>1. recorders \subseteq Recorder
    BY DEF TypeOK
  <2> QED
    BY <2>1, StateKeeps
<1>2. /\ \A i \in Id : i # r.id => told'[i] = told[i]
      /\ told'[r.id] \in {told[r.id], "recording"}
  BY Numbers DEF TypeOK
<1>3. RecordTold'
  BY <1>1, <1>2, Numbers DEF RecordTold
<1>4. Fresh'
  BY <1>1, <1>2, Numbers DEF Fresh
<1>5. PlayFirst'
  BY <1>1, <1>2, Numbers DEF PlayFirst, Fresh
<1> QED
  BY <1>1, <1>3, <1>4, <1>5

\* A recorder that goes, and is told to be finished.
LEMMA FinishRecords ==
  ASSUME Inv,
         NEW r \in recorders,
         recorders' = recorders \ {r},
         told' = [told EXCEPT ![r.id] = "finished"],
         UNCHANGED <<silenced, lost, playing, requests, pending>>
  PROVE  RecordInv'
<1> USE DEF Inv, RecordInv
<1>1. r.id \in Id /\ \A s \in recorders' : s.id # r.id
  BY Numbers DEF OneId
<1>2. told'[r.id] = "finished" /\ \A i \in Id : i # r.id => told'[i] = told[i]
  BY <1>1 DEF TypeOK
<1>3. RecordTold'
  BY <1>1, <1>2, Numbers DEF RecordTold
<1>4. OneFile' /\ OneId'
  BY DEF OneFile, OneId
<1>5. Fresh'
  BY <1>1, <1>2, Numbers DEF Fresh
<1>6. PlayFirst'
  BY <1>2 DEF PlayFirst, Fresh
<1> QED
  BY <1>3, <1>4, <1>5, <1>6

\* record for a file without a paused recorder.
LEMMA RecordRecords ==
  ASSUME Inv, NEW file \in Files, NEW gated \in BOOLEAN, Record(file, gated)
  PROVE  RecordInv'
<1> USE DEF Inv, RecordInv
<1> DEFINE id == requests + 1
<1>1. id \in Id /\ requests' = id /\ id > requests
  BY Apart DEF Record, Asked, TypeOK, Id
<1>2. pending' = None /\ UNCHANGED <<silenced, lost, playing>>
  BY DEF Record, Superseded
<1>3. told[id] = "no" /\ playing # id /\ \A r \in recorders : r.id # id
  BY <1>1, Numbers DEF Fresh
<1>4. CASE told' = [told EXCEPT ![id] = "finished"] /\ UNCHANGED recorders
  <2> HIDE DEF id
  <2>1. told'[id] = "finished" /\ \A i \in Id : i # id => told'[i] = told[i]
    BY <1>1, <1>4 DEF TypeOK
  <2>2. RecordTold'
    BY <1>2, <1>3, <1>4, <2>1, Numbers DEF RecordTold
  <2>3. OneFile' /\ OneId'
    BY <1>4 DEF OneFile, OneId
  <2>4. Fresh'
    BY <1>1, <1>2, <1>4, <2>1, Numbers DEF Fresh, id
  <2>5. PlayFirst'
    BY <1>2, <1>3, <2>1 DEF PlayFirst
  <2> QED
    BY <2>2, <2>3, <2>4, <2>5
<1>5. CASE \E old \in Same(file) :
             /\ Opened(id, file, gated, old)
             /\ told' = [Replaced(old) EXCEPT ![id] = IF gated THEN "no" ELSE "recording"]
  <2>1. PICK old \in Same(file) :
             /\ Opened(id, file, gated, old)
             /\ told' = [Replaced(old) EXCEPT ![id] = IF gated THEN "no" ELSE "recording"]
    BY <1>5
  <2>2. requests < id /\ requests \in Nat /\ id \in Nat /\ (\A i \in Nat : i > requests' => i > requests)
    BY <1>1, Numbers
  <2> HIDE DEF id
  <2>3. recorders \subseteq Recorder
    BY DEF TypeOK
  <2>4. /\ OneFile'
        /\ OneId'
        /\ \A r \in recorders' : r.id = id \/ r \in recorders
        /\ \E r \in recorders' : r.id = id
        /\ \A r \in recorders : r = old \/ r \in recorders'
        /\ old # None => old \in recorders /\ old \notin recorders'
    BY <1>1, <1>3, <2>1, <2>3, OpenedKeeps
  <2>5. /\ told'[id] \in {"no", "recording"}
        /\ \A i \in Id : i # id => told'[i] = Replaced(old)[i]
    BY <1>1, <2>1 DEF TypeOK, Replaced
  <2>6. \A i \in Id : i # id => told'[i] = IF old # None /\ i = old.id THEN "finished" ELSE told[i]
    BY <2>4, <2>5, Numbers DEF TypeOK, Replaced
  <2>7. RecordTold'
    <3>1. ASSUME NEW i \in Id, told'[i] = "recording"
          PROVE  lost' \/ i \in silenced' \/ \E r \in recorders' : r.id = i
      BY <1>2, <2>4, <2>6, <3>1, Numbers DEF RecordTold
    <3>2. ASSUME NEW r \in recorders', told'[r.id] = "finished"
          PROVE  FALSE
      <4>1. r.id # id /\ r \in recorders /\ r.id \in Id
        BY <2>4, <2>5, <3>2, Numbers
      <4>2. ~(old # None /\ r.id = old.id)
        BY <2>4, <4>1 DEF OneId
      <4> QED
        BY <2>6, <3>2, <4>1, <4>2 DEF RecordTold
    <3> QED
      BY <3>1, <3>2 DEF RecordTold
  <2>8. Fresh'
    <3>1. ASSUME NEW i \in Id, i > requests'
          PROVE  told'[i] = "no"
      <4>1. i > requests /\ i # id /\ told[i] = "no"
        BY <1>1, <2>2, <3>1, Numbers DEF Fresh
      <4>2. ~(old # None /\ i = old.id)
        BY <2>4, <4>1, Numbers DEF Fresh
      <4> QED
        BY <2>6, <4>1, <4>2
    <3>2. ASSUME NEW r \in recorders'
          PROVE  r.id <= requests' /\ r.id # playing'
      <4>1. CASE r.id = id
        BY <1>1, <1>2, <1>3, <2>2, <4>1
      <4>2. CASE r \in recorders
        <5>1. r.id \in Nat /\ r.id <= requests /\ r.id # playing
          BY <4>2, Numbers DEF Fresh
        <5> QED
          BY <1>1, <1>2, <2>2, <5>1
      <4> QED
        BY <2>4, <4>1, <4>2
    <3>3. playing' # None => playing' <= requests'
      BY <1>1, <1>2, <2>2, Numbers DEF Fresh
    <3> QED
      BY <1>2, <3>1, <3>2, <3>3 DEF Fresh
  <2>9. PlayFirst'
    BY <1>2, <1>3, <2>4, <2>6 DEF PlayFirst, Fresh
  <2> QED
    BY <2>4, <2>7, <2>8, <2>9
<1> QED
  BY <1>4, <1>5 DEF Record

\* Commands keep recordings and their events together.
LEMMA CommandRecords ==
  ASSUME Inv, Command
  PROVE  RecordInv'
<1>1. ASSUME NEW interrupts \in BOOLEAN, NewPrompt(interrupts), Asked,
             UNCHANGED <<recorders, told, silenced, lost>>,
             pending' = None \/ (pending' # None /\ pending'.id = requests + 1)
      PROVE  RecordInv'
  <2>1. requests + 1 \in Id /\ requests' = requests + 1 /\ playing' = requests + 1
    BY <1>1, Apart DEF Inv, Asked, NewPrompt, TypeOK, Id
  <2>2. told[requests + 1] = "no" /\ \A r \in recorders : r.id # requests + 1
    BY <2>1, Numbers DEF Inv, RecordInv, Fresh
  <2>3. RecordTold' /\ OneFile' /\ OneId'
    BY <1>1 DEF Inv, RecordInv, RecordTold, OneFile, OneId
  <2>4. Fresh'
    BY <1>1, <2>1, <2>2, Numbers DEF Inv, RecordInv, Fresh
  <2>5. PlayFirst'
    BY <1>1, <2>1, <2>2 DEF PlayFirst
  <2> QED
    BY <2>3, <2>4, <2>5 DEF RecordInv
<1>2. ASSUME NEW interrupts \in BOOLEAN, Play(interrupts)
      PROVE  RecordInv'
  BY <1>1, <1>2 DEF Play, Superseded
<1>3. ASSUME NEW file \in Files, NEW gated \in BOOLEAN, NEW interrupts \in BOOLEAN,
             NEW guarded \in BOOLEAN, PlayRecord(file, gated, interrupts, guarded)
      PROVE  RecordInv'
  <2>1. pending' \in Pending /\ pending'.id = requests + 1
    BY <1>3, Apart DEF Inv, PlayRecord, Asked, TypeOK, Id, Pending
  <2> QED
    BY <1>1, <1>3, <2>1, Apart DEF PlayRecord
<1>4. ASSUME NEW file \in Files, NEW gated \in BOOLEAN, Record(file, gated)
      PROVE  RecordInv'
  BY <1>4, RecordRecords
<1>5. ASSUME NEW file \in Files, Resume(file)
      PROVE  RecordInv'
  BY <1>5, StateRecords DEF Resume, Superseded, Paused
<1>6. ASSUME NEW file \in Files, RecordFinish(file)
      PROVE  RecordInv'
  BY <1>6, FinishRecords DEF RecordFinish, prompt
<1>7. ASSUME NEW file \in Files, NEW state \in {"active", "paused"}, RecordSetPaused(file, state)
      PROVE  RecordInv'
  BY <1>7, StateRecords DEF RecordSetPaused, prompt
<1>8. ASSUME CreateWriteStream \/ DestroyWriteStream \/ EnterMix \/ LeaveMix
      PROVE  RecordInv'
  BY <1>8, RecordsRest
     DEF CreateWriteStream, DestroyWriteStream, EnterMix, LeaveMix, Asked, Superseded, prompt
<1>9. ASSUME Close
      PROVE  RecordInv'
  <2>1. recorders' = {} /\ pending' = None /\ UNCHANGED <<requests, silenced, lost>>
    BY <1>9 DEF Close, Dropped, Superseded
  <2>2. playing' \in {playing, None} /\ (pending # None => playing' = None)
    BY <1>9 DEF Close, Inv, PromptInv, PromptOwns
  <2>3. \A i \in Id :
          IF (\E r \in recorders : r.id = i) \/ (pending # None /\ pending.id = i)
            THEN told'[i] = "finished" ELSE told'[i] = told[i]
    BY <1>9 DEF Close
  <2>4. RecordTold'
    BY <2>1, <2>3 DEF Inv, RecordInv, RecordTold
  <2>5. OneFile' /\ OneId'
    BY <2>1 DEF OneFile, OneId
  <2>6. Fresh'
    BY <2>1, <2>2, <2>3, Numbers DEF Inv, RecordInv, Fresh
  <2>7. PlayFirst'
    BY <2>2, <2>3, Numbers DEF Inv, RecordInv, Fresh, PlayFirst
  <2> QED
    BY <2>4, <2>5, <2>6, <2>7 DEF RecordInv
<1>10. ASSUME Lose
       PROVE  RecordInv'
  <2>1. /\ recorders' = {} /\ pending' = None /\ lost' = TRUE
        /\ UNCHANGED <<requests, silenced, playing, told>>
    BY <1>10 DEF Lose, Dropped, Superseded
  <2> QED
    BY <2>1 DEF Inv, RecordInv, RecordTold, OneFile, OneId, Fresh, PlayFirst
<1> QED
  BY <1>2, <1>3, <1>4, <1>5, <1>6, <1>7, <1>8, <1>9, <1>10 DEF Command

\* Parts of the tick do, too.
LEMMA TickRecords ==
  ASSUME Inv, TickPart
  PROVE  RecordInv'
<1>1. ASSUME PromptEnds, UNCHANGED <<requests, lost>>
      PROVE  RecordInv'
  <2>1. playing' = None /\ pending' = None
    BY <1>1, PromptEndsTypes
  <2>2. /\ OneFile'
        /\ OneId'
        /\ \A i \in Id : told'[i] = "recording" =>
             lost \/ i \in silenced' \/ \E r \in recorders' : r.id = i
        /\ \A r \in recorders' : told'[r.id] # "finished" /\ r.id <= requests /\ r.id \in Id
        /\ \A i \in Id : i > requests => told'[i] = "no"
    <3>1. recorders' \subseteq Recorder
      BY <1>1, PromptEndsTypes
    <3>2. \A r \in recorders' : r.id \in Id
      BY <3>1 DEF Recorder
    <3> QED
      BY <1>1, <3>2, ActivateKeeps DEF Inv, PromptInv, PromptEnds
  <2>3. RecordTold'
    BY <1>1, <2>2 DEF RecordTold
  <2>4. Fresh'
    BY <1>1, <2>1, <2>2, Numbers DEF Fresh, Inv
  <2>5. PlayFirst'
    BY <2>1, Apart DEF PlayFirst
  <2> QED
    BY <2>2, <2>3, <2>4, <2>5 DEF RecordInv
<1>2. ASSUME UNCHANGED <<recorders, told, silenced, requests, lost, pending>>, playing' \in {playing, None}
      PROVE  RecordInv'
  BY <1>2, RecordsRest
<1>3. ASSUME NEW r \in recorders, FeedRecorder(r)
      PROVE  RecordInv'
  <2>1. CASE UNCHANGED <<recorders, told>>
    BY <1>2, <1>3, <2>1 DEF FeedRecorder, prompt
  <2>2. CASE /\ recorders' = (recorders \ {r}) \cup {[r EXCEPT !.state = "active"]}
             /\ told' = [told EXCEPT ![r.id] = "recording"]
    BY <1>3, <2>2, StateRecords DEF FeedRecorder, prompt
  <2>3. CASE /\ recorders' = recorders \ {r}
             /\ told' = [told EXCEPT ![r.id] = "finished"]
    BY <1>3, <2>3, FinishRecords DEF FeedRecorder, prompt
  <2> QED
    BY <1>3, <2>1, <2>2, <2>3 DEF FeedRecorder
<1> QED
  BY <1>1, <1>2, <1>3
     DEF TickPart, TickBegins, Digit, Drained, TickPlayer, TickWriter, BargeIn, Listen, TickEnds, prompt

-----------------------------------------------------------------------------
(* Theorems *)

\* Everything holds at the start.
LEMMA InitHolds == Init => Inv
<1> SUFFICES ASSUME Init PROVE Inv
  OBVIOUS
<1> USE DEF Init
<1>1. TypeOK /\ Fed
  <2>1. requests \in 0 .. MaxRequests
    BY Apart
  <2>2. told \in [Id -> {"no", "recording", "finished"}]
    OBVIOUS
  <2> QED
    BY <2>1, <2>2 DEF TypeOK, Fed
<1>2. PromptInv
  BY DEF PromptInv, PromptOwns, PlayTold, Sources
<1>3. RecordInv
  BY Apart DEF RecordInv, RecordTold, OneFile, OneId, Fresh, PlayFirst
<1> QED
  BY <1>1, <1>2, <1>3 DEF Inv

\* Everything is kept by each step.
LEMMA StepHolds == Inv /\ [Next]_vars => Inv'
<1> SUFFICES ASSUME Inv, [Next]_vars PROVE Inv'
  OBVIOUS
<1>1. CASE Command
  BY <1>1, CommandTypes, CommandPrompts, CommandRecords DEF Inv
<1>2. CASE TickPart
  BY <1>2, TickTypes, TickPrompts, TickRecords DEF Inv
<1>3. CASE UNCHANGED vars
  <2>1. TypeOK' /\ Fed'
    BY <1>3 DEF Inv, vars, tick, prompt, TypeOK, Fed
  <2>2. PromptInv'
    BY <1>3 DEF Inv, vars, tick, prompt, PromptInv, PromptOwns, PlayTold, Sources
  <2>3. RecordInv'
    BY <1>3, RecordsRest DEF vars, prompt
  <2> QED
    BY <2>1, <2>2, <2>3 DEF Inv
<1> QED
  BY <1>1, <1>2, <1>3 DEF Next

\* The invariant that carries the theorems below.
THEOREM InvHolds == Spec => []Inv
BY InitHolds, StepHolds, PTL DEF Spec

\* The subsystems of a channel (actor.rs) and what is kept of its events stay
\* in range; only recorders that are there are fed.
THEOREM TypeCorrect == Spec => []TypeOK
<1>1. Inv => TypeOK
  BY DEF Inv
<1> QED
  BY <1>1, InvHolds, PTL

\* A pending recording, its prebuffer and the barge-in always belong to the
\* prompt that plays, whichever commands, digits and hand-overs end prompts.
THEOREM PromptOwnsHolds == Spec => []PromptOwns
<1>1. Inv => PromptOwns
  BY DEF Inv, PromptInv
<1> QED
  BY <1>1, InvHolds, PTL

\* play/start and play/end events follow the player (actor.rs, tick.rs, mixer.rs),
\* unless a prompt was started over a writer or a mixer dropped the state.
THEOREM PlayToldHolds == Spec => []PlayTold
<1>1. Inv => PlayTold
  BY DEF Inv, PromptInv
<1> QED
  BY <1>1, InvHolds, PTL

\* A recording told of stays open until it is told to be finished, unless a
\* playrecord took its file or a mixer dropped the state; none is told to be
\* finished while it goes on.
THEOREM RecordToldHolds == Spec => []RecordTold
<1>1. Inv => RecordTold
  BY DEF Inv, RecordInv
<1> QED
  BY <1>1, InvHolds, PTL

\* No file ever has two recorders.
THEOREM OneFileHolds == Spec => []OneFile
<1>1. Inv => OneFile
  BY DEF Inv, RecordInv
<1> QED
  BY <1>1, InvHolds, PTL

\* The events of a playrecord's recording come after the end of its prompt.
THEOREM PlayFirstHolds == Spec => []PlayFirst
<1>1. Inv => PlayFirst
  BY DEF Inv, RecordInv
<1> QED
  BY <1>1, InvHolds, PTL
=============================================================================
