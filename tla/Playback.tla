------------------------------ MODULE Playback ------------------------------
(***************************************************************************)
(* What one channel plays and records: the subsystems of                   *)
(* src/rust/src/channel/actor.rs under the commands and ticks of the actor *)
(* (tick.rs) and, in a mix, under their twins in mixer.rs.                 *)
(*                                                                         *)
(* A prompt, a writer and a recording are known by the number of the       *)
(* request that asked for them.  A playrecord asks for a prompt, and for a *)
(* recording that is pending until the prompt ends; meanwhile the          *)
(* prebuffer collects what the caller says, and bargein may end the prompt *)
(* early.  A tick is modelled part by part; commands come between ticks.   *)
(*                                                                         *)
(* "playing" and "told" are what JavaScript knows from the events: a tick  *)
(* posts its own in order when it ends.                                    *)
(***************************************************************************)
EXTENDS Naturals

CONSTANTS
  Files,
  MaxRequests,  \* bound: plays, recordings and writers
  None

ASSUME PlaybackAssumption ==
  /\ MaxRequests \in Nat
  /\ None \notin Nat
  /\ None \notin [id : Nat, interrupts : BOOLEAN]
  /\ None \notin [id : Nat, file : Files, gated : BOOLEAN]
  /\ None \notin [id : Nat, file : Files, state : {"gated", "active", "paused"}]

Id == 1 .. MaxRequests

Prompt    == [id : Id, interrupts : BOOLEAN]
Pending   == [id : Id, file : Files, gated : BOOLEAN]
Recorder  == [id : Id, file : Files, state : {"gated", "active", "paused"}]

VARIABLES
  mode,       \* the state is "local", "mixed" or "gone"
  phase,      \* "idle", or the part of the tick that is next
  digit,      \* tick: a digit has been reported
  inbound,    \* tick: sound has come in
  outbound,   \* tick: player or writer has a frame
  unfed,      \* tick: the recorders not yet fed
  player,     \* the prompt, or None
  bargein,    \* the request that asked for barge-in, or None
  pending,    \* pending_recorder, or None
  prebuffer,  \* the prompts during which its samples came
  writer,     \* the writer, or None
  recorders,
  requests,   \* the requests so far
  playing,    \* JavaScript: the prompt that has started and not ended, or None
  told,       \* JavaScript: "no", "recording" or "finished", for each request
  clashed,    \* history: a prompt was started while there was a writer
  silenced,   \* history: recordings closed without an event by a playrecord
  lost        \* history: a mixer has dropped the state

tick == <<phase, digit, inbound, outbound, unfed>>
prompt == <<player, bargein, pending, prebuffer>>
vars == <<mode, tick, prompt, writer, recorders, requests, playing, told, clashed, silenced, lost>>

TypeOK ==
  /\ mode \in {"local", "mixed", "gone"}
  /\ phase \in {"idle", "dtmf", "player", "writer", "listen", "recorders"}
  /\ digit \in BOOLEAN
  /\ inbound \in BOOLEAN
  /\ outbound \in BOOLEAN
  /\ unfed \subseteq recorders
  /\ player \in Prompt \cup {None}
  /\ bargein \in Id \cup {None}
  /\ pending \in Pending \cup {None}
  /\ prebuffer \subseteq Id
  /\ writer \in Id \cup {None}
  /\ recorders \subseteq Recorder
  /\ requests \in 0 .. MaxRequests
  /\ playing \in Id \cup {None}
  /\ told \in [Id -> {"no", "recording", "finished"}]
  /\ clashed \in BOOLEAN
  /\ silenced \subseteq Id
  /\ lost \in BOOLEAN

Init ==
  /\ mode = "local"
  /\ phase = "idle"
  /\ digit = FALSE
  /\ inbound = FALSE
  /\ outbound = FALSE
  /\ unfed = {}
  /\ player = None
  /\ bargein = None
  /\ pending = None
  /\ prebuffer = {}
  /\ writer = None
  /\ recorders = {}
  /\ requests = 0
  /\ playing = None
  /\ told = [i \in Id |-> "no"]
  /\ clashed = FALSE
  /\ silenced = {}
  /\ lost = FALSE

-----------------------------------------------------------------------------
(* Parts of actions. *)

\* Commands wait for the tick to end.
Between == phase = "idle" /\ mode # "gone"

\* A request, if the bound allows.
Asked == Between /\ requests < MaxRequests /\ requests' = requests + 1

\* Mutant of Unguarded: barge-in outlives its prompt.
UnguardedNot == bargein

\* The barge-in that is left when another source takes the prompt's place.
Unguarded == IF player # None THEN None ELSE bargein

\* pending_recorder and prebuffer are emptied.
Superseded == pending' = None /\ prebuffer' = {}

\* Recorders with the file, or None if there is none.
Same(file) ==
  IF \E r \in recorders : r.file = file THEN {r \in recorders : r.file = file} ELSE {None}

\* A recorder opens, in place of one of the same file.
Opened(id, file, gated, old) ==
  recorders' = (recorders \ {old})
                 \cup {[id |-> id, file |-> file, state |-> IF gated THEN "gated" ELSE "active"]}

\* What is told when a recorder opens.
Announced(id, gated) == IF gated THEN told ELSE [told EXCEPT ![id] = "recording"]

\* activate_pending_recorder: the file opens, or not.
Activate ==
  \/ /\ pending = None
     /\ UNCHANGED <<pending, prebuffer, recorders, told, silenced>>
  \/ /\ pending # None
     /\ Superseded
     /\ \/ \E old \in Same(pending.file) :
             /\ Opened(pending.id, pending.file, pending.gated, old)
             /\ told' = Announced(pending.id, pending.gated)
             /\ silenced' = IF old = None THEN silenced ELSE silenced \cup {old.id}
        \/ /\ told' = [told EXCEPT ![pending.id] = "finished"]
           /\ UNCHANGED <<recorders, silenced>>

\* The prompt ends in a tick: its play/end comes before the events of the
\* recording that it held back.
PromptEnds ==
  /\ player' = None
  /\ bargein' = None
  /\ playing' = None
  /\ Activate

-----------------------------------------------------------------------------
(* Commands, local or forwarded to the mixer. *)

\* A prompt starts; one that was playing is told to end first.
NewPrompt(interrupts) ==
  /\ player' = [id |-> requests + 1, interrupts |-> interrupts]
  /\ playing' = requests + 1
  /\ clashed' = (clashed \/ writer # None)

Play(interrupts) ==
  /\ Asked
  /\ NewPrompt(interrupts)
  /\ bargein' = Unguarded
  /\ Superseded
  /\ UNCHANGED <<mode, tick, writer, recorders, told, silenced, lost>>

\* Its own prompt may be ended by a digit, by barge-in, or by both.
PlayRecord(file, gated, interrupts, guarded) ==
  /\ Asked
  /\ NewPrompt(interrupts)
  /\ bargein' = IF guarded THEN requests + 1 ELSE Unguarded
  /\ pending' = [id |-> requests + 1, file |-> file, gated |-> gated]
  /\ prebuffer' = {}
  /\ UNCHANGED <<mode, tick, writer, recorders, told, silenced, lost>>

Paused(file) == {r \in recorders : r.file = file /\ r.state = "paused"}

\* record for a file whose recorder is paused.
Resume(file) ==
  /\ Between
  /\ Superseded
  /\ \E r \in Paused(file) :
       /\ recorders' = (recorders \ {r}) \cup {[r EXCEPT !.state = "active"]}
       /\ told' = [told EXCEPT ![r.id] = "recording"]
  /\ UNCHANGED <<mode, tick, player, bargein, writer, requests, playing, clashed, silenced, lost>>

\* Mutant of Replaced: the recorder that is replaced is not told to be finished.
ReplacedQuietly(old) == told

\* What is told of a recorder that another takes the file of.
Replaced(old) == IF old = None THEN told ELSE [told EXCEPT ![old.id] = "finished"]

\* record for another file, which opens or does not.
Record(file, gated) ==
  LET id == requests + 1 IN
  /\ Asked
  /\ Superseded
  /\ Paused(file) = {}
  /\ \/ \E old \in Same(file) :
          /\ Opened(id, file, gated, old)
          /\ told' = [Replaced(old) EXCEPT ![id] = IF gated THEN "no" ELSE "recording"]
     \/ /\ told' = [told EXCEPT ![id] = "finished"]
        /\ UNCHANGED recorders
  /\ UNCHANGED <<mode, tick, player, bargein, writer, playing, clashed, silenced, lost>>

RecordFinish(file) ==
  /\ Between
  /\ \E r \in recorders :
       /\ r.file = file
       /\ recorders' = recorders \ {r}
       /\ told' = [told EXCEPT ![r.id] = "finished"]
  /\ UNCHANGED <<mode, tick, prompt, writer, requests, playing, clashed, silenced, lost>>

RecordSetPaused(file, state) ==
  /\ Between
  /\ \E r \in recorders :
       /\ r.file = file
       /\ (r.state = "paused") = (state = "active")
       /\ recorders' = (recorders \ {r}) \cup {[r EXCEPT !.state = state]}
  /\ UNCHANGED <<mode, tick, prompt, writer, requests, playing, told, clashed, silenced, lost>>

CreateWriteStream ==
  /\ Asked
  /\ writer' = requests + 1
  /\ player' = None
  /\ bargein' = Unguarded
  /\ playing' = IF player # None THEN None ELSE playing
  /\ Superseded
  /\ UNCHANGED <<mode, tick, recorders, told, clashed, silenced, lost>>

DestroyWriteStream ==
  /\ Between
  /\ writer' = None
  /\ UNCHANGED <<mode, tick, prompt, recorders, requests, playing, told, clashed, silenced, lost>>

\* Mutant of EnterMix: JavaScript is not told that the prompt ends.
EnterMixQuietly ==
  /\ Between
  /\ mode = "local"
  /\ mode' = "mixed"
  /\ player' = None
  /\ bargein' = Unguarded
  /\ Superseded
  /\ UNCHANGED <<tick, writer, recorders, requests, playing, told, clashed, silenced, lost>>

EnterMix ==
  /\ Between
  /\ mode = "local"
  /\ mode' = "mixed"
  /\ player' = None
  /\ bargein' = Unguarded
  /\ playing' = IF player # None THEN None ELSE playing
  /\ Superseded
  /\ UNCHANGED <<tick, writer, recorders, requests, told, clashed, silenced, lost>>

LeaveMix ==
  /\ Between
  /\ mode = "mixed"
  /\ mode' = "local"
  /\ UNCHANGED <<tick, prompt, writer, recorders, requests, playing, told, clashed, silenced, lost>>

\* The subsystems are dropped.
Dropped ==
  /\ mode' = "gone"
  /\ player' = None
  /\ bargein' = None
  /\ Superseded
  /\ writer' = None
  /\ recorders' = {}
  /\ UNCHANGED <<tick, requests, clashed, silenced>>

\* The end of run: what plays, records or is pending is told to end.
Close ==
  /\ Between
  /\ Dropped
  /\ playing' = IF player # None THEN None ELSE playing
  /\ told' = [i \in Id |->
       IF (\E r \in recorders : r.id = i) \/ (pending # None /\ pending.id = i)
         THEN "finished" ELSE told[i]]
  /\ UNCHANGED lost

\* The mixer sweeps the member, or has never taken it.
Lose ==
  /\ Between
  /\ mode = "mixed"
  /\ Dropped
  /\ lost' = TRUE
  /\ UNCHANGED <<playing, told>>

-----------------------------------------------------------------------------
(* The tick. *)

TickBegins ==
  /\ Between
  /\ phase' = "dtmf"
  /\ UNCHANGED <<mode, digit, inbound, outbound, unfed, prompt, writer, recorders, requests,
                 playing, told, clashed, silenced, lost>>

\* A packet reports a digit, which ends a prompt that it may interrupt.
Digit ==
  /\ phase = "dtmf"
  /\ digit' = TRUE
  /\ \/ player # None /\ player.interrupts /\ PromptEnds
     \/ /\ ~(player # None /\ player.interrupts)
        /\ UNCHANGED <<prompt, recorders, playing, told, silenced>>
  /\ UNCHANGED <<mode, phase, inbound, outbound, unfed, writer, requests, clashed, lost>>

\* The drain is over, with a packet of sound or without.  A mixer that has seen
\* digits only leaves the rest out.
Drained ==
  /\ phase = "dtmf"
  /\ inbound' \in BOOLEAN
  /\ digit' = FALSE
  /\ phase' = IF mode = "mixed" /\ digit /\ ~inbound' THEN "recorders" ELSE "player"
  /\ UNCHANGED <<mode, outbound, unfed, prompt, writer, recorders, requests, playing, told,
                 clashed, silenced, lost>>

\* tick_player
TickPlayer ==
  /\ phase = "player"
  /\ phase' = "writer"
  /\ \/ /\ player = None
        /\ UNCHANGED <<outbound, prompt, recorders, playing, told, silenced>>
     \/ /\ player # None
        /\ outbound' \in BOOLEAN
        /\ PromptEnds \/ UNCHANGED <<prompt, recorders, playing, told, silenced>>
  /\ UNCHANGED <<mode, digit, inbound, unfed, writer, requests, clashed, lost>>

\* tick_writer
TickWriter ==
  /\ phase = "writer"
  /\ phase' = "listen"
  /\ \/ UNCHANGED <<outbound, writer, playing>>
     \/ writer # None /\ outbound' = TRUE /\ UNCHANGED <<writer, playing>>
     \/ /\ writer # None
        /\ outbound' \in {outbound, TRUE}
        /\ writer' = None
        /\ playing' = None
  /\ UNCHANGED <<mode, digit, inbound, unfed, prompt, recorders, requests, told, clashed,
                 silenced, lost>>

\* The recorders are fed with the tick's sound; in a mix, only with what comes
\* in while the channel receives.
Feeds ==
  /\ phase' = "recorders"
  /\ unfed' \in IF mode = "local" THEN {IF inbound \/ outbound THEN recorders' ELSE {}}
                ELSE {{}} \cup (IF inbound THEN {recorders'} ELSE {})
  /\ inbound' = FALSE
  /\ outbound' = FALSE

\* run_bargein finds the caller loud enough.
BargeIn ==
  /\ phase = "listen"
  /\ inbound
  /\ bargein # None
  /\ player # None
  /\ PromptEnds
  /\ Feeds
  /\ UNCHANGED <<mode, digit, writer, requests, clashed, lost>>

\* It does not; accumulate_prebuffer keeps the sound if a recording is pending.
Listen ==
  /\ phase = "listen"
  /\ prebuffer' = IF player # None /\ pending # None /\ inbound
                  THEN prebuffer \cup {player.id} ELSE prebuffer
  /\ UNCHANGED <<mode, digit, player, bargein, pending, writer, recorders, requests, playing,
                 told, clashed, silenced, lost>>
  /\ Feeds

\* write_frame on a recorder, and what is told of it: a gate may open, and what
\* is active may finish.
FeedRecorder(r) ==
  /\ phase = "recorders"
  /\ r \in unfed
  /\ unfed' = unfed \ {r}
  /\ \/ UNCHANGED <<recorders, told>>
     \/ /\ r.state = "gated"
        /\ recorders' = (recorders \ {r}) \cup {[r EXCEPT !.state = "active"]}
        /\ told' = [told EXCEPT ![r.id] = "recording"]
     \/ /\ r.state # "paused"
        /\ recorders' = recorders \ {r}
        /\ told' = [told EXCEPT ![r.id] = "finished"]
  /\ UNCHANGED <<mode, phase, digit, inbound, outbound, prompt, writer, requests, playing,
                 clashed, silenced, lost>>

TickEnds ==
  /\ phase = "recorders"
  /\ unfed = {}
  /\ phase' = "idle"
  /\ inbound' = FALSE
  /\ UNCHANGED <<mode, digit, outbound, unfed, prompt, writer, recorders, requests, playing,
                 told, clashed, silenced, lost>>

Command ==
  \/ \E i \in BOOLEAN : Play(i)
  \/ \E f \in Files, g, i, b \in BOOLEAN : PlayRecord(f, g, i, b)
  \/ \E f \in Files, g \in BOOLEAN : Record(f, g)
  \/ \E f \in Files : Resume(f) \/ RecordFinish(f)
  \/ \E f \in Files, s \in {"active", "paused"} : RecordSetPaused(f, s)
  \/ CreateWriteStream
  \/ DestroyWriteStream
  \/ EnterMix
  \/ LeaveMix
  \/ Close
  \/ Lose

TickPart ==
  \/ TickBegins
  \/ Digit
  \/ Drained
  \/ TickPlayer
  \/ TickWriter
  \/ BargeIn
  \/ Listen
  \/ \E r \in recorders : FeedRecorder(r)
  \/ TickEnds

Next == Command \/ TickPart

Spec == Init /\ [][Next]_vars
-----------------------------------------------------------------------------

\* What waits for a prompt to end, or may end it, belongs to the prompt that
\* plays: no recording is stranded, and none gets the sound of another prompt.
PromptOwns ==
  /\ pending # None => player # None /\ player.id = pending.id
  /\ bargein # None => player # None /\ player.id = bargein
  /\ prebuffer # {} => pending # None /\ prebuffer = {pending.id}

\* JavaScript is told of every prompt's start and end, in order and in time,
\* also when it is replaced, interrupted, taken into a mix or closed.
PlayTold ==
  ~clashed /\ ~lost => playing = IF player = None THEN None ELSE player.id

\* A recording that JavaScript was told of is still open, until it is told to be
\* finished; none is finished twice, or while it goes on.
RecordTold ==
  /\ \A i \in Id : told[i] = "recording" =>
       lost \/ i \in silenced \/ \E r \in recorders : r.id = i
  /\ \A r \in recorders : told[r.id] # "finished"

\* No two recorders write to one file.
OneFile == \A r, s \in recorders : r.file = s.file => r = s

\* The recording of a playrecord is announced after the end of its prompt.
PlayFirst == \A i \in Id : told[i] # "no" => playing # i
=============================================================================
