------------------------------ MODULE Writers ------------------------------
(***************************************************************************)
(* Live audio from JavaScript into a channel: the writable streams of      *)
(* createWriteStream, from index.js over facade.rs to audio_writer.rs of   *)
(* src/rust/src/channel.                                                   *)
(*                                                                         *)
(* JavaScript runs on its own thread.  It reaches the channel's task by a  *)
(* bounded queue of commands, and a writer by a bounded queue of chunks    *)
(* whose sender the facade keeps: taking it away ends the writer, which    *)
(* the tick finds when the queue is empty.  In a mix the commands go on to *)
(* the mixer and a tick may come before them, so none is put first here.   *)
(* The samples of a writer are numbered.                                   *)
(***************************************************************************)
EXTENDS Naturals, Sequences, FiniteSets, SequencesExt, StreamCommands

CONSTANTS
  MaxWriters,  \* writers are numbered as they are made
  Chunks,      \* how many samples are written at once
  MaxSamples,  \* of a writer
  Frame,       \* samples of a tick
  QueueDepth,  \* chunks between JavaScript and the writer
  None

ASSUME WritersAssumption ==
  /\ {MaxWriters, MaxSamples} \subseteq Nat
  /\ {Frame, QueueDepth, CmdDepth} \subseteq Nat \ {0}
  /\ Chunks \subseteq Nat \ {0}
  /\ None \notin Nat \cup Seq(Nat)

Writer == 1 .. MaxWriters

VARIABLES
  writer,     \* subs.writer, or None
  buffered,   \* its samples
  queue,      \* chunks on their way to a writer
  senders,    \* write_senders: the writers that JavaScript may push to
  writable,   \* the Writable of a writer
  pending,    \* the chunk it is pushing, or None
  written,    \* how many samples it has been given
  played,     \* the samples a writer has played
  told,       \* how often play/end was posted for a writer
  halted      \* writers that were destroyed by request, or lost to another

writers == <<writer, buffered, queue, senders, writable, pending, written, played, told, halted>>
writersVars == <<open, cmds, writers>>

Sample == 1 .. MaxSamples

WritersTypeOK ==
  /\ open \in BOOLEAN
  /\ cmds \in Seq(Command(Writer)) /\ Len(cmds) <= CmdDepth
  /\ writer \in Writer \cup {None}
  /\ buffered \in Seq(Sample)
  /\ queue \in [Writer -> Seq(Seq(Sample))]
  /\ \A w \in Writer : Len(queue[w]) <= QueueDepth
  /\ senders \subseteq Writer
  /\ writable \in [Writer -> {"none", "open", "ending", "finished", "destroyed"}]
  /\ pending \in [Writer -> Seq(Sample) \cup {None}]
  /\ written \in [Writer -> 0 .. MaxSamples]
  /\ played \in [Writer -> Seq(Sample)]
  /\ told \in [Writer -> 0 .. 1]
  /\ halted \subseteq Writer

WritersInit ==
  /\ open = TRUE
  /\ cmds = <<>>
  /\ writer = None
  /\ buffered = <<>>
  /\ queue = [w \in Writer |-> <<>>]
  /\ senders = {}
  /\ writable = [w \in Writer |-> "none"]
  /\ pending = [w \in Writer |-> None]
  /\ written = [w \in Writer |-> 0]
  /\ played = [w \in Writer |-> <<>>]
  /\ told = [w \in Writer |-> 0]
  /\ halted = {}

-----------------------------------------------------------------------------
(* JavaScript. *)

\* The receiver of a writer's queue is in the channel or on its way there.
Alive(w) == open /\ (writer = w \/ \E i \in 1 .. Len(cmds) : cmds[i] = Create(w))

CreateWriteStream(w) ==
  /\ writable[w] = "none"
  /\ \A v \in Writer : v < w => writable[v] # "none"
  /\ TrySend(Create(w))
  /\ senders' = IF Accepts THEN senders \cup {w} ELSE senders
  /\ writable' = [writable EXCEPT ![w] = IF Accepts THEN "open" ELSE "destroyed"]
  /\ UNCHANGED <<open, writer, buffered, queue, pending, written, played, told, halted>>

\* A Writable hands on one chunk at a time; those behind wait in it.
Write(w) ==
  /\ writable[w] = "open"
  /\ pending[w] = None
  /\ \E n \in Chunks :
       /\ written[w] + n <= MaxSamples
       /\ written' = [written EXCEPT ![w] = @ + n]
       /\ pending' = [pending EXCEPT ![w] = [i \in 1 .. n |-> written[w] + i]]
  /\ UNCHANGED <<open, cmds, writer, buffered, queue, senders, writable, played, told, halted>>

\* Mutant of PushWriterBytes: the chunk is taken for pushed even if it is refused.
PushWriterBytesOnce(w) ==
  /\ pending[w] # None
  /\ queue' = IF w \in senders /\ Alive(w) /\ Len(queue[w]) < QueueDepth
                THEN [queue EXCEPT ![w] = Append(@, pending[w])] ELSE queue
  /\ pending' = [pending EXCEPT ![w] = None]
  /\ UNCHANGED <<open, cmds, writer, buffered, senders, writable, written, played, told, halted>>

\* push, tried again as long as it is refused, even if the stream is destroyed.
PushWriterBytes(w) ==
  /\ pending[w] # None
  /\ w \in senders
  /\ Alive(w)
  /\ Len(queue[w]) < QueueDepth
  /\ queue' = [queue EXCEPT ![w] = Append(@, pending[w])]
  /\ pending' = [pending EXCEPT ![w] = None]
  /\ UNCHANGED <<open, cmds, writer, buffered, senders, writable, written, played, told, halted>>

EndIsCalled(w) ==
  /\ writable[w] = "open"
  /\ writable' = [writable EXCEPT ![w] = "ending"]
  /\ UNCHANGED <<open, cmds, writer, buffered, queue, senders, pending, written, played, told, halted>>

\* final, when all has been written.
EndWriteStream(w) ==
  /\ writable[w] = "ending"
  /\ pending[w] = None
  /\ writable' = [writable EXCEPT ![w] = "finished"]
  /\ senders' = senders \ {w}
  /\ UNCHANGED <<open, cmds, writer, buffered, queue, pending, written, played, told, halted>>

DestroyWriteStream(w) ==
  /\ writable' = [writable EXCEPT ![w] = "destroyed"]
  /\ senders' = senders \ {w}
  /\ TrySend(Destroy(w))
  /\ UNCHANGED <<open, writer, buffered, queue, pending, written, played, told>>

\* A Writable that has finished is destroyed by Node.
AutoDestroy(w) ==
  /\ writable[w] = "finished"
  /\ DestroyWriteStream(w)
  /\ UNCHANGED halted

DestroyIsCalled(w) ==
  /\ writable[w] \in {"open", "ending"}
  /\ DestroyWriteStream(w)
  /\ halted' = halted \cup {w}

-----------------------------------------------------------------------------
(* The channel's task. *)

\* A writer before it is dropped, and its queue with it.
TakeCreateWriter ==
  /\ Take("create")
  /\ writer' = Head(cmds).id
  /\ buffered' = <<>>
  /\ queue' = IF writer = None THEN queue ELSE [queue EXCEPT ![writer] = <<>>]
  /\ halted' = IF writer = None THEN halted ELSE halted \cup {writer}
  /\ UNCHANGED <<open, senders, writable, pending, written, played, told>>

TakeDestroyWriter ==
  /\ Take("destroy")
  /\ \/ /\ writer = Head(cmds).id
        /\ writer' = None
        /\ buffered' = <<>>
        /\ queue' = [queue EXCEPT ![Head(cmds).id] = <<>>]
     \/ /\ writer # Head(cmds).id
        /\ UNCHANGED <<writer, buffered, queue>>
  /\ UNCHANGED <<open, senders, writable, pending, written, played, told, halted>>

\* All that the channel holds is dropped, the commands that wait for it, too.
CloseWriters ==
  /\ Take("close")
  /\ open' = FALSE
  /\ writer' = None
  /\ buffered' = <<>>
  /\ queue' = [w \in Writer |-> <<>>]
  /\ halted' = Writer
  /\ UNCHANGED <<senders, writable, pending, written, played, told>>

\* drain_receiver: all that is on its way, and whether more can come.
Drained == IF writer = None THEN <<>> ELSE buffered \o FlattenSeq(queue[writer])

Ended == writer \notin senders

\* next_frame_8k: a full one, or at the end what is left, padded.
NextFrame ==
  IF Len(Drained) >= Frame THEN SubSeq(Drained, 1, Frame)
  ELSE IF Ended THEN Drained
  ELSE <<>>

Rest == SubSeq(Drained, Len(NextFrame) + 1, Len(Drained))

\* Mutant of IsDrained: it does not wait for what is left.
IsDrainedAtOnce == Ended

\* Mutant of IsDrained: only a frame that is played can be the last.
IsDrainedOnFrame == Ended /\ NextFrame # <<>> /\ Len(Rest) < Frame

\* is_drained_and_ended
IsDrained == Ended /\ Len(Rest) < Frame

\* Mutant of TickWriter: the queue is not looked at before the writer has ended.
TickWriterAtEnd ==
  \/ /\ writer = None \/ ~Ended
     /\ UNCHANGED writers
  \/ /\ writer # None /\ Ended
     /\ queue' = [queue EXCEPT ![writer] = <<>>]
     /\ buffered' = IF IsDrained THEN <<>> ELSE Rest
     /\ played' = [played EXCEPT ![writer] = @ \o NextFrame]
     /\ writer' = IF IsDrained THEN None ELSE writer
     /\ told' = IF IsDrained THEN [told EXCEPT ![writer] = @ + 1] ELSE told
     /\ UNCHANGED <<senders, writable, pending, written, halted>>

TickWriter ==
  \/ /\ writer = None
     /\ UNCHANGED writers
  \/ /\ writer # None
     /\ queue' = [queue EXCEPT ![writer] = <<>>]
     /\ buffered' = IF IsDrained THEN <<>> ELSE Rest
     /\ played' = [played EXCEPT ![writer] = @ \o NextFrame]
     /\ \/ /\ IsDrained
           /\ writer' = None
           /\ told' = [told EXCEPT ![writer] = @ + 1]
        \/ /\ ~IsDrained
           /\ UNCHANGED <<writer, told>>
     /\ UNCHANGED <<senders, writable, pending, written, halted>>

TickWriters ==
  /\ open
  /\ TickWriter
  /\ UNCHANGED <<open, cmds>>

TakeWriterCommand == TakeCreateWriter \/ TakeDestroyWriter \/ CloseWriters

JavaScriptWrites ==
  \/ \E w \in Writer : CreateWriteStream(w) \/ Write(w) \/ EndIsCalled(w) \/ DestroyIsCalled(w)
  \/ CloseIsCalled /\ UNCHANGED writers

EventLoop == \E w \in Writer : PushWriterBytes(w) \/ EndWriteStream(w) \/ AutoDestroy(w)

WritersNext == JavaScriptWrites \/ EventLoop \/ TakeWriterCommand \/ TickWriters

WritersSpec == WritersInit /\ [][WritersNext]_writersVars

\* The threads run: the channel's task and the event loop, which
\* comes to every callback.
WritersFairSpec ==
  /\ WritersSpec
  /\ WF_writersVars(TakeWriterCommand)
  /\ WF_writersVars(TickWriters)
  /\ \A w \in Writer :
       /\ WF_writersVars(PushWriterBytes(w))
       /\ WF_writersVars(EndWriteStream(w))
       /\ WF_writersVars(AutoDestroy(w))
-----------------------------------------------------------------------------
(* What JavaScript can rely on. *)

\* What a writer plays is what it was given, in order and without a gap,
\* whatever is refused by its queue and tried again, and never behind its stop.
PlaysInOrder == \A w \in Writer : played[w] = [i \in 1 .. Len(played[w]) |-> i]

\* A writer's play/end comes once, after it ended, and nothing is left then but
\* less than a frame.
EndTold ==
  \A w \in Writer : told[w] > 0 =>
    /\ w \notin senders
    /\ writer # w
    /\ Len(played[w]) + Frame > written[w] \/ w \in halted

\* A write to the channel's writer returns, however full the queue was.
WritesReturn ==
  \A w \in Writer : pending[w] # None ~> pending[w] = None \/ ~Alive(w) \/ w \notin senders

\* A writer that has ended leaves the channel, even if the command to destroy it
\* was refused: it does not hold the channel's outbound side for ever.
WriterRetires ==
  \A w \in Writer : writable[w] \in {"finished", "destroyed"} ~> writer # w

\* Neither JavaScript nor the channel is held up by a stream.
StreamsGoOn == WritesReturn /\ WriterRetires

\* README.md says of end() that it flushes the tail: what was written before is
\* played, unless the writer is destroyed, loses its place or its channel.
Flushed ==
  \A w \in Writer : writable[w] = "destroyed" /\ w \notin halted /\ writer # w
                      /\ (\A i \in 1 .. Len(cmds) : cmds[i] # Create(w)) =>
    Len(played[w]) = written[w]
=============================================================================
