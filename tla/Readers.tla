------------------------------ MODULE Readers ------------------------------
(***************************************************************************)
(* Live audio from a channel to JavaScript: the readable streams of        *)
(* createReadStream, from audio_reader.rs over facade.rs of                *)
(* src/rust/src/channel to index.js.                                       *)
(*                                                                         *)
(* The tick feeds each reader a frame by a bounded queue and never waits.  *)
(* A forwarder of the reader's own takes the frames to a queue of calls    *)
(* for JavaScript's thread.  The reader in the channel holds the queue's   *)
(* only sender: dropping the reader ends the forwarder when the queue is   *)
(* empty, and its last call, of no bytes, ends the stream.                 *)
(* A frame is the number of its tick.                                      *)
(***************************************************************************)
EXTENDS Naturals, Sequences, StreamCommands

CONSTANTS
  MaxReaders,  \* readers are numbered as they are made
  MaxTicks,
  FrameDepth   \* FRAME_QUEUE_DEPTH

ASSUME ReadersAssumption ==
  /\ {MaxReaders, MaxTicks} \subseteq Nat
  /\ {FrameDepth, CmdDepth} \subseteq Nat \ {0}

Reader == 1 .. MaxReaders

\* What the forwarder calls JavaScript with after the last frame: no bytes.
End == 0

VARIABLES
  ticks,
  readers,    \* subs.readers
  frames,     \* of a reader, on their way to its forwarder
  drops,      \* of a reader: the frames it was fed and could not queue
  forwarding, \* readers whose forwarder lives
  calls,      \* of a forwarder, on their way to JavaScript
  readable,   \* the Readable of a reader
  got,        \* what was pushed to it
  since       \* the ticks before the reader came

reading == <<ticks, readers, frames, drops, forwarding, calls, readable, got, since>>
readersVars == <<open, cmds, reading>>

ReadersTypeOK ==
  /\ open \in BOOLEAN
  /\ cmds \in Seq(Command(Reader)) /\ Len(cmds) <= CmdDepth
  /\ ticks \in 0 .. MaxTicks
  /\ readers \subseteq Reader
  /\ frames \in [Reader -> Seq(1 .. MaxTicks)]
  /\ \A r \in Reader : Len(frames[r]) <= FrameDepth
  /\ drops \in [Reader -> 0 .. MaxTicks]
  /\ forwarding \subseteq Reader
  /\ calls \in [Reader -> Seq(0 .. MaxTicks)]
  /\ readable \in [Reader -> {"none", "open", "ended", "destroyed"}]
  /\ got \in [Reader -> Seq(1 .. MaxTicks)]
  /\ since \in [Reader -> 0 .. MaxTicks]

ReadersInit ==
  /\ open = TRUE
  /\ cmds = <<>>
  /\ ticks = 0
  /\ readers = {}
  /\ frames = [r \in Reader |-> <<>>]
  /\ drops = [r \in Reader |-> 0]
  /\ forwarding = {}
  /\ calls = [r \in Reader |-> <<>>]
  /\ readable = [r \in Reader |-> "none"]
  /\ got = [r \in Reader |-> <<>>]
  /\ since = [r \in Reader |-> 0]

-----------------------------------------------------------------------------
(* JavaScript. *)

\* The forwarder is started before the command is sent, and ends with no reader.
CreateReadStream(r) ==
  /\ readable[r] = "none"
  /\ \A q \in Reader : q < r => readable[q] # "none"
  /\ TrySend(Create(r))
  /\ forwarding' = forwarding \cup {r}
  /\ readable' = [readable EXCEPT ![r] = IF Accepts THEN "open" ELSE "destroyed"]
  /\ UNCHANGED <<open, ticks, readers, frames, drops, calls, got, since>>

\* Its result is not looked at: a full queue loses the command.
DestroyReadStream(r) ==
  /\ readable[r] = "open"
  /\ readable' = [readable EXCEPT ![r] = "destroyed"]
  /\ TrySend(Destroy(r))
  /\ UNCHANGED <<open, ticks, readers, frames, drops, forwarding, calls, got, since>>

\* The callback of createReadStream.
Called(r) ==
  /\ calls[r] # <<>>
  /\ calls' = [calls EXCEPT ![r] = Tail(@)]
  /\ \/ /\ readable[r] = "open" /\ Head(calls[r]) # End
        /\ got' = [got EXCEPT ![r] = Append(@, Head(calls[r]))]
        /\ UNCHANGED readable
     \/ /\ readable[r] = "open" /\ Head(calls[r]) = End
        /\ readable' = [readable EXCEPT ![r] = "ended"]
        /\ UNCHANGED got
     \/ /\ readable[r] # "open"
        /\ UNCHANGED <<readable, got>>
  /\ UNCHANGED <<open, cmds, ticks, readers, frames, drops, forwarding, since>>

-----------------------------------------------------------------------------
(* The forwarder of a reader. *)

\* Mutant of HasSender: a reader that still waits in the commands is overlooked.
HasSenderIn(r) == open /\ r \in readers

\* The sender is in the reader, or in the command that brings it.
HasSender(r) == open /\ (r \in readers \/ \E i \in 1 .. Len(cmds) : cmds[i] = Create(r))

Forward(r) ==
  /\ r \in forwarding
  /\ frames[r] # <<>>
  /\ frames' = [frames EXCEPT ![r] = Tail(@)]
  /\ calls' = [calls EXCEPT ![r] = Append(@, Head(frames[r]))]
  /\ UNCHANGED <<open, cmds, ticks, readers, drops, forwarding, readable, got, since>>

\* Mutant of ForwarderEnds: it does not say that it ends.
ForwarderEndsMute(r) ==
  /\ r \in forwarding
  /\ frames[r] = <<>>
  /\ ~HasSender(r)
  /\ forwarding' = forwarding \ {r}
  /\ UNCHANGED <<open, cmds, ticks, readers, frames, drops, calls, readable, got, since>>

ForwarderEnds(r) ==
  /\ r \in forwarding
  /\ frames[r] = <<>>
  /\ ~HasSender(r)
  /\ forwarding' = forwarding \ {r}
  /\ calls' = [calls EXCEPT ![r] = Append(@, End)]
  /\ UNCHANGED <<open, cmds, ticks, readers, frames, drops, readable, got, since>>

-----------------------------------------------------------------------------
(* The channel's task. *)

TakeCreateReader ==
  /\ Take("create")
  /\ readers' = readers \cup {Head(cmds).id}
  /\ since' = [since EXCEPT ![Head(cmds).id] = ticks]
  /\ UNCHANGED <<open, ticks, frames, drops, forwarding, calls, readable, got>>

TakeDestroyReader ==
  /\ Take("destroy")
  /\ readers' = readers \ {Head(cmds).id}
  /\ UNCHANGED <<open, ticks, frames, drops, forwarding, calls, readable, got, since>>

\* teardown: the readers are dropped, and the commands that wait, too.
CloseReaders ==
  /\ Take("close")
  /\ open' = FALSE
  /\ readers' = {}
  /\ UNCHANGED <<ticks, frames, drops, forwarding, calls, readable, got, since>>

\* A queue that is full takes no frame.
Full(r) == Len(frames[r]) >= FrameDepth

\* Mutant of Feed: the readers behind one whose queue is full are passed over.
FeedUntilFull ==
  LET Passed(r) == \E q \in readers : q < r /\ Full(q) IN
  /\ frames' = [r \in Reader |->
                  IF r \in readers /\ ~Full(r) /\ ~Passed(r) THEN Append(frames[r], ticks + 1)
                  ELSE frames[r]]
  /\ drops' = [r \in Reader |-> IF r \in readers /\ Full(r) THEN drops[r] + 1 ELSE drops[r]]

\* feed_readers.  The sweep behind it finds none: a forwarder outlives its reader.
Feed ==
  /\ frames' = [r \in Reader |-> IF r \in readers /\ ~Full(r) THEN Append(frames[r], ticks + 1)
                                 ELSE frames[r]]
  /\ drops' = [r \in Reader |-> IF r \in readers /\ Full(r) THEN drops[r] + 1 ELSE drops[r]]

TickReaders ==
  /\ open
  /\ ticks < MaxTicks
  /\ ticks' = ticks + 1
  /\ Feed
  /\ UNCHANGED <<open, cmds, readers, forwarding, calls, readable, got, since>>

TakeReaderCommand == TakeCreateReader \/ TakeDestroyReader \/ CloseReaders

JavaScriptReads ==
  \/ \E r \in Reader : CreateReadStream(r) \/ DestroyReadStream(r)
  \/ CloseIsCalled /\ UNCHANGED reading

Forwarder(r) == Forward(r) \/ ForwarderEnds(r)

ReadersNext == JavaScriptReads \/ TakeReaderCommand \/ TickReaders \/ \E r \in Reader : Called(r) \/ Forwarder(r)

ReadersSpec == ReadersInit /\ [][ReadersNext]_readersVars

\* The channel's task, the forwarders' and the event loop run, each in its
\* turn; what JavaScript asks for is up to the program.
ReadersFairSpec ==
  /\ ReadersSpec
  /\ WF_readersVars(TakeReaderCommand)
  /\ \A r \in Reader : WF_readersVars(Forwarder(r)) /\ WF_readersVars(Called(r))

-----------------------------------------------------------------------------
(* What JavaScript can rely on. *)

\* The frames of r that were not dropped, up to the tick's last, and its End.
Kept(r) == got[r] \o calls[r] \o frames[r]

\* A slow consumer costs its own reader frames and no other: what a reader in
\* the channel was fed since it came is delivered, on its way in order, or
\* counted as dropped.
FramesCounted ==
  \A r \in Reader :
    /\ \A i, j \in 1 .. Len(Kept(r)) : i < j /\ Kept(r)[j] # End => Kept(r)[i] < Kept(r)[j]
    /\ r \in readers /\ readable[r] = "open" => Len(Kept(r)) + drops[r] = ticks - since[r]

\* A reader in the channel has its forwarder, which was started before it came.
\* The call without bytes is the forwarder's last, so a stream that has ended was
\* given every frame that was not dropped.
EndIsLast ==
  \A r \in Reader :
    /\ r \in readers => r \in forwarding
    /\ \A i \in 1 .. Len(calls[r]) : calls[r][i] = End => i = Len(calls[r]) /\ r \notin forwarding
    /\ r \notin forwarding => frames[r] = <<>>
    /\ readable[r] = "ended" => calls[r] = <<>> /\ r \notin forwarding

\* When the channel has closed every stream that is not destroyed ends, and every
\* forwarder does.
StreamsEnd == \A r \in Reader : ~open ~> r \notin forwarding /\ readable[r] # "open"
=============================================================================
