-------------------------------- MODULE Soup --------------------------------
(***************************************************************************)
(* The way of a player through its sound soup: src/rust/src/channel/       *)
(* player.rs, with the reader of src/rust/src/soundfile.rs that it opens.  *)
(*                                                                         *)
(* Every tick asks for a frame; read goes round, opening, reading and      *)
(* leaving files, until the frame is full or the soup is finished.  Each   *)
(* turn of its loop awaits the disk and is an action.  A sample is known   *)
(* by its file's index and its position there; times are counted in        *)
(* samples of the output's rate, of which a file has ratio times as many.  *)
(***************************************************************************)
EXTENDS Integers, Sequences, SequencesExt

CONSTANTS
  Lengths,    \* of a file's data, in its own samples
  Ratios,     \* its rate as a multiple of the output's
  Starts,     \* start and stop of its trimming
  Stops,
  Loops,      \* how often a file is played, and the whole soup
  Overall,
  Forever,    \* a loop without end
  MaxFiles,
  SamplesWanted,  \* in a tick
  MaxReads,
  MaxFaults,
  Nothing     \* no stop, no file open, no read under way

ASSUME SoupAssumption ==
  /\ Lengths \cup Starts \subseteq Nat
  /\ Ratios \subseteq Nat \ {0}
  /\ Stops \subseteq Nat \cup {Nothing}
  /\ Loops \cup Overall \subseteq (Nat \ {0}) \cup {Forever}
  /\ SamplesWanted \in Nat \ {0}
  /\ {MaxFiles, MaxReads, MaxFaults} \subseteq Nat
  /\ Forever \notin Nat
  /\ Nothing \notin Int \cup Seq(Nat \X Nat)

File == [length : Lengths, ratio : Ratios, start : Starts, stop : Stops, loops : Loops]

\* A file's index and a position in it.
SoundSample == Nat \X Nat

VARIABLES
  files,       \* the soup: its files and how often all of them are played
  overall,
  index,       \* the player: the file
  reader,      \* the position in it, or Nothing when it is not open
  remaining,   \* samples left before its stop, or Nothing
  fileLoop,
  overallLoop,
  finished,
  frame,       \* what a read has got so far, or Nothing between reads
  returned,    \* all that reads have returned
  short,       \* a read has returned less than a frame
  reads,       \* bounds
  faults

soup == <<files, overall>>
place == <<index, fileLoop, overallLoop, finished>>
vars == <<soup, place, reader, remaining, frame, returned, short, reads, faults>>

TypeOK ==
  /\ files \in Seq(File)
  /\ overall \in Overall
  /\ index \in 1 .. Len(files) + 1
  /\ reader \in Nat \cup {Nothing}
  /\ remaining \in Nat \cup {Nothing}
  /\ fileLoop \in Nat
  /\ overallLoop \in Nat
  /\ finished \in BOOLEAN
  /\ frame \in Seq(SoundSample) \cup {Nothing}
  /\ frame # Nothing => Len(frame) <= SamplesWanted
  /\ returned \in Seq(SoundSample)
  /\ short \in BOOLEAN
  /\ reads \in 0 .. MaxReads
  /\ faults \in 0 .. MaxFaults

\* parse_soundsoup leaves at least one file that is there.
Init ==
  /\ files \in UNION {[1 .. n -> File] : n \in 1 .. MaxFiles}
  /\ overall \in Overall
  /\ index = 1
  /\ reader = Nothing
  /\ remaining = Nothing
  /\ fileLoop = 0
  /\ overallLoop = 0
  /\ finished = FALSE
  /\ frame = Nothing
  /\ returned = <<>>
  /\ short = FALSE
  /\ reads = 0
  /\ faults = 0

Smaller(a, b) == IF a < b THEN a ELSE b

Current == files[index]

-----------------------------------------------------------------------------
(* The loop of read. *)

ReadBegins ==
  /\ frame = Nothing
  /\ ~finished
  /\ reads < MaxReads
  /\ frame' = <<>>
  /\ reads' = reads + 1
  /\ UNCHANGED <<soup, place, reader, remaining, returned, short, faults>>

\* Mutant of Turns: what one file gives is enough.
TurnsOnce == frame = <<>> /\ ~finished

Turns == frame # Nothing /\ Len(frame) < SamplesWanted /\ ~finished

\* seek_ms: not behind the end of the data.
SeekTo(f) == Smaller(f.start * f.ratio, f.length)

\* Mutant of Window: the stop is taken for a duration.
WindowFromStart(f) == IF f.stop = Nothing THEN Nothing ELSE f.stop * f.ratio

\* Counted from start even if there is less data.
Window(f) ==
  IF f.stop = Nothing THEN Nothing
  ELSE IF f.stop > f.start THEN (f.stop - f.start) * f.ratio
  ELSE 0

OpenCurrent ==
  /\ Turns
  /\ reader = Nothing
  /\ reader' = SeekTo(Current)
  /\ remaining' = Window(Current)
  /\ UNCHANGED <<soup, place, frame, returned, short, reads, faults>>

\* The file went away after the soup was parsed, or is none.
OpenFails ==
  /\ Turns
  /\ reader = Nothing
  /\ faults < MaxFaults
  /\ faults' = faults + 1
  /\ finished' = TRUE
  /\ UNCHANGED <<soup, index, fileLoop, overallLoop, reader, remaining, frame, returned, short, reads>>

\* Mutant of Counted: a file of many loops is not counted.
CountedNot(count, loops) == count

\* A loop without end never looks at its count.
Counted(count, loops) == IF loops = Forever THEN count ELSE count + 1

Enough(count, loops) == loops # Forever /\ count + 1 >= loops

\* advance: again the same file, the next one, or the first.
Advance ==
  /\ reader' = Nothing
  /\ remaining' = Nothing
  /\ \/ /\ ~Enough(fileLoop, Current.loops)
        /\ fileLoop' = Counted(fileLoop, Current.loops)
        /\ UNCHANGED <<index, overallLoop, finished>>
     \/ /\ Enough(fileLoop, Current.loops)
        /\ fileLoop' = 0
        /\ index < Len(files)
        /\ index' = index + 1
        /\ UNCHANGED <<overallLoop, finished>>
     \/ /\ Enough(fileLoop, Current.loops)
        /\ fileLoop' = 0
        /\ index = Len(files)
        /\ overallLoop' = Counted(overallLoop, overall)
        /\ finished' = Enough(overallLoop, overall)
        /\ index' = IF finished' THEN index + 1 ELSE 1

\* In the file's samples, and not behind its stop.
Wanted ==
  LET all == (SamplesWanted - Len(frame)) * Current.ratio
  IN IF remaining = Nothing THEN all ELSE Smaller(all, remaining)

\* Mutant of Got: the window is not looked at.
GotPast == Smaller((SamplesWanted - Len(frame)) * Current.ratio, Current.length - reader)

\* What read_samples returns: up to the end of the data.
Got == Smaller(Wanted, Current.length - reader)

\* Every ratio-th of them.
Decimated == [i \in 1 .. (Got + Current.ratio - 1) \div Current.ratio |->
               <<index, reader + (i - 1) * Current.ratio>>]

ReadSome ==
  /\ Turns
  /\ reader # Nothing
  /\ remaining # 0
  /\ Got > 0
  /\ frame' = frame \o Decimated
  /\ reader' = reader + Got
  /\ remaining' = IF remaining = Nothing THEN Nothing ELSE remaining - Got
  /\ UNCHANGED <<soup, place, returned, short, reads, faults>>

\* The window is used up, or the file read to its end.
LeaveFile ==
  /\ Turns
  /\ reader # Nothing
  /\ remaining = 0 \/ Got = 0
  /\ Advance
  /\ UNCHANGED <<soup, frame, returned, short, reads, faults>>

\* An error, or a file with less data than its header says, is taken for its end.
ReadFails ==
  /\ Turns
  /\ reader # Nothing
  /\ remaining # 0
  /\ Got > 0
  /\ faults < MaxFaults
  /\ faults' = faults + 1
  /\ Advance
  /\ UNCHANGED <<soup, frame, returned, short, reads>>

ReadReturns ==
  /\ frame # Nothing
  /\ ~Turns
  /\ returned' = returned \o frame
  /\ short' = (short \/ Len(frame) < SamplesWanted)
  /\ frame' = Nothing
  /\ UNCHANGED <<soup, place, reader, remaining, reads, faults>>

Next ==
  \/ ReadBegins
  \/ OpenCurrent
  \/ OpenFails
  \/ ReadSome
  \/ LeaveFile
  \/ ReadFails
  \/ ReadReturns

Spec == Init /\ [][Next]_vars

\* The disk answers, and read goes on.
FairSpec == Spec /\ WF_vars(OpenCurrent \/ ReadSome \/ LeaveFile \/ ReadReturns)
-----------------------------------------------------------------------------
(* What is to be heard. *)

\* The samples of one playing of a file, by the parameters' meaning: from start
\* up to stop, if that comes before the end.
EndOf(f) == IF f.stop = Nothing THEN f.length ELSE Smaller(f.length, f.stop * f.ratio)

SamplesOf(f) ==
  IF EndOf(f) > f.start * f.ratio
    THEN (EndOf(f) - f.start * f.ratio + f.ratio - 1) \div f.ratio ELSE 0

Excerpt(i) == [k \in 1 .. SamplesOf(files[i]) |-> <<i, (files[i].start + k - 1) * files[i].ratio>>]

Times(s, n) == [k \in 1 .. Len(s) * n |-> s[((k - 1) % Len(s)) + 1]]

Again(s, loops) == Times(s, IF loops = Forever THEN SamplesWanted * MaxReads + 1 ELSE loops)

\* As much of it as can matter, for a loop without end.
Expected ==
  Again(FlattenSeq([i \in 1 .. Len(files) |-> Again(Excerpt(i), files[i].loops)]), overall)

Heard == IF frame = Nothing THEN returned ELSE returned \o frame

\* Whatever the frames' borders, files, trimming and loops are played as they
\* were asked for, in order, and to the end; and a loop without end does not end.
\* Whatever fails, a read returns less than asked for only when the soup is
\* finished (player.rs:83).
PlaysAsAsked ==
  /\ faults = 0 => IsPrefix(Heard, Expected) /\ (finished => Heard = Expected)
  /\ short => finished

\* Every loop without end has a sample in it.
Sounding ==
  /\ \A i \in 1 .. Len(files) : files[i].loops = Forever => Excerpt(i) # <<>>
  /\ overall = Forever => \E i \in 1 .. Len(files) : Excerpt(i) # <<>>

\* A tick gets its frame: read does not go round for ever.  Without a sample in
\* an endless loop it would, and the channel would not take a command any more.
EveryReadEnds == Sounding => (frame # Nothing ~> frame = Nothing)
=============================================================================
