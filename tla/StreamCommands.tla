--------------------------- MODULE StreamCommands ---------------------------
(***************************************************************************)
(* The channel's queue of commands, as the streams of Readers and of       *)
(* Writers see it: JavaScript fills it from its own thread and the         *)
(* channel's task empties it.  (What the other commands do, and in which   *)
(* modes they are taken, is in ChannelMix.)                                *)
(***************************************************************************)
EXTENDS Naturals, Sequences

CONSTANT CmdDepth

VARIABLES
  open,  \* the channel lives
  cmds   \* its commands

\* The commands that make and drop the streams numbered in ids.
Command(ids) == [op : {"create", "destroy"}, id : ids] \cup [op : {"close"}]

Create(s) == [op |-> "create", id |-> s]
Destroy(s) == [op |-> "destroy", id |-> s]

\* try_send refuses when the queue is full or the channel gone.
Accepts == open /\ Len(cmds) < CmdDepth

TrySend(cmd) == cmds' = IF Accepts THEN Append(cmds, cmd) ELSE cmds

CloseIsCalled ==
  /\ Accepts
  /\ TrySend([op |-> "close"])
  /\ UNCHANGED open

\* The task takes the next command.
Take(op) == open /\ cmds # <<>> /\ Head(cmds).op = op /\ cmds' = Tail(cmds)
=============================================================================
