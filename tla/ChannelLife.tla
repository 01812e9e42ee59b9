---------------------------- MODULE ChannelLife -----------------------------
(***************************************************************************)
(* What a channel promises, without actors, queues or mixers: its state is *)
(* always somewhere definite, it is only ever handed over along one cycle, *)
(* and JavaScript is told of its close when the state is given up.         *)
(*                                                                         *)
(* Several channels may step together: a mixer that stops gives up every   *)
(* state that is on its way in.                                            *)
(***************************************************************************)
EXTENDS Naturals

CONSTANT Channel

VARIABLES
  where,  \* who has the channel's state
  told,   \* Close events JavaScript has received for it
  swept   \* the mixer closed it, not its actor

vars == <<where, told, swept>>

Where == {"nowhere", "actor", "leaving", "mixer", "returning", "gone"}

TypeOK ==
  /\ where \in [Channel -> Where]
  /\ told  \in [Channel -> 0 .. 2]
  /\ swept \in SUBSET Channel

Init ==
  /\ where = [c \in Channel |-> "nowhere"]
  /\ told  = [c \in Channel |-> 0]
  /\ swept = {}

Silent(c) == told'[c] = told[c] /\ (c \in swept' <=> c \in swept)

\* The hand-over cycle.
Moves == {<<"nowhere", "actor">>, <<"actor", "leaving">>, <<"leaving", "mixer">>,
          <<"mixer", "returning">>, <<"returning", "actor">>}

HandOver(c) == <<where[c], where'[c]>> \in Moves /\ Silent(c)

\* The actor gives the state up and says so.
Finish(c) ==
  /\ where[c] = "actor"
  /\ where'[c] = "gone"
  /\ told'[c] = told[c] + 1
  /\ c \in swept' <=> c \in swept

\* The state goes down with the mixer it was sent to ...
Lose(c) ==
  /\ where[c] = "leaving"
  /\ where'[c] = "gone"
  /\ Silent(c)

\* ... or the mixer itself gives it up and says so.
Sweep(c) ==
  /\ where[c] = "mixer"
  /\ where'[c] = "gone"
  /\ told'[c] = told[c] + 1
  /\ c \in swept'

\* An actor whose state is gone still says that it closes: for a lost state
\* that is the only Close, for a swept one it is the second.
CloseWithout(c) ==
  /\ where[c] = "gone"
  /\ where'[c] = "gone"
  /\ told[c] = IF c \in swept THEN 1 ELSE 0
  /\ told'[c] = told[c] + 1
  /\ c \in swept' <=> c \in swept

Rest(c) == where'[c] = where[c] /\ Silent(c)

Step(c) ==
  HandOver(c) \/ Finish(c) \/ Lose(c) \/ Sweep(c) \/ CloseWithout(c) \/ Rest(c)

Next == \A c \in Channel : Step(c)

Spec == Init /\ [][Next]_vars
=============================================================================
