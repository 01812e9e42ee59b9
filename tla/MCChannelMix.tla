---------------------------- MODULE MCChannelMix ----------------------------
(* Instances of ChannelMix for TLC. *)
EXTENDS ChannelMixInv, TLC

\* Channels and mixers are interchangeable: nothing orders their ids.
Symmetry == Permutations(Channel) \cup Permutations(MixId)
=============================================================================
