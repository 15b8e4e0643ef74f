------------------------- MODULE MCChannelSessions -------------------------
(* ChannelSessions for TLC: clients and subscription ids are symmetric. *)
EXTENDS ChannelSessions, TLC

Symmetry == Permutations(Conn) \cup Permutations(SubId)
=============================================================================
