------------------------- MODULE MCChannelRegistry --------------------------
(* Small instances of ChannelRegistry for TLC. *)
EXTENDS ChannelRegistry, TLC

\* Workers, and contents of a body, are interchangeable.
Symmetry == Permutations(Workers) \cup Permutations(Revisions)
=============================================================================
