-------------------------- MODULE MCDoubleBufCache --------------------------
(* Small instances of DoubleBufCache for TLC. *)
EXTENDS DoubleBufCache
=============================================================================
