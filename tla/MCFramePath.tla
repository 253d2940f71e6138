---------------------------- MODULE MCFramePath -----------------------------
(* Small instances of FramePath for TLC. *)
EXTENDS FramePath
=============================================================================
