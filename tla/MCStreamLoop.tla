---------------------------- MODULE MCStreamLoop ----------------------------
(* Small instances of StreamLoop for TLC. *)
EXTENDS StreamLoop
=============================================================================
