--------------------------- MODULE MCYoloChannel ----------------------------
(* Small instances of YoloChannel for TLC. *)
EXTENDS YoloChannel
=============================================================================
