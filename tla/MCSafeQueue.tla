---------------------------- MODULE MCSafeQueue -----------------------------
(* Small instances of SafeQueue for TLC. *)
EXTENDS SafeQueue
=============================================================================
