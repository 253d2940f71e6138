---------------------------- MODULE ResultCache -----------------------------
(***************************************************************************)
(* What a DoubleBufCache promises to the threads on its two ends: a place  *)
(* for results, numbered in the order they are fed, out of which a fetch   *)
(* takes one that has been fed and is no older than what the fetch before  *)
(* it took.  It need not be the latest.  Each operation is one atomic      *)
(* step; DoubleBufCache.tla is the double buffer that has to implement it. *)
(***************************************************************************)
EXTENDS Naturals

VARIABLES latest,   \* the number of the last result fed; 0 is the null pointer
          taken     \* what the last fetch returned

cacheVars == <<latest, taken>>

Init == latest = 0 /\ taken = 0

Feed ==
    /\ latest' = latest + 1
    /\ UNCHANGED taken

\* Fault: a fetch takes any result that was ever fed.
FetchAny ==
    /\ taken' \in 0..latest
    /\ UNCHANGED latest

Fetch ==
    /\ taken' \in taken..latest
    /\ UNCHANGED latest

Next == Feed \/ Fetch

Spec == Init /\ [][Next]_cacheVars
=============================================================================
