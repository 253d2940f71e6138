--------------------------- MODULE DoubleBufCache ---------------------------
(***************************************************************************)
(* inc/DoubleBufferCache.h: the one-place cache that carries detection     *)
(* results from the inference thread (feed, in Yolov5Task::InferenceFrame) *)
(* back to the streaming thread that draws them (fetch, in                 *)
(* cb_queue00_src_probe).  There is one thread at each end.                *)
(*                                                                         *)
(* swap_mtx protects front_sp only.  The atomic swap_ready is set after    *)
(* the mutex is released and cleared after the mutex is released, so that  *)
(* both flag updates interleave with the other side.                       *)
(*                                                                         *)
(* A buffer is the number of the feed that brought it; 0 is nullptr.  The  *)
(* program gives the cache no notify_func and never feeds nullptr.         *)
(***************************************************************************)
EXTENDS Naturals

CONSTANT MaxFeeds    \* bound: how many results are fed

ASSUME MaxFeedsAssumption == MaxFeeds \in Nat

VARIABLES
    front_sp,     \* the front buffer
    back_sp,      \* the back buffer, touched by fetch alone
    swap_ready,   \* the atomic flag
    swap_mtx,     \* "free", or the side that holds it
    feedPc,       \* where the feeder is
    fetchPc,      \* where the fetcher is
    fed,          \* feeds begun so far; the pending buffer of the last one
    fetched,      \* what the last fetch returned
    overlapped    \* history: a feed was announced between the last copy and its clear

vars == <<front_sp, back_sp, swap_ready, swap_mtx, feedPc, fetchPc, fed, fetched,
          overlapped>>

Init ==
    /\ front_sp = 0
    /\ back_sp = 0
    /\ swap_ready = FALSE
    /\ swap_mtx = "free"
    /\ feedPc = "idle"
    /\ fetchPc = "idle"
    /\ fed = 0
    /\ fetched = 0
    /\ overlapped = FALSE
-----------------------------------------------------------------------------
(* feed *)

FeedCall ==
    /\ feedPc = "idle"
    /\ fed < MaxFeeds
    /\ fed' = fed + 1
    /\ feedPc' = "lock"
    /\ UNCHANGED <<front_sp, back_sp, swap_ready, swap_mtx, fetchPc, fetched, overlapped>>

\* Fault: the front buffer is assigned without the mutex.
FeedLockMissing ==
    /\ feedPc = "lock"
    /\ feedPc' = "store"
    /\ UNCHANGED <<front_sp, back_sp, swap_ready, swap_mtx, fetchPc, fed, fetched, overlapped>>

FeedLock ==
    /\ feedPc = "lock"
    /\ swap_mtx = "free"
    /\ swap_mtx' = "feed"
    /\ feedPc' = "store"
    /\ UNCHANGED <<front_sp, back_sp, swap_ready, fetchPc, fed, fetched, overlapped>>

\* front_sp = pending, and the unlock.
FeedStore ==
    /\ feedPc = "store"
    /\ front_sp' = fed
    /\ swap_mtx' = "free"
    /\ feedPc' = "announce"
    /\ UNCHANGED <<back_sp, swap_ready, fetchPc, fed, fetched, overlapped>>

\* Fault: the flag is set by the first feed only.
FeedReadyOnce ==
    /\ feedPc = "announce"
    /\ swap_ready' = (swap_ready \/ fed = 1)
    /\ overlapped' = (overlapped \/ fetchPc = "clear")
    /\ feedPc' = "idle"
    /\ UNCHANGED <<front_sp, back_sp, swap_mtx, fetchPc, fed, fetched>>

FeedReady ==
    /\ feedPc = "announce"
    /\ swap_ready' = TRUE
    /\ overlapped' = (overlapped \/ fetchPc = "clear")
    /\ feedPc' = "idle"
    /\ UNCHANGED <<front_sp, back_sp, swap_mtx, fetchPc, fed, fetched>>

Feed == FeedLock \/ FeedStore \/ FeedReady
-----------------------------------------------------------------------------
(* fetch *)

\* Without a new buffer the back buffer is returned as it is.
FetchTest ==
    /\ fetchPc = "idle"
    /\ IF swap_ready
         THEN fetchPc' = "lock" /\ UNCHANGED fetched
         ELSE fetched' = back_sp /\ UNCHANGED fetchPc
    /\ UNCHANGED <<front_sp, back_sp, swap_ready, swap_mtx, feedPc, fed, overlapped>>

FetchLock ==
    /\ fetchPc = "lock"
    /\ swap_mtx = "free"
    /\ swap_mtx' = "fetch"
    /\ fetchPc' = "copy"
    /\ UNCHANGED <<front_sp, back_sp, swap_ready, feedPc, fed, fetched, overlapped>>

\* Fault: the front buffer is moved out and leaves the null pointer behind.
FetchMove ==
    /\ fetchPc = "copy"
    /\ back_sp' = front_sp
    /\ front_sp' = 0
    /\ swap_mtx' = "free"
    /\ overlapped' = FALSE
    /\ fetchPc' = "clear"
    /\ UNCHANGED <<swap_ready, feedPc, fed, fetched>>

\* Fault: the buffers are swapped instead of the front one being shared.
FetchSwap ==
    /\ fetchPc = "copy"
    /\ back_sp' = front_sp
    /\ front_sp' = back_sp
    /\ swap_mtx' = "free"
    /\ overlapped' = FALSE
    /\ fetchPc' = "clear"
    /\ UNCHANGED <<swap_ready, feedPc, fed, fetched>>

\* back_sp = front_sp, and the unlock.
FetchCopy ==
    /\ fetchPc = "copy"
    /\ back_sp' = front_sp
    /\ swap_mtx' = "free"
    /\ overlapped' = FALSE
    /\ fetchPc' = "clear"
    /\ UNCHANGED <<front_sp, swap_ready, feedPc, fed, fetched>>

\* swap_ready = false, and the return: whatever was announced since the copy
\* is no longer announced.
FetchClear ==
    /\ fetchPc = "clear"
    /\ swap_ready' = FALSE
    /\ fetched' = back_sp
    /\ fetchPc' = "idle"
    /\ UNCHANGED <<front_sp, back_sp, swap_mtx, feedPc, fed, overlapped>>

Fetch == FetchTest \/ FetchLock \/ FetchCopy \/ FetchClear
-----------------------------------------------------------------------------
Next == FeedCall \/ Feed \/ Fetch

Spec == Init /\ [][Next]_vars

\* A feed that has begun is run to its end, and frames keep coming to the probe
\* that fetches.  Nothing obliges the inference thread to feed another result.
Fairness == WF_vars(Feed) /\ WF_vars(Fetch)

FairSpec == Spec /\ Fairness
-----------------------------------------------------------------------------
(* Properties *)

\* The types, and the mutex held exactly by the side that touches front_sp.
TypeOK ==
    /\ front_sp \in 0..MaxFeeds
    /\ back_sp \in 0..MaxFeeds
    /\ fed \in 0..MaxFeeds
    /\ fetched \in 0..MaxFeeds
    /\ swap_ready \in BOOLEAN
    /\ overlapped \in BOOLEAN
    /\ swap_mtx \in {"free", "feed", "fetch"}
    /\ feedPc \in {"idle", "lock", "store", "announce"}
    /\ fetchPc \in {"idle", "lock", "copy", "clear"}
    /\ swap_mtx = "feed" <=> feedPc = "store"
    /\ swap_mtx = "fetch" <=> fetchPc = "copy"

\* No torn shared_ptr: front_sp is never copied by fetch while feed assigns it.
NoTornBuffer == ~(feedPc = "store" /\ fetchPc = "copy")

\* The results drawn over the video never go back in time: what a fetch
\* returns is at least as recent as what the fetch before it returned.
FetchIsMonotone == [][fetched' >= fetched]_vars

\* A result that has been fed is kept from the drawing side in one case only.
\* When both sides are at rest and no new buffer is announced, the back buffer
\* is the latest one, unless a feed ended in the window between the copy and
\* the clear of the last fetch.
StaleOnlyAfterOverlap ==
    (feedPc = "idle" /\ fetchPc = "idle" /\ ~swap_ready /\ ~overlapped)
        => back_sp = front_sp

\* The same as progress: what is in the front buffer, or something newer, is
\* drawn in the end, unless that window was hit.
FedIsFetchedUnlessOverlap ==
    \A n \in 1..MaxFeeds :
        (front_sp = n) ~> (fetched >= n \/ overlapped)

\* The double buffer implements the abstract cache: a fetch returns what was fed,
\* whole, and never goes back.
Cache == INSTANCE ResultCache WITH latest <- front_sp, taken <- fetched

ImplementsCache == Cache!Spec

\* "Put the latest buffer into cache queue to be processed", the comment on
\* feed: the latest buffer, or a newer one, is fetched in the end.
LatestIsFetched ==
    \A n \in 1..MaxFeeds : (front_sp = n) ~> (fetched >= n)
=============================================================================
