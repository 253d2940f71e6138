------------------------ MODULE DoubleBufCacheProofs ------------------------
(***************************************************************************)
(* Theorems about DoubleBufCache, for any number of feeds.                 *)
(***************************************************************************)
EXTENDS DoubleBufCache, TLAPS

(***************************************************************************)
(* Order: buffers move from the feeder to the front, to the back and to    *)
(* the caller, never past one another.                                     *)
(* Announced: when the flag is down, or about to be put down, and no feed  *)
(* is between its store and its announcement, the back buffer is the front *)
(* one, unless a feed was announced in the window of the last fetch.  The  *)
(* second half is what the clear of the flag turns into the first.         *)
(* Pending: between its call and its store a feed is one ahead of the      *)
(* front buffer, so that each store is the next result in the abstraction. *)
(***************************************************************************)
Order ==
    /\ fetched <= back_sp
    /\ back_sp <= front_sp
    /\ front_sp <= fed

Announced ==
    (~overlapped /\ feedPc # "announce" /\ (~swap_ready \/ fetchPc = "clear"))
        => back_sp = front_sp

Pending == fed = IF feedPc \in {"lock", "store"} THEN front_sp + 1 ELSE front_sp

IInv == TypeOK /\ Order /\ Announced /\ Pending

LEMMA InitIInv == Init => IInv
<1> SUFFICES ASSUME Init PROVE IInv
  OBVIOUS
<1>1. TypeOK
  <2>1. swap_ready \in BOOLEAN /\ overlapped \in BOOLEAN
    BY DEF Init
  <2>2. front_sp \in 0..MaxFeeds /\ back_sp \in 0..MaxFeeds
        /\ fed \in 0..MaxFeeds /\ fetched \in 0..MaxFeeds
    BY MaxFeedsAssumption DEF Init
  <2>3. swap_mtx = "free" /\ feedPc = "idle" /\ fetchPc = "idle"
    BY DEF Init
  <2> QED
    BY <2>1, <2>2, <2>3 DEF TypeOK
<1>2. Order /\ Announced /\ Pending
  BY DEF Init, Order, Announced, Pending
<1> QED
  BY <1>1, <1>2 DEF IInv

LEMMA StepIInv ==
  ASSUME IInv, [Next]_vars
  PROVE  IInv'
<1> USE MaxFeedsAssumption DEF IInv, TypeOK, Order, Announced, Pending
<1>1. CASE FeedCall
  BY <1>1 DEF FeedCall
<1>2. CASE FeedLock
  BY <1>2 DEF FeedLock
<1>3. CASE FeedStore
  BY <1>3 DEF FeedStore
<1>4. CASE FeedReady
  BY <1>4 DEF FeedReady
<1>5. CASE FetchTest
  BY <1>5 DEF FetchTest
<1>6. CASE FetchLock
  <2>1. TypeOK'
    BY <1>6 DEF FetchLock
  <2>2. Order' /\ Announced' /\ Pending'
    BY <1>6 DEF FetchLock
  <2> QED
    BY <2>1, <2>2
<1>7. CASE FetchCopy
  <2>1. TypeOK'
    BY <1>7 DEF FetchCopy
  <2>2. Order' /\ Announced' /\ Pending'
    BY <1>7 DEF FetchCopy
  <2> QED
    BY <2>1, <2>2
<1>8. CASE FetchClear
  <2>1. TypeOK'
    BY <1>8 DEF FetchClear
  <2>2. Order' /\ Announced' /\ Pending'
    BY <1>8 DEF FetchClear
  <2> QED
    BY <2>1, <2>2
<1>9. CASE UNCHANGED vars
  BY <1>9 DEF vars
<1> QED
  BY <1>1, <1>2, <1>3, <1>4, <1>5, <1>6, <1>7, <1>8, <1>9 DEF Next, Feed, Fetch

\* The inductive invariant holds in every reachable state.
THEOREM IInvHolds == Spec => []IInv
  BY InitIInv, StepIInv, PTL DEF Spec

\* Every variable of the cache stays within its type.
THEOREM TypeCorrect == Spec => []TypeOK
<1>1. IInv => TypeOK
  BY DEF IInv
<1> QED
  BY <1>1, IInvHolds, PTL

\* The mutex is held exactly by the side that touches front_sp, so that the two
\* are never inside together.
THEOREM NeverTorn == Spec => []NoTornBuffer
<1>1. IInv => NoTornBuffer
  BY DEF IInv, TypeOK, NoTornBuffer
<1> QED
  BY <1>1, IInvHolds, PTL

\* A result is withheld from the drawing side only after a feed was announced
\* between the copy and the clear of a fetch.
THEOREM StaleOnlyInWindow == Spec => []StaleOnlyAfterOverlap
<1>1. IInv => StaleOnlyAfterOverlap
  BY DEF IInv, Announced, StaleOnlyAfterOverlap
<1> QED
  BY <1>1, IInvHolds, PTL

\* What fetch returns never goes back in time.
THEOREM FetchMonotone == Spec => FetchIsMonotone
<1>1. IInv /\ [Next]_vars => [fetched' >= fetched]_vars
  BY DEF IInv, TypeOK, Order, Next, Feed, Fetch, FeedCall, FeedLock, FeedStore,
         FeedReady, FetchTest, FetchLock, FetchCopy, FetchClear, vars
<1> QED
  BY <1>1, IInvHolds, PTL DEF Spec, FetchIsMonotone

LEMMA StepRefines ==
  ASSUME IInv, [Next]_vars
  PROVE  [Cache!Next]_(Cache!cacheVars)
<1> USE MaxFeedsAssumption DEF IInv, TypeOK, Order, Pending, Cache!cacheVars
<1>1. CASE FeedStore
  BY <1>1 DEF FeedStore, Cache!Next, Cache!Feed
<1>2. CASE FetchTest
  <2>1. CASE swap_ready
    BY <1>2, <2>1 DEF FetchTest
  <2>2. CASE ~swap_ready
    <3>1. fetched' \in fetched..front_sp /\ front_sp' = front_sp
      BY <1>2, <2>2 DEF FetchTest
    <3> QED
      BY <3>1 DEF Cache!Next, Cache!Fetch
  <2> QED
    BY <2>1, <2>2
<1>3. CASE FetchClear
  <2>1. fetched' \in fetched..front_sp /\ front_sp' = front_sp
    BY <1>3 DEF FetchClear
  <2> QED
    BY <2>1 DEF Cache!Next, Cache!Fetch
<1>4. CASE FeedCall \/ FeedLock \/ FeedReady \/ FetchLock \/ FetchCopy \/ UNCHANGED vars
  BY <1>4 DEF FeedCall, FeedLock, FeedReady, FetchLock, FetchCopy, vars
<1> QED
  BY <1>1, <1>2, <1>3, <1>4 DEF Next, Feed, Fetch

\* The double buffer implements the abstract cache: every step is a feed, a fetch
\* or nothing, and a fetch returns a buffer that was fed and no older one than the
\* fetch before it.
THEOREM DoubleBufImplementsCache == Spec => ImplementsCache
<1>1. Init => Cache!Init
  BY DEF Init, Cache!Init
<1> QED
  BY <1>1, IInvHolds, StepRefines, PTL DEF Spec, ImplementsCache, Cache!Spec
=============================================================================
