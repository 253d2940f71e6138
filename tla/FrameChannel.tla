---------------------------- MODULE FrameChannel ----------------------------
(***************************************************************************)
(* What a SafeQueue promises to the threads on its two ends: a bounded     *)
(* first-in first-out channel of frames that can be closed, and that       *)
(* hands out the null frame only once it is closed and drained.  Each      *)
(* operation is one atomic step; SafeQueue.tla is the monitor that has to  *)
(* implement it.                                                           *)
(***************************************************************************)
EXTENDS Naturals, Sequences

CONSTANTS Receivers,   \* the threads that receive
          Frames,      \* the values sent
          NullFrame,   \* what a receiver gets from a closed, empty channel
          Capacity     \* the most frames ever held

VARIABLES buffer,      \* frames sent and not yet received, oldest first
          closed,      \* whether the channel has been closed
          received     \* received[r]: the last value handed to receiver r

chanVars == <<buffer, closed, received>>

Init ==
    /\ buffer = <<>>
    /\ closed = FALSE
    /\ received = [r \in Receivers |-> NullFrame]

Send(f) ==
    /\ Len(buffer) < Capacity
    /\ buffer' = Append(buffer, f)
    /\ UNCHANGED <<closed, received>>

Receive(r) ==
    /\ buffer # <<>>
    /\ received' = [received EXCEPT ![r] = Head(buffer)]
    /\ buffer' = Tail(buffer)
    /\ UNCHANGED closed

ReceiveClosed(r) ==
    /\ closed
    /\ buffer = <<>>
    /\ received' = [received EXCEPT ![r] = NullFrame]
    /\ UNCHANGED <<buffer, closed>>

Close ==
    /\ closed' = TRUE
    /\ UNCHANGED <<buffer, received>>

Next ==
    \/ \E f \in Frames : Send(f)
    \/ \E r \in Receivers : Receive(r) \/ ReceiveClosed(r)
    \/ Close

Spec == Init /\ [][Next]_chanVars
=============================================================================
