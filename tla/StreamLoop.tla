----------------------------- MODULE StreamLoop -----------------------------
(***************************************************************************)
(* The probe on the decoder's sink pad that lets a file be played again    *)
(* and again: cb_reset_stream_probe and cb_seek_decoded_file of            *)
(* src/DeepStreamPipeline.cpp.  Each segment of the stream is moved behind *)
(* the one before it; the end of the stream is swallowed and answered by a *)
(* seek to the start, out of a GLib timeout.                               *)
(*                                                                         *)
(* What arrives at the pad is external.  A demuxer announces a segment,    *)
(* sends its buffers in the order in which they are decoded, not that of   *)
(* their times, and may announce another segment at any time.  A time is a *)
(* number of 64 bits (here Width); the largest is GST_CLOCK_TIME_NONE, for *)
(* a buffer without a time and for a segment whose end is not known.       *)
(*                                                                         *)
(* Whether the timeouts of a process are called depends on its main: that  *)
(* of this program, src/main.cpp, runs no main loop.                       *)
(***************************************************************************)
EXTENDS Naturals

CONSTANTS Width,        \* bits of a time
          Stops,        \* the values of segment->stop
          MainLoop,     \* whether the process runs a GLib main loop
          MaxSegments   \* bound: how many segments arrive

Modulus == 2 ^ Width
None == Modulus - 1     \* GST_CLOCK_TIME_NONE
Times == 0..None

\* The sum of two unsigned numbers of Width bits.
Plus(a, b) == IF a + b < Modulus THEN a + b ELSE a + b - Modulus

ASSUME TimesAssumption ==
    /\ Modulus \in Nat \ {0} /\ MaxSegments \in Nat
    /\ Stops \subseteq Times \ {0}
    /\ MainLoop \in BOOLEAN

VARIABLES
    m_prev_accumulated_base, \* what is added to the times of this segment
    m_accumulated_base,      \* and to those of the next
    stop,        \* the end of this segment
    source,      \* "start": a segment comes next; "playing"; "ended"
    timeouts,    \* calls of cb_seek_decoded_file that GLib holds
    segments,    \* history: segments so far
    earliest,    \* history: the earliest time a buffer of this segment left with
    latest,      \* history: the latest time a buffer left with
    before,      \* history: the latest time of the segments before this one
    wrapped      \* history: the sum of the ends has left the range of a time

bases == <<m_prev_accumulated_base, m_accumulated_base, stop>>
history == <<earliest, latest, before, wrapped>>
vars == <<bases, source, timeouts, segments, history>>

Init ==
    /\ m_prev_accumulated_base = 0 /\ m_accumulated_base = 0
    /\ stop = 0
    /\ source = "start"
    /\ timeouts = 0
    /\ segments = 0
    /\ earliest = None /\ latest = 0 /\ before = 0
    /\ wrapped = FALSE
-----------------------------------------------------------------------------
\* What a segment event finds and what it leaves in the history.
SegmentArrives(s) ==
    /\ source \in {"start", "playing"}
    /\ segments < MaxSegments
    /\ segments' = segments + 1
    /\ source' = "playing"
    /\ stop' = s
    /\ earliest' = None /\ before' = latest
    /\ wrapped' = IF m_accumulated_base + s < Modulus THEN wrapped ELSE TRUE
    /\ UNCHANGED <<timeouts, latest>>

\* Fault: the next base is computed before this segment takes the last one.
SegmentBaseFirst(s) ==
    /\ SegmentArrives(s)
    /\ m_accumulated_base' = Plus(m_accumulated_base, s)
    /\ m_prev_accumulated_base' = m_accumulated_base'

\* Fault: a base of more bits.
SegmentWide(s) ==
    /\ SegmentArrives(s)
    /\ m_prev_accumulated_base' = m_accumulated_base
    /\ m_accumulated_base' = m_accumulated_base + s

\* GST_EVENT_SEGMENT; the event is dropped.
Segment(s) ==
    /\ SegmentArrives(s)
    /\ m_prev_accumulated_base' = m_accumulated_base
    /\ m_accumulated_base' = Plus(m_accumulated_base, s)

\* The time a buffer leaves the probe with.
Moved(pts) == Plus(pts, m_prev_accumulated_base)

\* A buffer with a time inside its segment, or without a time: None and a base
\* sum up to the time just before the base.
Buffer(pts) ==
    /\ source = "playing"
    /\ pts <= stop \/ pts = None
    /\ earliest' = IF Moved(pts) < earliest THEN Moved(pts) ELSE earliest
    /\ latest' = IF latest < Moved(pts) /\ Moved(pts) # None THEN Moved(pts) ELSE latest
    /\ UNCHANGED <<bases, source, timeouts, segments, before, wrapped>>

\* GST_EVENT_EOS: a timeout is added and the event is dropped.
Eos ==
    /\ source = "playing"
    /\ source' = "ended"
    /\ timeouts' = timeouts + 1
    /\ UNCHANGED <<bases, segments, history>>

\* cb_seek_decoded_file, once, from the main loop.  The flush it sends out is
\* dropped by the probe; the source starts again unless the seek fails.
SeekDecodedFile ==
    /\ MainLoop
    /\ timeouts > 0
    /\ timeouts' = timeouts - 1
    /\ source' \in {"start", source}
    /\ UNCHANGED <<bases, segments, history>>

Next ==
    \/ \E s \in Stops : Segment(s)
    \/ \E pts \in Times : Buffer(pts)
    \/ Eos
    \/ SeekDecodedFile

Spec == Init /\ [][Next]_vars
-----------------------------------------------------------------------------
(* Properties *)

\* The types; a timeout is pending only at the end of the stream.
TypeOK ==
    /\ m_prev_accumulated_base \in Times /\ m_accumulated_base \in Times
    /\ stop \in Stops \cup {0}
    /\ source \in {"start", "playing", "ended"}
    /\ timeouts \in 0..1 /\ (timeouts = 1 => source = "ended")
    /\ segments \in 0..MaxSegments
    /\ earliest \in Times /\ latest \in Times /\ before \in Times
    /\ wrapped \in BOOLEAN

\* "PTS offset for seek": each time a file is played its pictures come after all
\* those of the time before, whatever the order of their times, as long as the
\* sum of the segments' ends has not left the 64 bits.  The segment after one of
\* unknown end makes it leave them.  A buffer without a time is given one, just
\* before the base, and can come one unit too early.
TimeGoesOn ==
    \/ wrapped
    \/ before <= earliest
    \/ before = earliest + 1 /\ before = m_prev_accumulated_base
=============================================================================
