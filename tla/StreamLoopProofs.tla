-------------------------- MODULE StreamLoopProofs --------------------------
(***************************************************************************)
(* Proofs about StreamLoop for any width of a time, any set of segment     *)
(* ends and any number of segments.                                        *)
(***************************************************************************)
EXTENDS StreamLoop, TLAPS

\* As long as the sum is in range the next base is the end of this segment,
\* nothing has left the probe later than that, and nothing of this segment more
\* than one unit before its base.
Behind ==
    \/ wrapped
    \/ /\ m_accumulated_base = m_prev_accumulated_base + stop
       /\ latest <= m_accumulated_base
       /\ before <= m_prev_accumulated_base
       /\ \/ m_prev_accumulated_base <= earliest
          \/ m_prev_accumulated_base = earliest + 1

IInv == TypeOK /\ Behind

USE TimesAssumption DEF TimesAssumption

\* Unsigned sums stay in range.
LEMMA Sums == \A a \in Times, b \in Times : Plus(a, b) \in Times
  BY DEF Plus, Times, None

LEMMA InitHolds == Init => IInv
  <1> SUFFICES ASSUME Init PROVE IInv
    OBVIOUS
  <1>1. 0 \in Times /\ None \in Times /\ 0 <= None /\ 0 \in 0..MaxSegments /\ 0 \in 0..1 /\ 0 # 1
    BY DEF Times, None
  <1>2. wrapped \in BOOLEAN
    BY DEF Init
  <1>3. TypeOK
    BY <1>1, <1>2, Zenon DEF Init, TypeOK
  <1>4. Behind
    BY <1>1 DEF Init, Behind
  <1> QED
    BY <1>3, <1>4 DEF IInv

LEMMA SegmentHolds ==
    ASSUME IInv, NEW s \in Stops, Segment(s)
    PROVE  IInv'
  <1>1. s \in Times /\ m_accumulated_base \in Times /\ m_prev_accumulated_base \in Times
    BY DEF IInv, TypeOK
  <1>2. m_accumulated_base' \in Times /\ m_prev_accumulated_base' \in Times
    BY <1>1, Sums DEF Segment
  <1>3. TypeOK'
    <2>1. segments' \in 0..MaxSegments /\ None \in Times /\ latest \in Times
      BY DEF IInv, TypeOK, Segment, SegmentArrives, Times, None
    <2>2. wrapped' \in BOOLEAN
      BY DEF IInv, TypeOK, Segment, SegmentArrives
    <2> QED
      BY <1>2, <2>1, <2>2 DEF IInv, TypeOK, Segment, SegmentArrives
  <1>4. Behind'
    <2>1. CASE wrapped'
      BY <2>1 DEF Behind
    <2>2. CASE ~wrapped'
      <3>1. ~wrapped /\ m_accumulated_base + s < Modulus
        BY <2>2, <1>1 DEF Segment, SegmentArrives, Times, None
      <3>2. m_accumulated_base' = m_prev_accumulated_base' + stop'
        BY <3>1 DEF Plus, Segment, SegmentArrives
      <3>3. before' <= m_prev_accumulated_base'
        BY <3>1 DEF IInv, Behind, Segment, SegmentArrives
      <3>4. latest' <= m_accumulated_base'
        BY <3>1, <3>2, <1>1 DEF IInv, TypeOK, Behind, Segment, SegmentArrives, Times, None
      <3>5. m_prev_accumulated_base' <= earliest'
        BY <1>1 DEF Segment, SegmentArrives, Times, None
      <3> QED
        BY <3>2, <3>3, <3>4, <3>5 DEF Behind
    <2> QED
      BY <2>1, <2>2
  <1> QED
    BY <1>3, <1>4 DEF IInv

LEMMA BufferHolds ==
    ASSUME IInv, NEW pts \in Times, Buffer(pts)
    PROVE  IInv'
  <1> DEFINE out == Moved(pts)
  <1>1. /\ m_prev_accumulated_base \in Times /\ m_accumulated_base \in Times
        /\ stop \in Times /\ latest \in Times /\ earliest \in Times
    BY DEF IInv, TypeOK, Times, None
  <1>2. /\ out \in Times
        /\ pts + m_prev_accumulated_base < Modulus => out = pts + m_prev_accumulated_base
        /\ pts + m_prev_accumulated_base >= Modulus
              => out = pts + m_prev_accumulated_base - Modulus
    BY <1>1, Sums DEF Moved, Plus, Times, None
  <1>3. /\ earliest' = IF out < earliest THEN out ELSE earliest
        /\ latest' = IF latest < out /\ out # None THEN out ELSE latest
    BY DEF Buffer
  <1> HIDE DEF out
  <1>4. TypeOK'
    BY <1>1, <1>2, <1>3 DEF IInv, TypeOK, Buffer, bases
  <1>5. Behind'
    <2>1. CASE wrapped
      BY <2>1 DEF Buffer, Behind
    <2>2. CASE ~wrapped
      <3>1. /\ m_accumulated_base = m_prev_accumulated_base + stop
            /\ latest <= m_accumulated_base
            /\ \/ m_prev_accumulated_base <= earliest
               \/ m_prev_accumulated_base = earliest + 1
        BY <2>2 DEF IInv, Behind
      <3>2. \/ out = None
            \/ /\ out <= m_accumulated_base
               /\ m_prev_accumulated_base <= out \/ m_prev_accumulated_base = out + 1
        <4>1. CASE pts <= stop
          BY <4>1, <3>1, <1>1, <1>2 DEF Times, None
        <4>2. CASE pts = None
          BY <4>2, <3>1, <1>1, <1>2 DEF Times, None
        <4> QED
          BY <4>1, <4>2 DEF Buffer
      <3>3. latest' <= m_accumulated_base
        BY <3>1, <3>2, <1>1, <1>2, <1>3 DEF Times, None
      <3>4. \/ m_prev_accumulated_base <= earliest'
            \/ m_prev_accumulated_base = earliest' + 1
        BY <3>1, <3>2, <1>1, <1>2, <1>3 DEF Times, None
      <3> QED
        BY <2>2, <3>1, <3>3, <3>4 DEF IInv, Behind, Buffer, bases
    <2> QED
      BY <2>1, <2>2
  <1> QED
    BY <1>4, <1>5 DEF IInv

LEMMA StepHolds == IInv /\ [Next]_vars => IInv'
  <1> SUFFICES ASSUME IInv, [Next]_vars PROVE IInv'
    OBVIOUS
  <1>1. ASSUME NEW s \in Stops, Segment(s) PROVE IInv'
    BY <1>1, SegmentHolds
  <1>2. ASSUME NEW pts \in Times, Buffer(pts) PROVE IInv'
    BY <1>2, BufferHolds
  <1>3. CASE Eos
    BY <1>3 DEF IInv, TypeOK, Behind, Eos, bases, history
  <1>4. CASE SeekDecodedFile
    <2>1. timeouts = 1 /\ timeouts' = 0
      BY <1>4 DEF IInv, TypeOK, SeekDecodedFile
    <2>2. TypeOK'
      BY <1>4, <2>1 DEF IInv, TypeOK, SeekDecodedFile, bases, history
    <2>3. Behind'
      BY <1>4 DEF IInv, Behind, SeekDecodedFile, bases, history
    <2> QED
      BY <2>2, <2>3 DEF IInv
  <1>5. CASE UNCHANGED vars
    BY <1>5 DEF IInv, TypeOK, Behind, vars, bases, history
  <1> QED
    BY <1>1, <1>2, <1>3, <1>4, <1>5 DEF Next

LEMMA InvariantHolds == Spec => []IInv
  BY InitHolds, StepHolds, PTL DEF Spec

\* The variables of the stream loop keep their types, and a seek is pending only
\* at the end of the stream.
THEOREM LoopTypeCorrect == Spec => []TypeOK
  BY InvariantHolds, PTL DEF IInv

\* Each playing of a file comes after the one before, for times of any width.
THEOREM LoopTimeGoesOn == Spec => []TimeGoesOn
  <1>1. IInv => TimeGoesOn
    BY DEF IInv, TypeOK, Behind, TimeGoesOn, Times, None
  <1> QED
    BY <1>1, InvariantHolds, PTL
=============================================================================
