-------------------------- MODULE FramePathProofs ---------------------------
(***************************************************************************)
(* Theorems about FramePath, for any number of pictures and any sizes of   *)
(* the branches and of the frame queue.                                    *)
(***************************************************************************)
EXTENDS FramePath, TLAPS

Types ==
    /\ sent \in 0..MaxPictures
    /\ teeAt \in {"done", "queue00", "queue01"}
    /\ teeAt # "done" => sent # 0
    /\ queue00 \in Seq(Pictures) /\ queue01 \in Seq(Pictures)
    /\ probe \in {"idle", "fetch", "draw"}
    /\ surface \in 0..MaxPictures /\ shown \in Nat
    /\ boxed \subseteq Pictures
    /\ callback \in {"idle", "product"}
    /\ sample \in FrameValues \cup {NoFrame}
    /\ callback = "product" => sample \in FrameValues
    /\ dropped \in 0..MaxDropped
    /\ isRunning \in BOOLEAN
    /\ infer \in {"absent", "test", "consume", "detect"}
    /\ buffer \in Seq(FrameValues)
    /\ closed \in BOOLEAN
    /\ received \in [{"infer"} -> FrameValues \cup {NoFrame}]
    /\ infer = "detect" => received["infer"] \in FrameValues
    /\ latest \in Nat /\ taken \in 0..latest
    /\ analysed \in Seq(Pictures) /\ Len(analysed) = latest

\* The last picture that each branch has been given, and the last one converted.
ToDisplay == IF teeAt = "queue00" THEN sent - 1 ELSE sent
ToInference == IF teeAt = "done" THEN sent ELSE sent - 1
Converted == ToInference - Len(queue01)

InProbe == IF probe = "idle" THEN 0 ELSE 1
InCallback == IF callback = "product" THEN 1 ELSE 0
InDetector == IF infer = "detect" THEN 1 ELSE 0

\* Every picture the display branch was given has been shown, is being drawn
\* into, or waits in queue00, in order.
DisplaySide ==
    /\ ToDisplay = shown + InProbe + Len(queue00)
    /\ \A i \in 1..Len(queue00) : queue00[i] = shown + InProbe + i
    /\ probe # "idle" => surface = shown + 1
    /\ Len(queue00) <= BranchSize

\* Every picture the inference branch was given has been analysed or dropped, or
\* is in the hands of the detector or the callback, or in one of the two queues.
Counted ==
    Converted = Len(analysed) + InDetector + Len(buffer)
                  + InCallback + dropped

InferenceSide ==
    /\ \A i \in 1..Len(queue01) : queue01[i] = Converted + i
    /\ callback = "product" => sample.picture = Converted
    /\ Len(queue01) <= BranchSize
    /\ Len(buffer) <= QueueSize

\* The last picture the callback is done with.  Those from it to the results are
\* in order.
Passed == IF callback = "product" THEN Converted - 1 ELSE Converted

BufferInOrder ==
    /\ \A i \in 1..Len(buffer) : buffer[i].picture <= Passed
    /\ \A i, j \in 1..Len(buffer) : i < j => buffer[i].picture < buffer[j].picture

DetectedInOrder ==
    infer = "detect" =>
        /\ received["infer"].picture <= Passed
        /\ \A i \in 1..Len(buffer) : received["infer"].picture < buffer[i].picture
        /\ \A i \in 1..Len(analysed) : analysed[i] < received["infer"].picture

AnalysedInOrder ==
    /\ \A i \in 1..Len(analysed) : analysed[i] <= Passed
    /\ \A i \in 1..Len(analysed), j \in 1..Len(buffer) : analysed[i] < buffer[j].picture
    /\ \A i, j \in 1..Len(analysed) : i < j => analysed[i] < analysed[j]

InOrder == BufferInOrder /\ DetectedInOrder /\ AnalysedInOrder

IInv == Types /\ DisplaySide /\ Counted /\ InferenceSide /\ InOrder
-----------------------------------------------------------------------------
LEMMA InitIInv == Init => IInv
  <1> SUFFICES ASSUME Init PROVE IInv
    OBVIOUS
  <1>1. /\ sent = 0 /\ teeAt = "done" /\ queue00 = <<>> /\ queue01 = <<>>
        /\ probe = "idle" /\ surface = 0 /\ shown = 0 /\ boxed = {}
        /\ callback = "idle" /\ sample = NoFrame /\ dropped = 0
        /\ isRunning = FALSE /\ infer = "absent"
        /\ buffer = <<>> /\ closed = FALSE
        /\ latest = 0 /\ taken = 0 /\ analysed = <<>>
    BY DEF Init, Queue!Init, Cache!Init
  <1>2. received \in [{"infer"} -> FrameValues \cup {NoFrame}]
    BY DEF Init, Queue!Init
  <1>3. Len(queue00) = 0 /\ Len(queue01) = 0 /\ Len(buffer) = 0 /\ Len(analysed) = 0
    BY <1>1
  <1>4. Types
    <2>1. /\ buffer \in Seq(FrameValues) /\ analysed \in Seq(Pictures)
          /\ queue00 \in Seq(Pictures) /\ queue01 \in Seq(Pictures)
      BY <1>1
    <2>2. sent \in 0..MaxPictures /\ surface \in 0..MaxPictures /\ dropped \in 0..MaxDropped
          /\ taken \in 0..latest
      BY <1>1, SizesAssumption
    <2> QED
      BY <1>1, <1>2, <1>3, <2>1, <2>2 DEF Types
  <1>5. ToDisplay = 0 /\ Converted = 0
    <2>1. ToDisplay = 0 /\ ToInference = 0
      BY <1>1 DEF ToDisplay, ToInference
    <2> QED
      BY <1>3, <2>1 DEF Converted
  <1>6. DisplaySide /\ Counted /\ InferenceSide
    BY <1>1, <1>3, <1>5, SizesAssumption DEF DisplaySide, Counted, InferenceSide, InProbe, InCallback, InDetector
  <1>7. InOrder
    BY <1>1, <1>3 DEF InOrder, BufferInOrder, DetectedInOrder, AnalysedInOrder
  <1> QED
    BY <1>4, <1>6, <1>7 DEF IInv

\* What taking the first of a sequence leaves, and what adding one makes of it.
LEMMA TailFacts ==
    ASSUME NEW S, NEW s \in Seq(S), s # <<>>
    PROVE  /\ Tail(s) \in Seq(S) /\ Len(Tail(s)) = Len(s) - 1
           /\ 1 \in 1..Len(s) /\ Head(s) = s[1] /\ Head(s) \in S
           /\ \A i \in 1..Len(Tail(s)) : i + 1 \in 1..Len(s) /\ Tail(s)[i] = s[i + 1]
  OBVIOUS

LEMMA AppendFacts ==
    ASSUME NEW S, NEW s \in Seq(S), NEW e \in S
    PROVE  /\ Append(s, e) \in Seq(S) /\ Len(Append(s, e)) = Len(s) + 1
           /\ \A i \in 1..Len(s) + 1 : Append(s, e)[i] = IF i = Len(s) + 1 THEN e ELSE s[i]
  OBVIOUS

\* What each part of the invariant depends on.
LEMMA DisplaySideKept ==
    ASSUME DisplaySide, UNCHANGED <<sent, teeAt, queue00, probe, surface, shown>>
    PROVE  DisplaySide'
  BY DEF DisplaySide, ToDisplay, InProbe, InCallback, InDetector

LEMMA InferenceSideKept ==
    ASSUME Counted, InferenceSide,
           UNCHANGED <<sent, teeAt, queue01, analysed, infer, buffer, callback, sample, dropped>>
    PROVE  Counted' /\ InferenceSide'
  BY DEF Counted, InferenceSide, ToInference, Converted, InProbe, InCallback, InDetector

LEMMA InOrderKept ==
    ASSUME InOrder,
           UNCHANGED <<sent, teeAt, queue01, analysed, infer, received, buffer, callback>>
    PROVE  InOrder'
  BY DEF InOrder, BufferInOrder, DetectedInOrder, AnalysedInOrder, ToInference, Converted, Passed

LEMMA SourceStep ==
    ASSUME IInv, SourceDelivers
    PROVE  IInv'
  <1> USE SizesAssumption DEF SourceDelivers
  <1>1. Types'
    BY DEF IInv, Types, probeVars, callbackVars, taskVars, queueVars, resultVars
  <1>2. ToDisplay' = ToDisplay /\ Converted' = Converted
    BY DEF IInv, Types, ToDisplay, ToInference, Converted
  <1>3. DisplaySide' /\ Counted' /\ InferenceSide' /\ InOrder'
    BY <1>2 DEF IInv, DisplaySide, Counted, InferenceSide, InOrder, BufferInOrder, DetectedInOrder,
       AnalysedInOrder, Passed, InProbe, InCallback, InDetector,
       probeVars, callbackVars, taskVars, queueVars, resultVars
  <1> QED
    BY <1>1, <1>3 DEF IInv

LEMMA TeeStep ==
    ASSUME IInv, Tee
    PROVE  IInv'
  <1> USE SizesAssumption
  <1>1. CASE TeeToDisplay
    <2>1. sent \in Pictures
      BY <1>1 DEF TeeToDisplay, IInv, Types, Pictures
    <2>2. Types'
      BY <1>1, <2>1 DEF TeeToDisplay, IInv, Types, probeVars, callbackVars, taskVars, queueVars, resultVars
    <2>3. Converted' = Converted
      BY <1>1 DEF TeeToDisplay, ToInference, Converted
    <2>4. Counted' /\ InferenceSide' /\ InOrder'
      BY <1>1, <2>3 DEF TeeToDisplay, IInv, Counted, InferenceSide, InOrder, BufferInOrder,
         DetectedInOrder, AnalysedInOrder, Passed, InProbe, InCallback, InDetector,
         callbackVars, taskVars, queueVars, resultVars
    <2>5. DisplaySide'
      <3>1. /\ Len(queue00') = Len(queue00) + 1 /\ Len(queue00) \in Nat
            /\ \A i \in 1..Len(queue00) + 1 :
                  queue00'[i] = IF i = Len(queue00) + 1 THEN sent ELSE queue00[i]
        BY <1>1, <2>1, AppendFacts DEF TeeToDisplay, IInv, Types
      <3>2. UNCHANGED <<shown, probe, surface>> /\ InProbe' = InProbe /\ InProbe \in Nat
        BY <1>1 DEF TeeToDisplay, probeVars, InProbe
      <3>3. ToDisplay' = ToDisplay + 1 /\ ToDisplay' = sent /\ ToDisplay \in Int
        BY <1>1 DEF TeeToDisplay, IInv, Types, ToDisplay
      <3>4. /\ ToDisplay = shown + InProbe + Len(queue00) /\ shown \in Nat
            /\ \A i \in 1..Len(queue00) : queue00[i] = shown + InProbe + i
        BY DEF IInv, Types, DisplaySide
      <3>5. \A i \in 1..Len(queue00') : queue00'[i] = shown' + InProbe' + i
        BY <3>1, <3>2, <3>3, <3>4
      <3>6. Len(queue00') <= BranchSize
        BY <1>1, <3>1 DEF TeeToDisplay
      <3>7. ToDisplay' = shown' + InProbe' + Len(queue00')
        BY <3>1, <3>2, <3>3, <3>4
      <3> QED
        BY <3>2, <3>5, <3>6, <3>7 DEF IInv, DisplaySide
    <2> QED
      BY <2>2, <2>4, <2>5 DEF IInv
  <1>2. CASE TeeToInference
    <2>1. sent \in Pictures
      BY <1>2 DEF TeeToInference, IInv, Types, Pictures
    <2>2. Types'
      BY <1>2, <2>1 DEF TeeToInference, IInv, Types, probeVars, callbackVars, taskVars, queueVars, resultVars
    <2>3. Converted' = Converted
      BY <1>2 DEF TeeToInference, IInv, Types, ToInference, Converted
    <2>4. Counted' /\ InOrder'
      BY <1>2, <2>3 DEF TeeToInference, IInv, Counted, InOrder, BufferInOrder, DetectedInOrder,
         AnalysedInOrder, Passed, InProbe, InCallback, InDetector,
         callbackVars, taskVars, queueVars, resultVars
    <2>5. InferenceSide'
      <3>1. /\ Len(queue01') = Len(queue01) + 1
            /\ \A i \in 1..Len(queue01) + 1 :
                  queue01'[i] = IF i = Len(queue01) + 1 THEN sent ELSE queue01[i]
        BY <1>2, <2>1, AppendFacts DEF TeeToInference, IInv, Types
      <3>2. sent = Converted + Len(queue01) + 1
        BY <1>2 DEF TeeToInference, IInv, Types, ToInference, Converted
      <3>3. \A i \in 1..Len(queue01') : queue01'[i] = Converted' + i
        <4>1. Len(queue01) \in Nat /\ \A i \in 1..Len(queue01) : queue01[i] = Converted + i
          BY DEF IInv, Types, InferenceSide
        <4>2. Converted \in Int
          BY <4>1 DEF IInv, Types, Converted, ToInference
        <4> QED
          BY <2>3, <3>1, <3>2, <4>1, <4>2
      <3>4. Len(queue01') <= BranchSize
        BY <1>2, <3>1 DEF TeeToInference, IInv, Types
      <3> QED
        BY <1>2, <2>3, <3>3, <3>4 DEF TeeToInference, IInv, InferenceSide,
           callbackVars, taskVars, queueVars, resultVars
    <2>6. DisplaySide'
      BY <1>2 DEF TeeToInference, IInv, DisplaySide, ToDisplay, InProbe, InCallback, InDetector, probeVars
    <2> QED
      BY <2>2, <2>4, <2>5, <2>6 DEF IInv
  <1> QED
    BY <1>1, <1>2 DEF Tee

LEMMA ProbeStep ==
    ASSUME IInv, Probe
    PROVE  IInv'
  <1> USE SizesAssumption
  <1>1. Counted' /\ InferenceSide' /\ InOrder'
    BY InferenceSideKept, InOrderKept DEF IInv, Probe, ProbeMap, ProbeFetch, ProbeDraw,
       sourceVars, callbackVars, taskVars, queueVars, resultVars
  <1>2. CASE ProbeMap
    <2>1. Head(queue00) \in Pictures /\ Tail(queue00) \in Seq(Pictures)
      BY <1>2 DEF ProbeMap, IInv, Types
    <2>2. Types'
      BY <1>2, <2>1 DEF ProbeMap, IInv, Types, Pictures, callbackVars, taskVars, queueVars, resultVars
    <2>3. /\ Len(queue00') = Len(queue00) - 1 /\ Len(queue00) \in Nat
          /\ 1 \in 1..Len(queue00) /\ Head(queue00) = queue00[1]
          /\ \A i \in 1..Len(queue00') : i + 1 \in 1..Len(queue00) /\ queue00'[i] = queue00[i + 1]
      BY <1>2, TailFacts DEF ProbeMap, IInv, Types
    <2>4. /\ ToDisplay' = ToDisplay /\ InProbe = 0
          /\ shown' + InProbe' = shown + 1
          /\ (probe # "idle")' => surface' = shown' + 1
      BY <1>2, <2>3 DEF ProbeMap, IInv, Types, DisplaySide, ToDisplay, InProbe, InCallback, InDetector
    <2>5. DisplaySide'
      <3>1. /\ ToDisplay = shown + Len(queue00) /\ shown \in Nat
            /\ \A i \in 1..Len(queue00) : queue00[i] = shown + i
        BY <2>4 DEF IInv, Types, DisplaySide
      <3>2. ToDisplay' = shown + 1 + Len(queue00')
        BY <2>3, <2>4, <3>1
      <3>3. \A i \in 1..Len(queue00') : queue00'[i] = shown + 1 + i
        BY <2>3, <3>1
      <3>4. Len(queue00') <= BranchSize
        BY <2>3 DEF IInv, DisplaySide
      <3> QED
        BY <2>4, <3>2, <3>3, <3>4 DEF DisplaySide
    <2> QED
      BY <1>1, <2>2, <2>5 DEF IInv
  <1>3. CASE ProbeFetch
    <2>1. Types'
      BY <1>3 DEF ProbeFetch, Cache!Fetch, IInv, Types, sourceVars, callbackVars, taskVars, queueVars
    <2>2. DisplaySide'
      BY <1>3 DEF ProbeFetch, IInv, DisplaySide, ToDisplay, InProbe, InCallback, InDetector, sourceVars
    <2> QED
      BY <1>1, <2>1, <2>2 DEF IInv
  <1>4. CASE ProbeDraw
    <2>1. surface \in Pictures
      BY <1>4 DEF ProbeDraw, IInv, Types, DisplaySide, Pictures
    <2>2. Types'
      BY <1>4, <2>1 DEF ProbeDraw, IInv, Types, sourceVars, callbackVars, taskVars, queueVars, resultVars
    <2>3. DisplaySide'
      BY <1>4 DEF ProbeDraw, IInv, Types, DisplaySide, ToDisplay, InProbe, InCallback, InDetector, sourceVars
    <2> QED
      BY <1>1, <2>2, <2>3 DEF IInv
  <1> QED
    BY <1>2, <1>3, <1>4 DEF Probe

LEMMA Numbers ==
    ASSUME IInv
    PROVE  /\ ToDisplay \in Int /\ ToInference \in Int /\ Converted \in Int /\ Passed \in Int
           /\ Passed <= Converted
           /\ Len(queue01) \in Nat /\ Len(buffer) \in Nat /\ Len(analysed) \in Nat /\ dropped \in Nat
           /\ \A i \in 1..Len(buffer) : buffer[i].picture \in Nat
           /\ \A i \in 1..Len(analysed) : analysed[i] \in Nat
           /\ infer = "detect" => received["infer"].picture \in Nat
  <1>1. Len(queue01) \in Nat /\ Len(buffer) \in Nat /\ Len(analysed) \in Nat /\ dropped \in Nat
    BY SizesAssumption DEF IInv, Types
  <1>2. ToDisplay \in Int /\ ToInference \in Int
    BY DEF IInv, Types, ToDisplay, ToInference
  <1>3. Converted \in Int
    BY <1>1, <1>2 DEF Converted
  <1>4. Passed \in Int /\ Passed <= Converted
    BY <1>3 DEF Passed
  <1>5. \A i \in 1..Len(buffer) : buffer[i] \in FrameValues
    BY DEF IInv, Types
  <1>6. \A i \in 1..Len(analysed) : analysed[i] \in Pictures
    BY DEF IInv, Types
  <1>7. \A f \in FrameValues : f.picture \in Nat
    BY DEF FrameValues, Pictures
  <1>8. infer = "detect" => received["infer"].picture \in Nat
    BY <1>7 DEF IInv, Types
  <1> QED
    BY <1>1, <1>2, <1>3, <1>4, <1>5, <1>6, <1>7, <1>8 DEF Pictures

LEMMA CallbackStep ==
    ASSUME IInv, Callback
    PROVE  IInv'
  <1>1. CASE Convert
    <2>1. /\ Tail(queue01) \in Seq(Pictures) /\ Len(queue01') = Len(queue01) - 1
          /\ 1 \in 1..Len(queue01) /\ Head(queue01) = queue01[1] /\ Head(queue01) \in Pictures
          /\ \A i \in 1..Len(queue01') : i + 1 \in 1..Len(queue01) /\ queue01'[i] = queue01[i + 1]
      BY <1>1, TailFacts DEF Convert, IInv, Types
    <2>2. sample' \in FrameValues /\ sample'.picture = Head(queue01)
      BY <1>1, <2>1 DEF Convert, FrameValues
    <2>3. Types'
      BY <1>1, <2>1, <2>2 DEF Convert, IInv, Types, probeVars, taskVars, queueVars, resultVars
    <2>4. Converted' = Converted + 1 /\ Passed' = Passed
      BY <1>1, <2>1, Numbers DEF Convert, ToInference, Converted, Passed
    <2>5. DisplaySide'
      BY <1>1, DisplaySideKept DEF Convert, IInv, probeVars
    <2>6. Counted'
      <3>1. InCallback = 0 /\ InCallback' = 1
            /\ InDetector \in {0, 1} /\ InDetector' = InDetector
        BY <1>1 DEF Convert, InProbe, InCallback, InDetector, taskVars
      <3> QED
        BY <1>1, <2>4, <3>1, Numbers DEF Convert, IInv, Counted, queueVars, resultVars
    <2>7. InferenceSide'
      <3>1. \A i \in 1..Len(queue01) : queue01[i] = Converted + i
        BY DEF IInv, InferenceSide
      <3>2. \A i \in 1..Len(queue01') : queue01'[i] = Converted' + i
        BY <2>1, <2>4, <3>1, Numbers
      <3>3. Len(queue01') <= BranchSize
        BY <2>1, Numbers, SizesAssumption DEF IInv, InferenceSide
      <3>4. sample'.picture = Converted'
        BY <2>1, <2>2, <2>4, <3>1, Numbers
      <3> QED
        BY <1>1, <3>2, <3>3, <3>4 DEF Convert, IInv, InferenceSide, queueVars
    <2>8. InOrder'
      BY <1>1, <2>4 DEF Convert, IInv, InOrder, BufferInOrder, DetectedInOrder, AnalysedInOrder,
         taskVars, queueVars, resultVars
    <2> QED
      BY <2>3, <2>5, <2>6, <2>7, <2>8 DEF IInv
  <1>2. CASE SampleDropped
    <2>1. Types'
      BY <1>2, SizesAssumption DEF SampleDropped, IInv, Types, sourceVars, probeVars, taskVars, queueVars, resultVars
    <2>2. Converted' = Converted /\ Passed' = Passed + 1
      BY <1>2, Numbers DEF SampleDropped, ToInference, Converted, Passed, sourceVars
    <2>3. DisplaySide'
      BY <1>2, DisplaySideKept DEF SampleDropped, IInv, probeVars, sourceVars
    <2>4. Counted'
      <3>1. InCallback = 1 /\ InCallback' = 0
            /\ InDetector \in {0, 1} /\ InDetector' = InDetector
        BY <1>2 DEF SampleDropped, InProbe, InCallback, InDetector, taskVars
      <3>2. dropped' = dropped + 1 /\ Len(buffer') = Len(buffer) /\ Len(analysed') = Len(analysed)
        BY <1>2 DEF SampleDropped, queueVars, resultVars
      <3>3. Counted
        BY DEF IInv
      <3> QED
        BY <2>2, <3>1, <3>2, <3>3, Numbers DEF Counted
    <2>5. InferenceSide'
      BY <1>2, <2>2 DEF SampleDropped, IInv, InferenceSide, sourceVars, queueVars
    <2>6. InOrder'
      BY <1>2, <2>2, Numbers DEF SampleDropped, IInv, InOrder, BufferInOrder, DetectedInOrder,
         AnalysedInOrder, taskVars, queueVars, resultVars
    <2> QED
      BY <2>1, <2>3, <2>4, <2>5, <2>6 DEF IInv
  <1>3. CASE SampleProduct
    <2>1. sample \in FrameValues /\ sample.picture = Converted
      BY <1>3 DEF SampleProduct, IInv, Types, InferenceSide
    <2>2. /\ buffer' \in Seq(FrameValues) /\ Len(buffer') = Len(buffer) + 1
          /\ \A i \in 1..Len(buffer) + 1 : buffer'[i] = IF i = Len(buffer) + 1 THEN sample ELSE buffer[i]
      BY <1>3, <2>1, AppendFacts DEF SampleProduct, Queue!Send, IInv, Types
    <2>3. UNCHANGED <<closed, received>> /\ Len(buffer) < QueueSize
      BY <1>3 DEF SampleProduct, Queue!Send
    <2>4. Types'
      BY <1>3, <2>2, <2>3 DEF SampleProduct, IInv, Types, sourceVars, probeVars, taskVars, resultVars
    <2>5. Converted' = Converted /\ Passed' = Passed + 1 /\ sample.picture = Passed'
      BY <1>3, <2>1, Numbers DEF SampleProduct, ToInference, Converted, Passed, sourceVars
    <2>6. DisplaySide'
      BY <1>3, DisplaySideKept DEF SampleProduct, IInv, probeVars, sourceVars
    <2>7. Counted'
      <3>1. InCallback = 1 /\ InCallback' = 0
            /\ InDetector \in {0, 1} /\ InDetector' = InDetector
        BY <1>3 DEF SampleProduct, InProbe, InCallback, InDetector, taskVars
      <3>2. dropped' = dropped /\ Len(analysed') = Len(analysed)
        BY <1>3 DEF SampleProduct, resultVars
      <3>3. Counted
        BY DEF IInv
      <3> QED
        BY <2>2, <2>5, <3>1, <3>2, <3>3, Numbers DEF Counted
    <2>8. InferenceSide'
      <3>1. Len(buffer') <= QueueSize
        BY <2>2, <2>3, Numbers, SizesAssumption
      <3> QED
        BY <1>3, <2>5, <3>1 DEF SampleProduct, IInv, InferenceSide, sourceVars
    <2>9. InOrder'
      <3>1. \A i \in 1..Len(buffer') :
               \/ i = Len(buffer) + 1 /\ buffer'[i] = sample
               \/ i \in 1..Len(buffer) /\ buffer'[i] = buffer[i]
        BY <2>2, Numbers
      <3>2. UNCHANGED <<infer, received, analysed>>
        BY <1>3, <2>3 DEF SampleProduct, taskVars, resultVars
      <3>3. \A p \in Nat : p <= Passed => p < Passed' /\ p <= Passed'
        BY <2>5, Numbers
      <3>4. \A i \in 1..Len(buffer) : buffer[i].picture < Passed' /\ buffer[i].picture <= Passed'
        BY <3>3, Numbers DEF IInv, InOrder, BufferInOrder
      <3>5. Passed' <= Passed'
        BY <2>5, Numbers
      <3>6. BufferInOrder'
        <4>1. \A i \in 1..Len(buffer') : buffer'[i].picture <= Passed'
          BY <2>5, <3>1, <3>4, <3>5
        <4>2. \A i, j \in 1..Len(buffer') : i < j => buffer'[i].picture < buffer'[j].picture
          <5> SUFFICES ASSUME NEW i \in 1..Len(buffer'), NEW j \in 1..Len(buffer'), i < j
                       PROVE  buffer'[i].picture < buffer'[j].picture
            OBVIOUS
          <5>1. i \in 1..Len(buffer) /\ buffer'[i] = buffer[i]
            BY <2>2, <3>1, Numbers
          <5>2. CASE buffer'[j] = sample
            BY <2>5, <3>4, <5>1, <5>2
          <5>3. CASE j \in 1..Len(buffer) /\ buffer'[j] = buffer[j]
            BY <5>1, <5>3 DEF IInv, InOrder, BufferInOrder
          <5> QED
            BY <3>1, <5>2, <5>3
        <4> QED
          BY <4>1, <4>2 DEF BufferInOrder
      <3>7. DetectedInOrder'
        <4> SUFFICES ASSUME infer = "detect"
                     PROVE  /\ received["infer"].picture <= Passed'
                            /\ \A i \in 1..Len(buffer') : received["infer"].picture < buffer'[i].picture
                            /\ \A i \in 1..Len(analysed) : analysed[i] < received["infer"].picture
          BY <3>2 DEF DetectedInOrder
        <4>1. received["infer"].picture < Passed' /\ received["infer"].picture <= Passed'
          BY <3>3, Numbers DEF IInv, InOrder, DetectedInOrder
        <4>2. \A i \in 1..Len(buffer) : received["infer"].picture < buffer[i].picture
          BY DEF IInv, InOrder, DetectedInOrder
        <4> QED
          BY <2>5, <3>1, <4>1, <4>2 DEF IInv, InOrder, DetectedInOrder
      <3>8. AnalysedInOrder'
        <4>1. \A i \in 1..Len(analysed) : analysed[i] < Passed' /\ analysed[i] <= Passed'
          BY <3>3, Numbers DEF IInv, InOrder, AnalysedInOrder
        <4>2. \A i \in 1..Len(analysed), j \in 1..Len(buffer) : analysed[i] < buffer[j].picture
          BY DEF IInv, InOrder, AnalysedInOrder
        <4>3. \A i \in 1..Len(analysed), j \in 1..Len(buffer') : analysed[i] < buffer'[j].picture
          BY <2>5, <3>1, <4>1, <4>2
        <4> QED
          BY <3>2, <4>1, <4>3 DEF IInv, InOrder, AnalysedInOrder
      <3> QED
        BY <3>6, <3>7, <3>8 DEF InOrder
    <2> QED
      BY <2>4, <2>6, <2>7, <2>8, <2>9 DEF IInv
  <1> QED
    BY <1>1, <1>2, <1>3 DEF Callback

LEMMA TaskStep ==
    ASSUME IInv, TaskStart \/ TaskStop \/ InferTest
    PROVE  IInv'
  <1> USE DEF TaskStart, TaskStop, InferTest, Queue!Close,
      sourceVars, probeVars, callbackVars, queueVars, resultVars
  <1>1. Types'
    BY DEF IInv, Types
  <1>2. DisplaySide'
    BY DisplaySideKept DEF IInv
  <1>3. Converted' = Converted /\ Passed' = Passed
    <2>1. UNCHANGED <<sent, teeAt, queue01, callback>>
      OBVIOUS
    <2> QED
      BY <2>1 DEF Converted, ToInference, Passed
  <1>4. (infer = "detect" <=> infer' = "detect") /\ received' = received
    OBVIOUS
  <1>5. Counted'
    BY <1>3, <1>4 DEF IInv, Counted, InProbe, InCallback, InDetector
  <1>6. InferenceSide'
    BY <1>3 DEF IInv, InferenceSide
  <1>7. InOrder'
    BY <1>3, <1>4 DEF IInv, InOrder, BufferInOrder, DetectedInOrder, AnalysedInOrder
  <1> QED
    BY <1>1, <1>2, <1>5, <1>6, <1>7 DEF IInv

LEMMA ConsumeStep ==
    ASSUME IInv, InferConsume
    PROVE  IInv'
  <1>1. DisplaySide' /\ Converted' = Converted /\ Passed' = Passed
    BY DisplaySideKept
       DEF InferConsume, IInv, Converted, ToInference, Passed, sourceVars, probeVars, callbackVars
  <1>2. CASE Queue!Receive("infer") /\ infer' = "detect"
    <2>1. /\ buffer' \in Seq(FrameValues) /\ Len(buffer') = Len(buffer) - 1
          /\ 1 \in 1..Len(buffer) /\ Head(buffer) = buffer[1] /\ Head(buffer) \in FrameValues
          /\ \A i \in 1..Len(buffer') : i + 1 \in 1..Len(buffer) /\ buffer'[i] = buffer[i + 1]
      BY <1>2, TailFacts DEF Queue!Receive, IInv, Types
    <2>2. received'["infer"] = buffer[1] /\ closed' = closed
          /\ received' \in [{"infer"} -> FrameValues \cup {NoFrame}]
      BY <1>2, <2>1 DEF Queue!Receive, IInv, Types
    <2>3. Types'
      BY <1>2, <2>1, <2>2 DEF InferConsume, IInv, Types, sourceVars, probeVars, callbackVars, resultVars
    <2>4. Counted'
      <3>1. InDetector = 0 /\ InDetector' = 1
            /\ InCallback \in {0, 1}
            /\ InCallback' = InCallback
        BY <1>2 DEF InferConsume, InProbe, InCallback, InDetector, callbackVars
      <3> QED
        BY <1>1, <2>1, <3>1, Numbers DEF InferConsume, IInv, Counted, callbackVars, resultVars
    <2>5. InferenceSide'
      <3>1. Len(buffer') <= QueueSize
        BY <2>1, Numbers, SizesAssumption DEF IInv, InferenceSide
      <3> QED
        BY <1>1, <3>1 DEF InferConsume, IInv, InferenceSide, sourceVars, callbackVars
    <2>6. InOrder'
      <3>1. \A i \in 1..Len(buffer') : i + 1 \in 1..Len(buffer) /\ buffer'[i] = buffer[i + 1] /\ 1 < i + 1
        BY <2>1
      <3>2. \A i, j \in 1..Len(buffer') : i < j => i + 1 < j + 1
        OBVIOUS
      <3>3. analysed' = analysed
        BY DEF InferConsume, resultVars
      <3>4. BufferInOrder'
        BY <1>1, <3>1, <3>2 DEF IInv, InOrder, BufferInOrder
      <3>5. DetectedInOrder'
        BY <1>1, <2>1, <2>2, <3>1, <3>3
           DEF IInv, InOrder, BufferInOrder, DetectedInOrder, AnalysedInOrder
      <3>6. AnalysedInOrder'
        BY <1>1, <3>1, <3>3 DEF IInv, InOrder, AnalysedInOrder
      <3> QED
        BY <3>4, <3>5, <3>6 DEF InOrder
    <2> QED
      BY <1>1, <2>3, <2>4, <2>5, <2>6 DEF IInv
  <1>3. CASE Queue!ReceiveClosed("infer") /\ infer' = "test"
    <2> USE <1>3 DEF InferConsume, Queue!ReceiveClosed, sourceVars, probeVars, callbackVars, resultVars
    <2>1. Types'
      BY DEF IInv, Types
    <2>2. infer # "detect" /\ infer' # "detect"
      OBVIOUS
    <2>3. Counted'
      BY <1>1, <2>2 DEF IInv, Counted, InProbe, InCallback, InDetector
    <2>4. InferenceSide'
      BY <1>1 DEF IInv, InferenceSide
    <2>5. InOrder'
      BY <1>1, <2>2 DEF IInv, InOrder, BufferInOrder, DetectedInOrder, AnalysedInOrder
    <2> QED
      BY <1>1, <2>1, <2>3, <2>4, <2>5 DEF IInv
  <1> QED
    BY <1>2, <1>3 DEF InferConsume

LEMMA FeedStep ==
    ASSUME IInv, InferFeed
    PROVE  IInv'
  <1>1. DisplaySide' /\ Converted' = Converted /\ Passed' = Passed
    BY DisplaySideKept
       DEF InferFeed, IInv, Converted, ToInference, Passed, sourceVars, probeVars, callbackVars
  <1>2. received["infer"].picture \in Pictures
    BY DEF InferFeed, IInv, Types, FrameValues
  <1>3. analysed' = Append(analysed, received["infer"].picture)
    BY DEF InferFeed
  <1>4. /\ analysed' \in Seq(Pictures) /\ Len(analysed') = Len(analysed) + 1
        /\ \A i \in 1..Len(analysed) + 1 :
              analysed'[i] = IF i = Len(analysed) + 1 THEN received["infer"].picture ELSE analysed[i]
    <2>1. analysed \in Seq(Pictures)
      BY DEF IInv, Types
    <2> QED
      BY <1>2, <1>3, <2>1, AppendFacts
  <1>5. Types'
    BY <1>4 DEF InferFeed, Cache!Feed, IInv, Types, sourceVars, probeVars, callbackVars, queueVars
  <1>6. Counted'
    <2>1. InDetector = 1 /\ InDetector' = 0
          /\ InCallback \in {0, 1}
          /\ InCallback' = InCallback
      BY DEF InferFeed, InProbe, InCallback, InDetector, callbackVars
    <2> QED
      BY <1>1, <1>4, <2>1, Numbers DEF InferFeed, IInv, Counted, callbackVars, queueVars
  <1>7. InferenceSide'
    BY <1>1 DEF InferFeed, IInv, InferenceSide, sourceVars, callbackVars, queueVars
  <1>8. InOrder'
    <2>1. \A i \in 1..Len(analysed') :
             \/ i = Len(analysed) + 1 /\ analysed'[i] = received["infer"].picture
             \/ i \in 1..Len(analysed) /\ analysed'[i] = analysed[i]
      BY <1>4, Numbers
    <2>2. infer = "detect" /\ infer' = "test" /\ buffer' = buffer
      BY DEF InferFeed, queueVars
    <2>3. BufferInOrder' /\ DetectedInOrder'
      BY <1>1, <2>2 DEF IInv, InOrder, BufferInOrder, DetectedInOrder
    <2>4. AnalysedInOrder'
      <3>1. \A i \in 1..Len(analysed') : analysed'[i] <= Passed'
        BY <1>1, <2>1, <2>2 DEF IInv, InOrder, DetectedInOrder, AnalysedInOrder
      <3>2. \A i \in 1..Len(analysed'), j \in 1..Len(buffer') : analysed'[i] < buffer'[j].picture
        BY <2>1, <2>2 DEF IInv, InOrder, DetectedInOrder, AnalysedInOrder
      <3>3. \A i, j \in 1..Len(analysed') : i < j => analysed'[i] < analysed'[j]
        <4> SUFFICES ASSUME NEW i \in 1..Len(analysed'), NEW j \in 1..Len(analysed'), i < j
                     PROVE  analysed'[i] < analysed'[j]
          OBVIOUS
        <4>1. i \in 1..Len(analysed) /\ analysed'[i] = analysed[i]
          BY <1>4, <2>1, Numbers
        <4> QED
          BY <2>1, <2>2, <4>1 DEF IInv, InOrder, DetectedInOrder, AnalysedInOrder
      <3> QED
        BY <3>1, <3>2, <3>3 DEF AnalysedInOrder
    <2> QED
      BY <2>3, <2>4 DEF InOrder
  <1> QED
    BY <1>1, <1>5, <1>6, <1>7, <1>8 DEF IInv

LEMMA StepIInv == IInv /\ [Next]_vars => IInv'
  <1> SUFFICES ASSUME IInv, [Next]_vars PROVE IInv'
    OBVIOUS
  <1>1. CASE Next
    BY <1>1, SourceStep, TeeStep, ProbeStep, CallbackStep, TaskStep, ConsumeStep, FeedStep
       DEF Next, Inference
  <1>2. CASE UNCHANGED vars
    <2> USE <1>2 DEF vars, sourceVars, probeVars, callbackVars, taskVars, queueVars, resultVars
    <2>1. Types'
      BY DEF IInv, Types
    <2>2. DisplaySide' /\ Counted' /\ InferenceSide' /\ InOrder'
      BY DisplaySideKept, InferenceSideKept, InOrderKept DEF IInv
    <2> QED
      BY <2>1, <2>2 DEF IInv
  <1> QED
    BY <1>1, <1>2

LEMMA Invariance == Spec => []IInv
  BY InitIInv, StepIInv, PTL DEF Spec
-----------------------------------------------------------------------------
\* For any number of pictures and any sizes the variables stay within their
\* types, and the pictures before the probe are those after the last one shown.
THEOREM TypeCorrect == Spec => []TypeOK
  <1>1. IInv => TypeOK
    <2> SUFFICES ASSUME IInv PROVE TypeOK
      OBVIOUS
    <2>1. shown <= ToDisplay /\ Len(analysed) <= Converted
      <3>1. InProbe \in {0, 1} /\ InCallback \in {0, 1} /\ InDetector \in {0, 1}
        BY DEF InProbe, InCallback, InDetector
      <3> QED
        BY <3>1, Numbers DEF IInv, Types, DisplaySide, Counted
    <2>2. ToDisplay <= sent /\ Converted <= sent
      BY Numbers DEF IInv, Types, ToDisplay, ToInference, Converted
    <2>3. shown \in 0..MaxPictures /\ latest \in 0..MaxPictures
      BY <2>1, <2>2, Numbers, SizesAssumption DEF IInv, Types
    <2>4. InProbe = IF probe = "idle" THEN 0 ELSE 1
      BY DEF InProbe
    <2>5. \A i \in 1..Len(queue00) : queue00[i] = shown + i + (IF probe = "idle" THEN 0 ELSE 1)
      BY <2>3, <2>4 DEF IInv, DisplaySide
    <2> QED
      BY <2>3, <2>5 DEF IInv, Types, TypeOK
  <1> QED
    BY <1>1, Invariance, PTL

\* For any sizes, the display is never further ahead of the inference than the
\* two queues and the three threads on the way can hold.
THEOREM DisplayWaits == Spec => []DisplayWaitsForInference
  <1>1. IInv => DisplayWaitsForInference
    <2> SUFFICES ASSUME IInv PROVE DisplayWaitsForInference
      OBVIOUS
    <2>1. shown <= ToDisplay /\ ToDisplay <= ToInference + 1
      BY DEF IInv, Types, DisplaySide, ToDisplay, ToInference, InProbe, InCallback, InDetector
    <2>2. ToInference = Converted + Len(queue01)
      BY Numbers DEF Converted
    <2>3. Converted <= Len(analysed) + 1 + QueueSize + 1 + dropped
      <3>1. InProbe \in {0, 1} /\ InCallback \in {0, 1} /\ InDetector \in {0, 1}
        BY DEF InProbe, InCallback, InDetector
      <3> QED
        BY <3>1, Numbers, SizesAssumption DEF IInv, Counted, InferenceSide
    <2>4. shown \in Nat /\ dropped \in Nat
      BY DEF IInv, Types
    <2> QED
      BY <2>1, <2>2, <2>3, <2>4, Numbers, SizesAssumption
         DEF IInv, InferenceSide, DisplayWaitsForInference
  <1> QED
    BY <1>1, Invariance, PTL

\* The results drawn are of a picture that the inference branch has been given.
LEMMA DrawnIsGiven ==
    ASSUME IInv
    PROVE  Drawn \in Nat /\ (Drawn <= ToInference \/ Drawn = 0)
  <1>1. CASE taken = 0
    BY <1>1 DEF Drawn
  <1>2. CASE taken # 0
    <2>1. taken \in 1..Len(analysed)
      BY <1>2 DEF IInv, Types
    <2>2. analysed[taken] <= Passed /\ analysed[taken] \in Nat
      BY <2>1, Numbers DEF IInv, InOrder, AnalysedInOrder
    <2>3. Converted <= ToInference
      BY Numbers DEF Converted
    <2> QED
      BY <1>2, <2>2, <2>3, Numbers DEF Drawn
  <1> QED
    BY <1>1, <1>2

\* For any sizes, the results drawn over a picture are of one no more than a
\* branch ahead of it.
THEOREM NotFarAhead == Spec => []ResultsNotFarAhead
  <1>1. IInv => ResultsNotFarAhead
    <2> SUFFICES ASSUME IInv, probe = "draw" PROVE Drawn <= surface + BranchSize
      BY DEF ResultsNotFarAhead
    <2>1. ToDisplay <= surface + BranchSize /\ surface \in Nat
      BY SizesAssumption DEF IInv, Types, DisplaySide, ToDisplay, InProbe, InCallback, InDetector
    <2>2. ToInference <= ToDisplay
      BY DEF IInv, Types, ToInference, ToDisplay
    <2> QED
      BY <2>1, <2>2, DrawnIsGiven, Numbers, SizesAssumption
  <1> QED
    BY <1>1, Invariance, PTL

\* For any sizes, the results drawn go forward from picture to picture.
THEOREM GoForward == Spec => ResultsGoForward
  <1>1. IInv /\ IInv' /\ [Next]_vars => [Drawn' >= Drawn]_vars
    <2> SUFFICES ASSUME IInv, IInv', Next PROVE Drawn' >= Drawn
      OBVIOUS
    <2>1. taken' \in Nat /\ taken <= taken' /\ taken \in Nat
      BY DEF Next, SourceDelivers, Tee, TeeToDisplay, TeeToInference, Probe, ProbeMap, ProbeFetch,
         ProbeDraw, Cache!Fetch, Callback, Convert, SampleDropped, SampleProduct, TaskStart,
         Inference, InferTest, InferConsume, InferFeed, Cache!Feed, TaskStop, resultVars, IInv, Types
    <2>2. \A i \in 1..Len(analysed) : i \in 1..Len(analysed') /\ analysed'[i] = analysed[i]
      <3>1. CASE InferFeed
        BY <3>1, AppendFacts DEF InferFeed, IInv, Types, FrameValues
      <3>2. CASE ~InferFeed
        <4>1. analysed' = analysed
          BY <3>2 DEF Next, SourceDelivers, Tee, TeeToDisplay, TeeToInference, Probe, ProbeMap,
             ProbeFetch, ProbeDraw, Callback, Convert, SampleDropped, SampleProduct, TaskStart,
             Inference, InferTest, InferConsume, TaskStop, resultVars
        <4> QED
          BY <4>1
      <3> QED
        BY <3>1, <3>2
    <2>3. CASE taken = 0
      <3>1. Drawn = 0
        BY <2>3 DEF Drawn
      <3>2. CASE taken' = 0
        BY <3>1, <3>2 DEF Drawn
      <3>3. CASE taken' # 0
        <4>1. taken' \in 1..Len(analysed')
          BY <2>1, <3>3 DEF IInv, Types
        <4>2. analysed'[taken'] \in Pictures
          BY <4>1 DEF IInv, Types
        <4> QED
          BY <3>1, <3>3, <4>2 DEF Drawn, Pictures
      <3> QED
        BY <3>2, <3>3
    <2>4. CASE taken # 0
      <3>1. taken \in 1..Len(analysed) /\ taken' \in 1..Len(analysed')
        BY <2>1, <2>4 DEF IInv, Types
      <3>2. analysed'[taken] = analysed[taken] /\ taken \in 1..Len(analysed')
        BY <2>2, <3>1
      <3>3. analysed'[taken] <= analysed'[taken'] /\ analysed'[taken'] \in Nat /\ analysed'[taken] \in Nat
        <4>1. analysed'[taken'] \in Pictures /\ analysed'[taken] \in Pictures
          BY <3>1, <3>2 DEF IInv, Types
        <4>2. taken < taken' => analysed'[taken] < analysed'[taken']
          BY <3>1, <3>2 DEF IInv, InOrder, AnalysedInOrder
        <4> QED
          BY <2>1, <4>1, <4>2 DEF Pictures
      <3> QED
        BY <2>1, <2>4, <3>2, <3>3 DEF Drawn
    <2> QED
      BY <2>3, <2>4
  <1> QED
    BY <1>1, Invariance, PTL DEF Spec, ResultsGoForward

\* For any sizes: the tee, the display thread, the callback and the inference thread
\* wait for each other across two branches and three queues, but never all at once
\* while a picture is still to be shown or, with the task running, to be analysed.
THEOREM RestIsDone == Spec => []NothingLeftAtRest
<1>1. IInv => NothingLeftAtRest
  <2> SUFFICES ASSUME IInv, AtRest
               PROVE  /\ shown = sent
                      /\ infer # "absent" => Len(analysed) + dropped = sent
    BY DEF NothingLeftAtRest
  <2>1. Len(queue00) = 0 /\ probe = "idle" /\ teeAt # "queue00"
    BY SizesAssumption DEF AtRest
  <2>2. shown = sent
    BY <2>1 DEF IInv, Types, DisplaySide, ToDisplay, InProbe
  <2>3. ASSUME infer # "absent"
        PROVE  Len(analysed) + dropped = sent
    <3>1. infer = "consume" /\ Len(buffer) = 0
      BY <2>3 DEF AtRest
    <3>2. callback = "idle" /\ Len(queue01) = 0
      BY <3>1, SizesAssumption DEF AtRest, IInv, Types
    <3>3. teeAt = "done"
      BY <2>1, <3>2, SizesAssumption DEF AtRest, IInv, Types
    <3>4. Converted = sent /\ InDetector = 0 /\ InCallback = 0
      BY <3>1, <3>2, <3>3 DEF IInv, Types, Converted, ToInference, InDetector, InCallback
    <3> QED
      BY <3>1, <3>4, Numbers DEF IInv, Counted
  <2> QED
    BY <2>2, <2>3
<1> QED
  BY <1>1, Invariance, PTL
-----------------------------------------------------------------------------
(* The path as a user of the frame queue and of the result cache *)

LEMMA ParcelStep ==
    ASSUME IInv, [Next]_vars
    PROVE  [Queue!Next]_(Queue!chanVars) /\ [Cache!Next]_(Cache!cacheVars)
  <1> USE DEF Queue!chanVars, Cache!cacheVars, queueVars, resultVars
  <1>1. CASE SourceDelivers \/ Tee
    BY <1>1 DEF SourceDelivers, Tee, TeeToDisplay, TeeToInference
  <1>2. CASE Probe
    BY <1>2 DEF Probe, ProbeMap, ProbeFetch, ProbeDraw, Cache!Next
  <1>3. CASE Convert \/ SampleDropped
    BY <1>3 DEF Convert, SampleDropped
  <1>4. CASE SampleProduct
    <2>1. sample \in FrameValues
      BY <1>4 DEF SampleProduct, IInv, Types
    <2> QED
      BY <1>4, <2>1 DEF SampleProduct, Queue!Next
  <1>5. CASE TaskStart \/ InferTest
    BY <1>5 DEF TaskStart, InferTest
  <1>6. CASE InferConsume
    BY <1>6 DEF InferConsume, Queue!Next
  <1>7. CASE InferFeed
    BY <1>7 DEF InferFeed, Cache!Next
  <1>8. CASE TaskStop
    BY <1>8 DEF TaskStop, Queue!Next
  <1>9. CASE UNCHANGED vars
    BY <1>9 DEF vars
  <1> QED
    BY <1>1, <1>2, <1>3, <1>4, <1>5, <1>6, <1>7, <1>8, <1>9 DEF Next, Callback, Inference

\* Seen from the frame queue and from the result cache, the threads of the path do
\* what FrameChannel and ResultCache say and nothing else, across every start and
\* stop of the task: what goes in is a frame, and nothing changes between two calls.
\* Of the two the path asks no more than those specifications promise.
THEOREM PathRunsQueueAndCache == Spec => Queue!Spec /\ Cache!Spec
<1>1. Init => Queue!Init /\ Cache!Init
  BY DEF Init
<1>2. IInv /\ [Next]_vars => [Queue!Next]_(Queue!chanVars) /\ [Cache!Next]_(Cache!cacheVars)
  BY ParcelStep
<1> QED
  BY <1>1, <1>2, Invariance, PTL DEF Spec, Queue!Spec, Cache!Spec
=============================================================================
