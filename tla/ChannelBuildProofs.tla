------------------------- MODULE ChannelBuildProofs -------------------------
(***************************************************************************)
(* Theorems about ChannelBuild, for any set of members that a request body *)
(* may get wrong.                                                          *)
(***************************************************************************)
EXTENDS ChannelBuild, SequenceTheorems, WellFoundedInduction, TLAPS

-----------------------------------------------------------------------------
(* What the first n steps of a list make, feed into and take from *)

ElementsMade(step) == IF step.op = "make" THEN Pipeline!ToSet(step.chain) ELSE {}
Sinks(step) == {step.chain[i + 1] : i \in 1..Len(step.chain) - 1}
Feeds(step) == {step.chain[i] : i \in 1..Len(step.chain) - 1}

Made(s, n) == UNION {ElementsMade(s[i]) : i \in 1..n}
Fed(s, n) == UNION {Sinks(s[i]) : i \in 1..n}
Feeding(s, n) == UNION {Feeds(s[i]) : i \in 1..n}

\* The names of the elements.
Elements ==
    {"video-pipeline", "uridecodebin0", "v4l2src0", "capfilter0", "jpegdec0",
     "nvvideoconvert2", "capfilter3", "nvstreammux0", "tee0", "queue00", "fakesink0",
     "tee1", "queue10", "nveglglessink0", "queue11", "nvvideoconvert0", "capfilter1",
     "nvv4l2h264enc0", "h264parse0", "flvmux0", "rtmpsink", "queue01",
     "nvvideoconvert1", "capfilter2", "appsink"}

\* How far an element is from a source, whatever lies between them.
Depth ==
    [e \in Elements |->
        CASE e = "v4l2src0" -> 1
          [] e = "capfilter0" -> 2
          [] e = "jpegdec0" -> 3
          [] e = "nvvideoconvert2" -> 4
          [] e \in {"capfilter3", "uridecodebin0"} -> 5
          [] e = "nvstreammux0" -> 6
          [] e = "tee0" -> 7
          [] e \in {"queue00", "queue01"} -> 8
          [] e \in {"fakesink0", "tee1", "nvvideoconvert1"} -> 9
          [] e \in {"queue10", "queue11", "capfilter2"} -> 10
          [] e \in {"nveglglessink0", "nvvideoconvert0", "appsink"} -> 11
          [] e = "capfilter1" -> 12
          [] e = "nvv4l2h264enc0" -> 13
          [] e = "h264parse0" -> 14
          [] e = "flvmux0" -> 15
          [] e = "rtmpsink" -> 16
          [] OTHER -> 0]

\* A link leads away from the source.
Away(l) == Depth[l[1]] < Depth[l[2]]

\* The steps that read nothing but these fields.  A chain leads away from the source,
\* and no element comes twice in it.
Steps(fields) ==
    {step \in [op : {"make", "link", "read"}, chain : Seq(Elements), reads : SUBSET fields] :
        /\ step.op = "make" => Len(step.chain) = 1
        /\ step.op = "read" => step.chain = <<>>
        /\ \A i, j \in 1..Len(step.chain) : step.chain[i] = step.chain[j] => i = j
        /\ \A i \in 1..Len(step.chain) - 1 : Away(<<step.chain[i], step.chain[i + 1]>>)}

\* A step that can be taken when these elements have been made and those fed: what
\* it links is there, and has its sink pad free.
Fits(present, taken, step) ==
    step.op = "link" => /\ Pipeline!ToSet(step.chain) \subseteq present
                        /\ Sinks(step) \cap taken = {}

\* A list of steps, each of which fits when those before it are done, and what all
\* of them together make, feed into and take from.
Builds(fields, present, taken, s, makes, feeds, from) ==
    /\ s \in Seq(Steps(fields))
    /\ \A i \in 1..Len(s) :
          Fits(present \cup Made(s, i - 1), taken \cup Fed(s, i - 1), s[i])
    /\ Made(s, Len(s)) = makes
    /\ Fed(s, Len(s)) = feeds
    /\ Feeding(s, Len(s)) = from

LEMMA Depths ==
    /\ Depth["v4l2src0"] = 1 /\ Depth["capfilter0"] = 2 /\ Depth["jpegdec0"] = 3
    /\ Depth["nvvideoconvert2"] = 4 /\ Depth["capfilter3"] = 5
    /\ Depth["uridecodebin0"] = 5 /\ Depth["nvstreammux0"] = 6 /\ Depth["tee0"] = 7
    /\ Depth["queue00"] = 8 /\ Depth["fakesink0"] = 9 /\ Depth["tee1"] = 9
    /\ Depth["queue10"] = 10 /\ Depth["nveglglessink0"] = 11
    /\ Depth["queue11"] = 10 /\ Depth["nvvideoconvert0"] = 11
    /\ Depth["capfilter1"] = 12 /\ Depth["nvv4l2h264enc0"] = 13
    /\ Depth["h264parse0"] = 14 /\ Depth["flvmux0"] = 15 /\ Depth["rtmpsink"] = 16
    /\ Depth["queue01"] = 8 /\ Depth["nvvideoconvert1"] = 9
    /\ Depth["capfilter2"] = 10 /\ Depth["appsink"] = 11
  BY DEF Depth, Elements

LEMMA DepthIsNat ==
    ASSUME NEW e \in Elements
    PROVE  Depth[e] \in Nat
  BY DEF Depth

LEMMA MakeIsStep ==
    ASSUME NEW fields, NEW e \in Elements, NEW r \in SUBSET fields
    PROVE  /\ Pipeline!Make(e, r) \in Steps(fields)
           /\ Pipeline!Make(e, r).op # "link"
           /\ ElementsMade(Pipeline!Make(e, r)) = {e}
           /\ Sinks(Pipeline!Make(e, r)) = {}
           /\ Feeds(Pipeline!Make(e, r)) = {}
  BY DEF Pipeline!Make, Steps, ElementsMade, Sinks, Feeds, Pipeline!ToSet

LEMMA ReadIsStep ==
    ASSUME NEW fields, NEW r \in SUBSET fields
    PROVE  /\ Pipeline!Read(r) \in Steps(fields)
           /\ Pipeline!Read(r).op # "link"
           /\ ElementsMade(Pipeline!Read(r)) = {}
           /\ Sinks(Pipeline!Read(r)) = {}
           /\ Feeds(Pipeline!Read(r)) = {}
  BY DEF Pipeline!Read, Steps, ElementsMade, Sinks, Feeds, Pipeline!ToSet

LEMMA LinkIsStep ==
    ASSUME NEW fields, NEW chain, NEW n, chain \in Seq(Elements), Len(chain) = n,
           \A i, j \in 1..n : chain[i] = chain[j] => i = j,
           \A i \in 1..n - 1 : Away(<<chain[i], chain[i + 1]>>)
    PROVE  /\ Pipeline!Link(chain) \in Steps(fields)
           /\ Pipeline!Link(chain).op = "link" /\ Pipeline!Link(chain).chain = chain
           /\ ElementsMade(Pipeline!Link(chain)) = {}
  BY DEF Pipeline!Link, Steps, ElementsMade

\* The first steps of a list, one by one.
LEMMA MadeUnrolled ==
    ASSUME NEW s
    PROVE  /\ Made(s, 0) = {}
           /\ Made(s, 1) = ElementsMade(s[1])
           /\ Made(s, 2) = Made(s, 1) \cup ElementsMade(s[2])
           /\ Made(s, 3) = Made(s, 2) \cup ElementsMade(s[3])
           /\ Made(s, 4) = Made(s, 3) \cup ElementsMade(s[4])
           /\ Made(s, 5) = Made(s, 4) \cup ElementsMade(s[5])
           /\ Made(s, 6) = Made(s, 5) \cup ElementsMade(s[6])
           /\ Made(s, 7) = Made(s, 6) \cup ElementsMade(s[7])
           /\ Made(s, 8) = Made(s, 7) \cup ElementsMade(s[8])
  BY DEF Made

LEMMA NextStep ==
    ASSUME NEW s, NEW n \in Nat
    PROVE  /\ Made(s, n + 1) = Made(s, n) \cup ElementsMade(s[n + 1])
           /\ Fed(s, n + 1) = Fed(s, n) \cup Sinks(s[n + 1])
           /\ Feeding(s, n + 1) = Feeding(s, n) \cup Feeds(s[n + 1])
  BY DEF Made, Fed, Feeding

\* The n first steps of a longer list are among its m first.
LEMMA MadeGrows ==
    ASSUME NEW s, NEW m \in Nat, NEW n \in 0..m
    PROVE  /\ Made(s, n) \subseteq Made(s, m)
           /\ Fed(s, n) \subseteq Fed(s, m)
           /\ Feeding(s, n) \subseteq Feeding(s, m)
  BY DEF Made, Fed, Feeding

\* Only a link connects elements.
LEMMA OnlyLinksConnect ==
    ASSUME NEW fields, NEW step \in Steps(fields), step.op # "link"
    PROVE  Sinks(step) = {} /\ Feeds(step) = {}
<1>1. CASE step.op = "make"
  <2>1. Len(step.chain) = 1
    BY <1>1 DEF Steps
  <2>2. QED  BY <2>1 DEF Sinks, Feeds
<1>2. CASE step.op = "read"
  <2>1. Len(step.chain) = 0
    BY <1>2 DEF Steps
  <2>2. QED  BY <2>1 DEF Sinks, Feeds
<1>3. QED  BY <1>1, <1>2 DEF Steps

\* A list with one link, its k-th step.
LEMMA OneLink ==
    ASSUME NEW fields, NEW present, NEW taken, NEW s \in Seq(Steps(fields)),
           NEW k \in 1..Len(s), s[k].op = "link",
           \A i \in 1..Len(s) : i # k => s[i].op # "link",
           Pipeline!ToSet(s[k].chain) \subseteq present \cup Made(s, k - 1),
           Sinks(s[k]) \cap taken = {}
    PROVE  Builds(fields, present, taken, s, Made(s, Len(s)), Sinks(s[k]), Feeds(s[k]))
<1>1. \A i \in 1..Len(s) : i # k => Sinks(s[i]) = {} /\ Feeds(s[i]) = {}
  BY ElementOfSeq, OnlyLinksConnect
<1>2. Len(s) \in Nat
  BY LenProperties
<1>3. Fed(s, Len(s)) = Sinks(s[k])
  BY <1>1 DEF Fed
<1>4. Feeding(s, Len(s)) = Feeds(s[k])
  BY <1>1 DEF Feeding
<1>5. \A i \in 1..k - 1 : i \in 1..Len(s) /\ i # k
  BY <1>2
<1>6. Fed(s, k - 1) = {}
  BY <1>1, <1>5 DEF Fed
<1>7. QED  BY <1>3, <1>4, <1>6 DEF Builds, Fits

LEMMA NoLink ==
    ASSUME NEW fields, NEW present, NEW taken, NEW s \in Seq(Steps(fields)),
           \A i \in 1..Len(s) : s[i].op # "link"
    PROVE  Builds(fields, present, taken, s, Made(s, Len(s)), {}, {})
<1>1. \A i \in 1..Len(s) : Sinks(s[i]) = {} /\ Feeds(s[i]) = {}
  BY ElementOfSeq, OnlyLinksConnect
<1>2. Fed(s, Len(s)) = {}
  BY <1>1 DEF Fed
<1>3. Feeding(s, Len(s)) = {}
  BY <1>1 DEF Feeding
<1>4. QED  BY <1>2, <1>3 DEF Builds, Fits

LEMMA EmptyBuilds ==
    ASSUME NEW fields, NEW present, NEW taken
    PROVE  Builds(fields, present, taken, <<>>, {}, {}, {})
  BY DEF Builds, Made, Fed, Feeding

\* A list after another.
LEMMA ConcatBuilds ==
    ASSUME NEW fields, NEW present, NEW taken,
           NEW s, NEW m, NEW f, NEW o, NEW t, NEW m2, NEW f2, NEW o2,
           Builds(fields, present, taken, s, m, f, o),
           Builds(fields, present \cup m, taken \cup f, t, m2, f2, o2)
    PROVE  Builds(fields, present, taken, s \o t, m \cup m2, f \cup f2, o \cup o2)
<1> DEFINE st == s \o t
<1>1. /\ s \in Seq(Steps(fields)) /\ t \in Seq(Steps(fields))
      /\ Len(s) \in Nat /\ Len(t) \in Nat
      /\ Made(s, Len(s)) = m /\ Fed(s, Len(s)) = f /\ Feeding(s, Len(s)) = o
      /\ Made(t, Len(t)) = m2 /\ Fed(t, Len(t)) = f2 /\ Feeding(t, Len(t)) = o2
  BY LenProperties DEF Builds
<1>2. /\ st \in Seq(Steps(fields))
      /\ Len(st) = Len(s) + Len(t)
      /\ \A i \in 1..Len(s) + Len(t) :
            st[i] = IF i <= Len(s) THEN s[i] ELSE t[i - Len(s)]
  BY <1>1, ConcatProperties
<1>3. /\ \A i \in 1..Len(s) : st[i] = s[i]
      /\ \A i \in 1..Len(t) : st[Len(s) + i] = t[i]
  <2>1. ASSUME NEW i \in 1..Len(t)
        PROVE  /\ Len(s) + i \in 1..Len(s) + Len(t)
               /\ ~(Len(s) + i <= Len(s))
               /\ (Len(s) + i) - Len(s) = i
    BY <1>1
  <2>2. QED  BY <1>1, <1>2, <2>1
<1> HIDE DEF st
<1>4. ASSUME NEW n \in 0..Len(s)
      PROVE  Made(st, n) = Made(s, n) /\ Fed(st, n) = Fed(s, n) /\ Feeding(st, n) = Feeding(s, n)
  <2>1. \A i \in 1..n : i \in 1..Len(s) /\ st[i] = s[i]
    BY <1>1, <1>3
  <2>2. QED  BY <2>1 DEF Made, Fed, Feeding
<1>5. ASSUME NEW n \in 0..Len(t)
      PROVE  /\ Made(st, Len(s) + n) = m \cup Made(t, n)
             /\ Fed(st, Len(s) + n) = f \cup Fed(t, n)
             /\ Feeding(st, Len(s) + n) = o \cup Feeding(t, n)
  <2>1. \A i \in 1..Len(s) + n : i \in 1..Len(s) \/ (i - Len(s) \in 1..n /\ st[i] = t[i - Len(s)])
    BY <1>1, <1>2
  <2>2. \A i \in 1..n : Len(s) + i \in 1..Len(s) + n /\ st[Len(s) + i] = t[i]
    BY <1>1, <1>3
  <2>3. \A i \in 1..Len(s) : i \in 1..Len(s) + n
    BY <1>1
  <2>4. Made(st, Len(s) + n) = Made(s, Len(s)) \cup Made(t, n)
    BY <2>1, <2>2, <2>3, <1>3 DEF Made
  <2>5. Fed(st, Len(s) + n) = Fed(s, Len(s)) \cup Fed(t, n)
    BY <2>1, <2>2, <2>3, <1>3 DEF Fed
  <2>6. Feeding(st, Len(s) + n) = Feeding(s, Len(s)) \cup Feeding(t, n)
    BY <2>1, <2>2, <2>3, <1>3 DEF Feeding
  <2>7. QED  BY <1>1, <2>4, <2>5, <2>6
<1>6. ASSUME NEW i \in 1..Len(st)
      PROVE  Fits(present \cup Made(st, i - 1), taken \cup Fed(st, i - 1), st[i])
  <2>1. CASE i <= Len(s)
    <3>1. i \in 1..Len(s) /\ i - 1 \in 0..Len(s) /\ st[i] = s[i]
      BY <2>1, <1>1, <1>2, <1>3
    <3>2. Fits(present \cup Made(s, i - 1), taken \cup Fed(s, i - 1), s[i])
      BY <3>1 DEF Builds
    <3>3. Made(st, i - 1) = Made(s, i - 1) /\ Fed(st, i - 1) = Fed(s, i - 1)
      BY <3>1, <1>4
    <3>4. QED  BY <3>1, <3>2, <3>3
  <2>2. CASE i > Len(s)
    <3> DEFINE j == i - Len(s)
    <3>1. j \in 1..Len(t) /\ st[i] = t[j] /\ j - 1 \in 0..Len(t) /\ i - 1 = Len(s) + (j - 1)
      BY <2>2, <1>1, <1>2
    <3>2. Made(st, i - 1) = m \cup Made(t, j - 1) /\ Fed(st, i - 1) = f \cup Fed(t, j - 1)
      BY <3>1, <1>5
    <3>3. Fits((present \cup m) \cup Made(t, j - 1), (taken \cup f) \cup Fed(t, j - 1), t[j])
      BY <3>1 DEF Builds
    <3>4. QED  BY <3>1, <3>2, <3>3 DEF Fits
  <2>3. QED  BY <2>1, <2>2, <1>1
<1>7. /\ Made(st, Len(st)) = m \cup m2
      /\ Fed(st, Len(st)) = f \cup f2
      /\ Feeding(st, Len(st)) = o \cup o2
  BY <1>1, <1>2, <1>5
<1>8. QED  BY <1>2, <1>6, <1>7 DEF Builds, st

-----------------------------------------------------------------------------
(* The lists that Create is made of *)

\* The lists that the source does not name.
Opening == <<Pipeline!Make("video-pipeline", {}), Pipeline!Read({"input_type"})>>
Muxer ==
    <<Pipeline!Make("nvstreammux0", {"src_width", "src_height", "src_sync",
                                     "src_memory_type", "src_live_source"})>>
CameraToMuxer == <<Pipeline!Link(<<"capfilter3", "nvstreammux0">>)>>
Tee ==
    <<Pipeline!Make("tee0", {}), Pipeline!Make("queue00", {}),
      Pipeline!Link(<<"nvstreammux0", "tee0", "queue00">>),
      Pipeline!Read({"enable_hdmi", "enable_rtmp"})>>
ToFakesink == <<Pipeline!Make("fakesink0", {}), Pipeline!Link(<<"queue00", "fakesink0">>)>>
ToDisplays == <<Pipeline!Make("tee1", {}), Pipeline!Link(<<"queue00", "tee1">>)>>
TestAppsink == <<Pipeline!Read({"enable_appsink"})>>
ToAppsink ==
    <<Pipeline!Make("queue01", {}), Pipeline!Make("nvvideoconvert1", {"cvt_memory_type"}),
      Pipeline!Read({"cvt_format"}), Pipeline!Make("capfilter2", {}),
      Pipeline!Make("appsink", {}),
      Pipeline!Link(<<"tee0", "queue01", "nvvideoconvert1", "capfilter2", "appsink">>)>>

LEMMA TupleOf4 ==
    ASSUME NEW S, NEW a \in S, NEW b \in S, NEW c \in S, NEW d \in S
    PROVE  <<a, b, c, d>> \in Seq(S) /\ Len(<<a, b, c, d>>) = 4
  OBVIOUS

LEMMA TupleOf5 ==
    ASSUME NEW S, NEW a \in S, NEW b \in S, NEW c \in S, NEW d \in S, NEW e \in S
    PROVE  <<a, b, c, d, e>> \in Seq(S) /\ Len(<<a, b, c, d, e>>) = 5
  OBVIOUS

LEMMA TupleOf6 ==
    ASSUME NEW S, NEW a \in S, NEW b \in S, NEW c \in S, NEW d \in S, NEW e \in S, NEW f \in S
    PROVE  <<a, b, c, d, e, f>> \in Seq(S) /\ Len(<<a, b, c, d, e, f>>) = 6
  OBVIOUS

LEMMA TupleOf8 ==
    ASSUME NEW S, NEW a \in S, NEW b \in S, NEW c \in S, NEW d \in S, NEW e \in S,
           NEW f \in S, NEW g \in S, NEW h \in S
    PROVE  <<a, b, c, d, e, f, g, h>> \in Seq(S) /\ Len(<<a, b, c, d, e, f, g, h>>) = 8
  OBVIOUS

LEMMA OpeningBuilds ==
    ASSUME NEW fields, NEW present, NEW taken,
           {"input_type"} \subseteq fields
    PROVE  Builds(fields, present, taken, Opening, {"video-pipeline"}, {}, {})
<1> DEFINE a == Pipeline!Make("video-pipeline", {})
           b == Pipeline!Read({"input_type"})
<1>1. /\ a \in Steps(fields) /\ a.op # "link" /\ ElementsMade(a) = {"video-pipeline"}
      /\ b \in Steps(fields) /\ b.op # "link" /\ ElementsMade(b) = {}
  BY MakeIsStep, ReadIsStep DEF Elements
<1> DEFINE s == <<a, b>>
<1>4. s = Opening
  BY DEF Opening
<1> HIDE DEF a, b
<1>6. s \in Seq(Steps(fields)) /\ Len(s) = 2
  BY <1>1
<1>7. s[1] = a /\ s[2] = b
  OBVIOUS
<1> HIDE DEF s
<1>8. Made(s, 2) = {"video-pipeline"}
  BY <1>1, <1>7, MadeUnrolled
<1>9. \A i \in 1..2 : s[i].op # "link"
  BY <1>1, <1>7
<1>11. QED  BY <1>4, <1>6, <1>8, <1>9, NoLink

LEMMA UridecodebinBuilds ==
    ASSUME NEW fields, NEW present, NEW taken,
           {"src_uri"} \subseteq fields
    PROVE  Builds(fields, present, taken, Pipeline!CreateUridecodebin, {"uridecodebin0"}, {}, {})
<1> DEFINE a == Pipeline!Make("uridecodebin0", {"src_uri"})
<1>1. /\ a \in Steps(fields) /\ a.op # "link" /\ ElementsMade(a) = {"uridecodebin0"}
  BY MakeIsStep, ReadIsStep DEF Elements
<1> DEFINE s == <<a>>
<1>4. s = Pipeline!CreateUridecodebin
  BY DEF Pipeline!CreateUridecodebin
<1> HIDE DEF a
<1>6. s \in Seq(Steps(fields)) /\ Len(s) = 1
  BY <1>1
<1>7. s[1] = a
  OBVIOUS
<1> HIDE DEF s
<1>8. Made(s, 1) = {"uridecodebin0"}
  BY <1>1, <1>7, MadeUnrolled
<1>9. \A i \in 1..1 : s[i].op # "link"
  BY <1>1, <1>7
<1>11. QED  BY <1>4, <1>6, <1>8, <1>9, NoLink

LEMMA CameraBuilds ==
    ASSUME NEW fields, NEW present, NEW taken,
           {"cvt_format", "cvt_memory_type", "src_device", "src_format",
            "src_framerate_d", "src_framerate_n", "src_height", "src_width"} \subseteq fields,
           taken \cap {"capfilter0", "jpegdec0", "nvvideoconvert2", "capfilter3"} = {}
    PROVE  Builds(fields, present, taken, Pipeline!CreateV4l2src,
                  {"v4l2src0", "capfilter0", "jpegdec0", "nvvideoconvert2",
                   "capfilter3"},
                  {"capfilter0", "jpegdec0", "nvvideoconvert2", "capfilter3"},
                  {"v4l2src0", "capfilter0", "jpegdec0", "nvvideoconvert2"})
<1> DEFINE a == Pipeline!Make("v4l2src0", {"src_device"})
           b == Pipeline!Read({"src_width", "src_height", "src_framerate_n",
                                 "src_framerate_d", "src_format"})
           c == Pipeline!Make("capfilter0", {})
           d == Pipeline!Make("jpegdec0", {})
           e == Pipeline!Make("nvvideoconvert2", {"cvt_memory_type"})
           f == Pipeline!Read({"cvt_format"})
           g == Pipeline!Make("capfilter3", {})
           chain == <<"v4l2src0", "capfilter0", "jpegdec0", "nvvideoconvert2",
                     "capfilter3">>
           h == Pipeline!Link(chain)
<1>1. /\ a \in Steps(fields) /\ a.op # "link" /\ ElementsMade(a) = {"v4l2src0"}
      /\ b \in Steps(fields) /\ b.op # "link" /\ ElementsMade(b) = {}
      /\ c \in Steps(fields) /\ c.op # "link" /\ ElementsMade(c) = {"capfilter0"}
      /\ d \in Steps(fields) /\ d.op # "link" /\ ElementsMade(d) = {"jpegdec0"}
      /\ e \in Steps(fields) /\ e.op # "link" /\ ElementsMade(e) = {"nvvideoconvert2"}
      /\ f \in Steps(fields) /\ f.op # "link" /\ ElementsMade(f) = {}
      /\ g \in Steps(fields) /\ g.op # "link" /\ ElementsMade(g) = {"capfilter3"}
  BY MakeIsStep, ReadIsStep DEF Elements
<1>2. chain \in Seq(Elements) /\ Len(chain) = 5
  BY TupleOf5 DEF Elements
<1>3. \A i, j \in 1..5 : chain[i] = chain[j] => i = j
  OBVIOUS
<1>4. \A i \in 1..5 - 1 : Away(<<chain[i], chain[i + 1]>>)
  BY Depths DEF Away
<1> HIDE DEF chain
<1>5. h \in Steps(fields) /\ h.op = "link" /\ h.chain = chain /\ ElementsMade(h) = {}
  BY <1>2, <1>3, <1>4, LinkIsStep
<1> DEFINE s == <<a, b, c, d, e, f, g, h>>
<1>6. s = Pipeline!CreateV4l2src
  BY DEF Pipeline!CreateV4l2src, chain
<1> HIDE DEF a, b, c, d, e, f, g, h
<1>7. /\ Pipeline!ToSet(h.chain) = {"v4l2src0", "capfilter0", "jpegdec0",
                                    "nvvideoconvert2", "capfilter3"}
      /\ Sinks(h) = {"capfilter0", "jpegdec0", "nvvideoconvert2", "capfilter3"}
      /\ Feeds(h) = {"v4l2src0", "capfilter0", "jpegdec0", "nvvideoconvert2"}
  BY <1>2, <1>5 DEF Pipeline!ToSet, Sinks, Feeds, chain
<1>8. s \in Seq(Steps(fields)) /\ Len(s) = 8
  BY <1>1, <1>5, TupleOf8
<1>9. /\ s[1] = a /\ s[2] = b /\ s[3] = c /\ s[4] = d
      /\ s[5] = e /\ s[6] = f /\ s[7] = g /\ s[8] = h
  OBVIOUS
<1> HIDE DEF s
<1>10. /\ Made(s, 7) = {"v4l2src0", "capfilter0", "jpegdec0", "nvvideoconvert2",
                       "capfilter3"}
      /\ Made(s, 8) = {"v4l2src0", "capfilter0", "jpegdec0", "nvvideoconvert2",
                       "capfilter3"}
  BY <1>1, <1>5, <1>9, MadeUnrolled
<1>11. s[8].op = "link" /\ \A i \in 1..Len(s) : i # 8 => s[i].op # "link"
  BY <1>1, <1>5, <1>8, <1>9
<1>12. Builds(fields, present, taken, s, Made(s, Len(s)), Sinks(s[8]), Feeds(s[8]))
  <2>1. Pipeline!ToSet(s[8].chain) \subseteq present \cup Made(s, 8 - 1)
    BY <1>7, <1>9, <1>10
  <2>2. Sinks(s[8]) \cap taken = {}
    BY <1>7, <1>9
  <2>3. 8 \in 1..Len(s)
    BY <1>8
  <2>4. QED  BY <1>8, <1>11, <2>1, <2>2, <2>3, OneLink
<1>13. QED  BY <1>6, <1>7, <1>8, <1>9, <1>10, <1>12

LEMMA MuxBuilds ==
    ASSUME NEW fields, NEW present, NEW taken,
           {"src_height", "src_live_source", "src_memory_type", "src_sync",
            "src_width"} \subseteq fields
    PROVE  Builds(fields, present, taken, Muxer, {"nvstreammux0"}, {}, {})
<1> DEFINE a == Pipeline!Make("nvstreammux0", {"src_width", "src_height", "src_sync",
                                         "src_memory_type", "src_live_source"})
<1>1. /\ a \in Steps(fields) /\ a.op # "link" /\ ElementsMade(a) = {"nvstreammux0"}
  BY MakeIsStep, ReadIsStep DEF Elements
<1> DEFINE s == <<a>>
<1>4. s = Muxer
  BY DEF Muxer
<1> HIDE DEF a
<1>6. s \in Seq(Steps(fields)) /\ Len(s) = 1
  BY <1>1
<1>7. s[1] = a
  OBVIOUS
<1> HIDE DEF s
<1>8. Made(s, 1) = {"nvstreammux0"}
  BY <1>1, <1>7, MadeUnrolled
<1>9. \A i \in 1..1 : s[i].op # "link"
  BY <1>1, <1>7
<1>11. QED  BY <1>4, <1>6, <1>8, <1>9, NoLink

LEMMA CameraToMuxBuilds ==
    ASSUME NEW fields, NEW present, NEW taken,
           {"capfilter3", "nvstreammux0"} \subseteq present,
           taken \cap {"nvstreammux0"} = {}
    PROVE  Builds(fields, present, taken, CameraToMuxer,
                  {},
                  {"nvstreammux0"},
                  {"capfilter3"})
<1> DEFINE chain == <<"capfilter3", "nvstreammux0">>
           a == Pipeline!Link(chain)
<1>1. chain \in Seq(Elements) /\ Len(chain) = 2
  BY DEF Elements
<1>2. \A i, j \in 1..2 : chain[i] = chain[j] => i = j
  OBVIOUS
<1>3. \A i \in 1..2 - 1 : Away(<<chain[i], chain[i + 1]>>)
  BY Depths DEF Away
<1> HIDE DEF chain
<1>4. a \in Steps(fields) /\ a.op = "link" /\ a.chain = chain /\ ElementsMade(a) = {}
  BY <1>1, <1>2, <1>3, LinkIsStep
<1> DEFINE s == <<a>>
<1>5. s = CameraToMuxer
  BY DEF CameraToMuxer, chain
<1> HIDE DEF a
<1>6. /\ Pipeline!ToSet(a.chain) = {"capfilter3", "nvstreammux0"}
      /\ Sinks(a) = {"nvstreammux0"}
      /\ Feeds(a) = {"capfilter3"}
  BY <1>1, <1>4 DEF Pipeline!ToSet, Sinks, Feeds, chain
<1>7. s \in Seq(Steps(fields)) /\ Len(s) = 1
  BY <1>4
<1>8. s[1] = a
  OBVIOUS
<1> HIDE DEF s
<1>9. /\ Made(s, 0) = {}
      /\ Made(s, 1) = {}
  BY <1>4, <1>8, MadeUnrolled
<1>10. s[1].op = "link" /\ \A i \in 1..Len(s) : i # 1 => s[i].op # "link"
  BY <1>4, <1>7, <1>8
<1>11. Builds(fields, present, taken, s, Made(s, Len(s)), Sinks(s[1]), Feeds(s[1]))
  <2>1. Pipeline!ToSet(s[1].chain) \subseteq present \cup Made(s, 1 - 1)
    BY <1>6, <1>8, <1>9
  <2>2. Sinks(s[1]) \cap taken = {}
    BY <1>6, <1>8
  <2>3. 1 \in 1..Len(s)
    BY <1>7
  <2>4. QED  BY <1>7, <1>10, <2>1, <2>2, <2>3, OneLink
<1>12. QED  BY <1>5, <1>6, <1>7, <1>8, <1>9, <1>11

LEMMA TeeBuilds ==
    ASSUME NEW fields, NEW present, NEW taken,
           {"enable_hdmi", "enable_rtmp"} \subseteq fields,
           {"nvstreammux0"} \subseteq present,
           taken \cap {"tee0", "queue00"} = {}
    PROVE  Builds(fields, present, taken, Tee,
                  {"tee0", "queue00"},
                  {"tee0", "queue00"},
                  {"nvstreammux0", "tee0"})
<1> DEFINE a == Pipeline!Make("tee0", {})
           b == Pipeline!Make("queue00", {})
           chain == <<"nvstreammux0", "tee0", "queue00">>
           c == Pipeline!Link(chain)
           d == Pipeline!Read({"enable_hdmi", "enable_rtmp"})
<1>1. /\ a \in Steps(fields) /\ a.op # "link" /\ ElementsMade(a) = {"tee0"}
      /\ b \in Steps(fields) /\ b.op # "link" /\ ElementsMade(b) = {"queue00"}
      /\ d \in Steps(fields) /\ d.op # "link" /\ ElementsMade(d) = {}
  BY MakeIsStep, ReadIsStep DEF Elements
<1>2. chain \in Seq(Elements) /\ Len(chain) = 3
  BY DEF Elements
<1>3. \A i, j \in 1..3 : chain[i] = chain[j] => i = j
  OBVIOUS
<1>4. \A i \in 1..3 - 1 : Away(<<chain[i], chain[i + 1]>>)
  BY Depths DEF Away
<1> HIDE DEF chain
<1>5. c \in Steps(fields) /\ c.op = "link" /\ c.chain = chain /\ ElementsMade(c) = {}
  BY <1>2, <1>3, <1>4, LinkIsStep
<1> DEFINE s == <<a, b, c, d>>
<1>6. s = Tee
  BY DEF Tee, chain
<1> HIDE DEF a, b, c, d
<1>7. /\ Pipeline!ToSet(c.chain) = {"nvstreammux0", "tee0", "queue00"}
      /\ Sinks(c) = {"tee0", "queue00"}
      /\ Feeds(c) = {"nvstreammux0", "tee0"}
  BY <1>2, <1>5 DEF Pipeline!ToSet, Sinks, Feeds, chain
<1>8. s \in Seq(Steps(fields)) /\ Len(s) = 4
  BY <1>1, <1>5, TupleOf4
<1>9. s[1] = a /\ s[2] = b /\ s[3] = c /\ s[4] = d
  OBVIOUS
<1> HIDE DEF s
<1>10. /\ Made(s, 2) = {"tee0", "queue00"}
      /\ Made(s, 4) = {"tee0", "queue00"}
  BY <1>1, <1>5, <1>9, MadeUnrolled
<1>11. s[3].op = "link" /\ \A i \in 1..Len(s) : i # 3 => s[i].op # "link"
  BY <1>1, <1>5, <1>8, <1>9
<1>12. Builds(fields, present, taken, s, Made(s, Len(s)), Sinks(s[3]), Feeds(s[3]))
  <2>1. Pipeline!ToSet(s[3].chain) \subseteq present \cup Made(s, 3 - 1)
    BY <1>7, <1>9, <1>10
  <2>2. Sinks(s[3]) \cap taken = {}
    BY <1>7, <1>9
  <2>3. 3 \in 1..Len(s)
    BY <1>8
  <2>4. QED  BY <1>8, <1>11, <2>1, <2>2, <2>3, OneLink
<1>13. QED  BY <1>6, <1>7, <1>8, <1>9, <1>10, <1>12

LEMMA FakesinkBuilds ==
    ASSUME NEW fields, NEW present, NEW taken,
           {"queue00"} \subseteq present,
           taken \cap {"fakesink0"} = {}
    PROVE  Builds(fields, present, taken, ToFakesink,
                  {"fakesink0"},
                  {"fakesink0"},
                  {"queue00"})
<1> DEFINE a == Pipeline!Make("fakesink0", {})
           chain == <<"queue00", "fakesink0">>
           b == Pipeline!Link(chain)
<1>1. /\ a \in Steps(fields) /\ a.op # "link" /\ ElementsMade(a) = {"fakesink0"}
  BY MakeIsStep, ReadIsStep DEF Elements
<1>2. chain \in Seq(Elements) /\ Len(chain) = 2
  BY DEF Elements
<1>3. \A i, j \in 1..2 : chain[i] = chain[j] => i = j
  OBVIOUS
<1>4. \A i \in 1..2 - 1 : Away(<<chain[i], chain[i + 1]>>)
  BY Depths DEF Away
<1> HIDE DEF chain
<1>5. b \in Steps(fields) /\ b.op = "link" /\ b.chain = chain /\ ElementsMade(b) = {}
  BY <1>2, <1>3, <1>4, LinkIsStep
<1> DEFINE s == <<a, b>>
<1>6. s = ToFakesink
  BY DEF ToFakesink, chain
<1> HIDE DEF a, b
<1>7. /\ Pipeline!ToSet(b.chain) = {"queue00", "fakesink0"}
      /\ Sinks(b) = {"fakesink0"}
      /\ Feeds(b) = {"queue00"}
  BY <1>2, <1>5 DEF Pipeline!ToSet, Sinks, Feeds, chain
<1>8. s \in Seq(Steps(fields)) /\ Len(s) = 2
  BY <1>1, <1>5
<1>9. s[1] = a /\ s[2] = b
  OBVIOUS
<1> HIDE DEF s
<1>10. /\ Made(s, 1) = {"fakesink0"}
      /\ Made(s, 2) = {"fakesink0"}
  BY <1>1, <1>5, <1>9, MadeUnrolled
<1>11. s[2].op = "link" /\ \A i \in 1..Len(s) : i # 2 => s[i].op # "link"
  BY <1>1, <1>5, <1>8, <1>9
<1>12. Builds(fields, present, taken, s, Made(s, Len(s)), Sinks(s[2]), Feeds(s[2]))
  <2>1. Pipeline!ToSet(s[2].chain) \subseteq present \cup Made(s, 2 - 1)
    BY <1>7, <1>9, <1>10
  <2>2. Sinks(s[2]) \cap taken = {}
    BY <1>7, <1>9
  <2>3. 2 \in 1..Len(s)
    BY <1>8
  <2>4. QED  BY <1>8, <1>11, <2>1, <2>2, <2>3, OneLink
<1>13. QED  BY <1>6, <1>7, <1>8, <1>9, <1>10, <1>12

LEMMA DisplayTeeBuilds ==
    ASSUME NEW fields, NEW present, NEW taken,
           {"queue00"} \subseteq present,
           taken \cap {"tee1"} = {}
    PROVE  Builds(fields, present, taken, ToDisplays,
                  {"tee1"},
                  {"tee1"},
                  {"queue00"})
<1> DEFINE a == Pipeline!Make("tee1", {})
           chain == <<"queue00", "tee1">>
           b == Pipeline!Link(chain)
<1>1. /\ a \in Steps(fields) /\ a.op # "link" /\ ElementsMade(a) = {"tee1"}
  BY MakeIsStep, ReadIsStep DEF Elements
<1>2. chain \in Seq(Elements) /\ Len(chain) = 2
  BY DEF Elements
<1>3. \A i, j \in 1..2 : chain[i] = chain[j] => i = j
  OBVIOUS
<1>4. \A i \in 1..2 - 1 : Away(<<chain[i], chain[i + 1]>>)
  BY Depths DEF Away
<1> HIDE DEF chain
<1>5. b \in Steps(fields) /\ b.op = "link" /\ b.chain = chain /\ ElementsMade(b) = {}
  BY <1>2, <1>3, <1>4, LinkIsStep
<1> DEFINE s == <<a, b>>
<1>6. s = ToDisplays
  BY DEF ToDisplays, chain
<1> HIDE DEF a, b
<1>7. /\ Pipeline!ToSet(b.chain) = {"queue00", "tee1"}
      /\ Sinks(b) = {"tee1"}
      /\ Feeds(b) = {"queue00"}
  BY <1>2, <1>5 DEF Pipeline!ToSet, Sinks, Feeds, chain
<1>8. s \in Seq(Steps(fields)) /\ Len(s) = 2
  BY <1>1, <1>5
<1>9. s[1] = a /\ s[2] = b
  OBVIOUS
<1> HIDE DEF s
<1>10. /\ Made(s, 1) = {"tee1"}
      /\ Made(s, 2) = {"tee1"}
  BY <1>1, <1>5, <1>9, MadeUnrolled
<1>11. s[2].op = "link" /\ \A i \in 1..Len(s) : i # 2 => s[i].op # "link"
  BY <1>1, <1>5, <1>8, <1>9
<1>12. Builds(fields, present, taken, s, Made(s, Len(s)), Sinks(s[2]), Feeds(s[2]))
  <2>1. Pipeline!ToSet(s[2].chain) \subseteq present \cup Made(s, 2 - 1)
    BY <1>7, <1>9, <1>10
  <2>2. Sinks(s[2]) \cap taken = {}
    BY <1>7, <1>9
  <2>3. 2 \in 1..Len(s)
    BY <1>8
  <2>4. QED  BY <1>8, <1>11, <2>1, <2>2, <2>3, OneLink
<1>13. QED  BY <1>6, <1>7, <1>8, <1>9, <1>10, <1>12

LEMMA HdmiBuilds ==
    ASSUME NEW fields, NEW present, NEW taken,
           {"hdmi_sync", "window_height", "window_width", "window_x", "window_y"} \subseteq fields,
           {"tee1"} \subseteq present,
           taken \cap {"queue10", "nveglglessink0"} = {}
    PROVE  Builds(fields, present, taken, Pipeline!Hdmi,
                  {"queue10", "nveglglessink0"},
                  {"queue10", "nveglglessink0"},
                  {"tee1", "queue10"})
<1> DEFINE a == Pipeline!Make("queue10", {})
           b == Pipeline!Make("nveglglessink0", {"hdmi_sync", "window_x", "window_y",
                                         "window_width", "window_height"})
           chain == <<"tee1", "queue10", "nveglglessink0">>
           c == Pipeline!Link(chain)
<1>1. {"hdmi_sync", "window_x", "window_y", "window_width", "window_height"}
         \in SUBSET fields
  OBVIOUS
<1>2. /\ a \in Steps(fields) /\ a.op # "link" /\ ElementsMade(a) = {"queue10"}
      /\ b \in Steps(fields) /\ b.op # "link" /\ ElementsMade(b) = {"nveglglessink0"}
  BY <1>1, MakeIsStep, ReadIsStep DEF Elements
<1>3. chain \in Seq(Elements) /\ Len(chain) = 3
  BY DEF Elements
<1>4. \A i, j \in 1..3 : chain[i] = chain[j] => i = j
  OBVIOUS
<1>5. \A i \in 1..3 - 1 : Away(<<chain[i], chain[i + 1]>>)
  BY Depths DEF Away
<1> HIDE DEF chain
<1>6. c \in Steps(fields) /\ c.op = "link" /\ c.chain = chain /\ ElementsMade(c) = {}
  BY <1>3, <1>4, <1>5, LinkIsStep
<1> DEFINE s == <<a, b, c>>
<1>7. s = Pipeline!Hdmi
  BY DEF Pipeline!Hdmi, chain
<1> HIDE DEF a, b, c
<1>8. /\ Pipeline!ToSet(c.chain) = {"tee1", "queue10", "nveglglessink0"}
      /\ Sinks(c) = {"queue10", "nveglglessink0"}
      /\ Feeds(c) = {"tee1", "queue10"}
  BY <1>3, <1>6 DEF Pipeline!ToSet, Sinks, Feeds, chain
<1>9. s \in Seq(Steps(fields)) /\ Len(s) = 3
  BY <1>2, <1>6
<1>10. s[1] = a /\ s[2] = b /\ s[3] = c
  OBVIOUS
<1> HIDE DEF s
<1>11. /\ Made(s, 2) = {"queue10", "nveglglessink0"}
      /\ Made(s, 3) = {"queue10", "nveglglessink0"}
  BY <1>2, <1>6, <1>10, MadeUnrolled
<1>12. s[3].op = "link" /\ \A i \in 1..Len(s) : i # 3 => s[i].op # "link"
  BY <1>2, <1>6, <1>9, <1>10
<1>13. Builds(fields, present, taken, s, Made(s, Len(s)), Sinks(s[3]), Feeds(s[3]))
  <2>1. Pipeline!ToSet(s[3].chain) \subseteq present \cup Made(s, 3 - 1)
    BY <1>8, <1>10, <1>11
  <2>2. Sinks(s[3]) \cap taken = {}
    BY <1>8, <1>10
  <2>3. 3 \in 1..Len(s)
    BY <1>9
  <2>4. QED  BY <1>9, <1>12, <2>1, <2>2, <2>3, OneLink
<1>14. QED  BY <1>7, <1>8, <1>9, <1>10, <1>11, <1>13

LEMMA RtmpBuilds ==
    ASSUME NEW fields, NEW present, NEW taken,
           {"cvt_memory_type", "enc_bitrate", "enc_iframe_interval", "rtmp_uri"} \subseteq fields,
           {"tee1"} \subseteq present,
           taken \cap {"queue11", "nvvideoconvert0", "capfilter1",
                         "nvv4l2h264enc0", "h264parse0", "flvmux0", "rtmpsink"} = {}
    PROVE  Builds(fields, present, taken, Pipeline!Rtmp,
                  {"queue11", "nvvideoconvert0", "capfilter1", "nvv4l2h264enc0",
                   "h264parse0", "flvmux0", "rtmpsink"},
                  {"queue11", "nvvideoconvert0", "capfilter1", "nvv4l2h264enc0",
                   "h264parse0", "flvmux0", "rtmpsink"},
                  {"tee1", "queue11", "nvvideoconvert0", "capfilter1",
                   "nvv4l2h264enc0", "h264parse0", "flvmux0"})
<1> DEFINE a == Pipeline!Make("queue11", {})
           b == Pipeline!Make("nvvideoconvert0", {"cvt_memory_type"})
           c == Pipeline!Make("capfilter1", {})
           d == Pipeline!Make("nvv4l2h264enc0", {"enc_bitrate", "enc_iframe_interval"})
           e == Pipeline!Make("h264parse0", {})
           f == Pipeline!Make("flvmux0", {})
           g == Pipeline!Make("rtmpsink", {"rtmp_uri"})
           chain == <<"tee1", "queue11", "nvvideoconvert0", "capfilter1",
                     "nvv4l2h264enc0", "h264parse0", "flvmux0", "rtmpsink">>
           h == Pipeline!Link(chain)
<1>1. /\ a \in Steps(fields) /\ a.op # "link" /\ ElementsMade(a) = {"queue11"}
      /\ b \in Steps(fields) /\ b.op # "link" /\ ElementsMade(b) = {"nvvideoconvert0"}
      /\ c \in Steps(fields) /\ c.op # "link" /\ ElementsMade(c) = {"capfilter1"}
      /\ d \in Steps(fields) /\ d.op # "link" /\ ElementsMade(d) = {"nvv4l2h264enc0"}
      /\ e \in Steps(fields) /\ e.op # "link" /\ ElementsMade(e) = {"h264parse0"}
      /\ f \in Steps(fields) /\ f.op # "link" /\ ElementsMade(f) = {"flvmux0"}
      /\ g \in Steps(fields) /\ g.op # "link" /\ ElementsMade(g) = {"rtmpsink"}
  BY MakeIsStep, ReadIsStep DEF Elements
<1>2. chain \in Seq(Elements) /\ Len(chain) = 8
  BY TupleOf8 DEF Elements
<1>3. \A i, j \in 1..8 : chain[i] = chain[j] => i = j
  OBVIOUS
<1>4. \A i \in 1..8 - 1 : Away(<<chain[i], chain[i + 1]>>)
  BY Depths DEF Away
<1> HIDE DEF chain
<1>5. h \in Steps(fields) /\ h.op = "link" /\ h.chain = chain /\ ElementsMade(h) = {}
  BY <1>2, <1>3, <1>4, LinkIsStep
<1> DEFINE s == <<a, b, c, d, e, f, g, h>>
<1>6. s = Pipeline!Rtmp
  BY DEF Pipeline!Rtmp, chain
<1> HIDE DEF a, b, c, d, e, f, g, h
<1>7. /\ Pipeline!ToSet(h.chain) = {"tee1", "queue11", "nvvideoconvert0",
                                    "capfilter1", "nvv4l2h264enc0", "h264parse0",
                                    "flvmux0", "rtmpsink"}
      /\ Sinks(h) = {"queue11", "nvvideoconvert0", "capfilter1", "nvv4l2h264enc0",
                      "h264parse0", "flvmux0", "rtmpsink"}
      /\ Feeds(h) = {"tee1", "queue11", "nvvideoconvert0", "capfilter1",
                      "nvv4l2h264enc0", "h264parse0", "flvmux0"}
  BY <1>2, <1>5 DEF Pipeline!ToSet, Sinks, Feeds, chain
<1>8. s \in Seq(Steps(fields)) /\ Len(s) = 8
  BY <1>1, <1>5, TupleOf8
<1>9. /\ s[1] = a /\ s[2] = b /\ s[3] = c /\ s[4] = d
      /\ s[5] = e /\ s[6] = f /\ s[7] = g /\ s[8] = h
  OBVIOUS
<1> HIDE DEF s
<1>10. /\ Made(s, 7) = {"queue11", "nvvideoconvert0", "capfilter1", "nvv4l2h264enc0",
                       "h264parse0", "flvmux0", "rtmpsink"}
      /\ Made(s, 8) = {"queue11", "nvvideoconvert0", "capfilter1", "nvv4l2h264enc0",
                       "h264parse0", "flvmux0", "rtmpsink"}
  BY <1>1, <1>5, <1>9, MadeUnrolled
<1>11. s[8].op = "link" /\ \A i \in 1..Len(s) : i # 8 => s[i].op # "link"
  BY <1>1, <1>5, <1>8, <1>9
<1>12. Builds(fields, present, taken, s, Made(s, Len(s)), Sinks(s[8]), Feeds(s[8]))
  <2>1. Pipeline!ToSet(s[8].chain) \subseteq present \cup Made(s, 8 - 1)
    BY <1>7, <1>9, <1>10
  <2>2. Sinks(s[8]) \cap taken = {}
    BY <1>7, <1>9
  <2>3. 8 \in 1..Len(s)
    BY <1>8
  <2>4. QED  BY <1>8, <1>11, <2>1, <2>2, <2>3, OneLink
<1>13. QED  BY <1>6, <1>7, <1>8, <1>9, <1>10, <1>12

LEMMA EnableAppsinkBuilds ==
    ASSUME NEW fields, NEW present, NEW taken,
           {"enable_appsink"} \subseteq fields
    PROVE  Builds(fields, present, taken, TestAppsink, {}, {}, {})
<1> DEFINE a == Pipeline!Read({"enable_appsink"})
<1>1. /\ a \in Steps(fields) /\ a.op # "link" /\ ElementsMade(a) = {}
  BY MakeIsStep, ReadIsStep DEF Elements
<1> DEFINE s == <<a>>
<1>4. s = TestAppsink
  BY DEF TestAppsink
<1> HIDE DEF a
<1>6. s \in Seq(Steps(fields)) /\ Len(s) = 1
  BY <1>1
<1>7. s[1] = a
  OBVIOUS
<1> HIDE DEF s
<1>8. Made(s, 1) = {}
  BY <1>1, <1>7, MadeUnrolled
<1>9. \A i \in 1..1 : s[i].op # "link"
  BY <1>1, <1>7
<1>11. QED  BY <1>4, <1>6, <1>8, <1>9, NoLink

LEMMA AppsinkBuilds ==
    ASSUME NEW fields, NEW present, NEW taken,
           {"cvt_format", "cvt_memory_type"} \subseteq fields,
           {"tee0"} \subseteq present,
           taken \cap {"queue01", "nvvideoconvert1", "capfilter2", "appsink"} = {}
    PROVE  Builds(fields, present, taken, ToAppsink,
                  {"queue01", "nvvideoconvert1", "capfilter2", "appsink"},
                  {"queue01", "nvvideoconvert1", "capfilter2", "appsink"},
                  {"tee0", "queue01", "nvvideoconvert1", "capfilter2"})
<1> DEFINE a == Pipeline!Make("queue01", {})
           b == Pipeline!Make("nvvideoconvert1", {"cvt_memory_type"})
           c == Pipeline!Read({"cvt_format"})
           d == Pipeline!Make("capfilter2", {})
           e == Pipeline!Make("appsink", {})
           chain == <<"tee0", "queue01", "nvvideoconvert1", "capfilter2", "appsink">>
           f == Pipeline!Link(chain)
<1>1. /\ a \in Steps(fields) /\ a.op # "link" /\ ElementsMade(a) = {"queue01"}
      /\ b \in Steps(fields) /\ b.op # "link" /\ ElementsMade(b) = {"nvvideoconvert1"}
      /\ c \in Steps(fields) /\ c.op # "link" /\ ElementsMade(c) = {}
      /\ d \in Steps(fields) /\ d.op # "link" /\ ElementsMade(d) = {"capfilter2"}
      /\ e \in Steps(fields) /\ e.op # "link" /\ ElementsMade(e) = {"appsink"}
  BY MakeIsStep, ReadIsStep DEF Elements
<1>2. chain \in Seq(Elements) /\ Len(chain) = 5
  BY TupleOf5 DEF Elements
<1>3. \A i, j \in 1..5 : chain[i] = chain[j] => i = j
  OBVIOUS
<1>4. \A i \in 1..5 - 1 : Away(<<chain[i], chain[i + 1]>>)
  BY Depths DEF Away
<1> HIDE DEF chain
<1>5. f \in Steps(fields) /\ f.op = "link" /\ f.chain = chain /\ ElementsMade(f) = {}
  BY <1>2, <1>3, <1>4, LinkIsStep
<1> DEFINE s == <<a, b, c, d, e, f>>
<1>6. s = ToAppsink
  BY DEF ToAppsink, chain
<1> HIDE DEF a, b, c, d, e, f
<1>7. /\ Pipeline!ToSet(f.chain) = {"tee0", "queue01", "nvvideoconvert1",
                                    "capfilter2", "appsink"}
      /\ Sinks(f) = {"queue01", "nvvideoconvert1", "capfilter2", "appsink"}
      /\ Feeds(f) = {"tee0", "queue01", "nvvideoconvert1", "capfilter2"}
  BY <1>2, <1>5 DEF Pipeline!ToSet, Sinks, Feeds, chain
<1>8. s \in Seq(Steps(fields)) /\ Len(s) = 6
  BY <1>1, <1>5, TupleOf6
<1>9. /\ s[1] = a /\ s[2] = b /\ s[3] = c /\ s[4] = d
      /\ s[5] = e /\ s[6] = f
  OBVIOUS
<1> HIDE DEF s
<1>10. /\ Made(s, 5) = {"queue01", "nvvideoconvert1", "capfilter2", "appsink"}
      /\ Made(s, 6) = {"queue01", "nvvideoconvert1", "capfilter2", "appsink"}
  BY <1>1, <1>5, <1>9, MadeUnrolled
<1>11. s[6].op = "link" /\ \A i \in 1..Len(s) : i # 6 => s[i].op # "link"
  BY <1>1, <1>5, <1>8, <1>9
<1>12. Builds(fields, present, taken, s, Made(s, Len(s)), Sinks(s[6]), Feeds(s[6]))
  <2>1. Pipeline!ToSet(s[6].chain) \subseteq present \cup Made(s, 6 - 1)
    BY <1>7, <1>9, <1>10
  <2>2. Sinks(s[6]) \cap taken = {}
    BY <1>7, <1>9
  <2>3. 6 \in 1..Len(s)
    BY <1>8
  <2>4. QED  BY <1>8, <1>11, <2>1, <2>2, <2>3, OneLink
<1>13. QED  BY <1>6, <1>7, <1>8, <1>9, <1>10, <1>12
-----------------------------------------------------------------------------
(* What all of Create makes, feeds into and takes from *)

CameraElements ==
    {"v4l2src0", "capfilter0", "jpegdec0", "nvvideoconvert2", "capfilter3"}
HdmiElements == {"queue10", "nveglglessink0"}
RtmpElements ==
    {"queue11", "nvvideoconvert0", "capfilter1", "nvv4l2h264enc0", "h264parse0",
     "flvmux0", "rtmpsink"}
AppsinkElements == {"queue01", "nvvideoconvert1", "capfilter2", "appsink"}

When(condition, S) == IF condition THEN S ELSE {}

IsCamera(c) == c.type = Pipeline!USB_CAMERE

\* The elements of the display branch and of the inference branch: all of them are
\* fed, all but the last of each chain feed another.
DisplayElements(c) ==
    {"tee0", "queue00"} \cup
        IF ~c.hdmi /\ ~c.rtmp
          THEN {"fakesink0"}
          ELSE {"tee1"} \cup When(c.hdmi, HdmiElements) \cup When(c.rtmp, RtmpElements)

DisplayFeeding(c) ==
    {"nvstreammux0", "tee0"} \cup
        IF ~c.hdmi /\ ~c.rtmp
          THEN {"queue00"}
          ELSE {"queue00"} \cup When(c.hdmi, {"tee1", "queue10"})
                           \cup When(c.rtmp, {"tee1"} \cup (RtmpElements \ {"rtmpsink"}))

InferenceElements(c) == When(c.appsink, AppsinkElements)
InferenceFeeding(c) == When(c.appsink, {"tee0"} \cup (AppsinkElements \ {"appsink"}))

CreateMade(c) ==
    {"video-pipeline"}
        \cup (IF IsCamera(c) THEN CameraElements ELSE {"uridecodebin0"})
        \cup {"nvstreammux0"} \cup DisplayElements(c) \cup InferenceElements(c)

CreateFed(c) ==
    When(IsCamera(c), (CameraElements \ {"v4l2src0"}) \cup {"nvstreammux0"})
        \cup DisplayElements(c) \cup InferenceElements(c)

CreateFeeding(c) ==
    When(IsCamera(c), CameraElements) \cup DisplayFeeding(c) \cup InferenceFeeding(c)

-----------------------------------------------------------------------------
(* The inductive invariant *)

PipelineFields(type) == Parser!Fields(Parser!Pipeline(type))
TaskFields == Parser!Fields(Parser!Task)

\* The members of a list that have been read are assigned.
AssignedUpTo(members, n) ==
    \A i \in 1..n : members[i].kind # "section" => members[i].name \in assigned

ParserInv ==
    /\ parser \in {"root", "pipeline", "task", "returned"}
    /\ parser = "root" => parsed \in 0..3
    /\ parser = "pipeline" => parsed \in 0..Len(Parser!Pipeline(inputType))
    /\ parser = "task" => parsed \in 0..6
    /\ parser = "returned" => parsed = 0
    /\ inputType \in 0..2
    /\ assigned \subseteq {"m_chanelId"} \cup PipelineFields(inputType) \cup TaskFields
    /\ result \in [{"root", "pipeline", "task"} -> Parser!Codes]
    /\ parser = "pipeline" => AssignedUpTo(Parser!Pipeline(inputType), parsed)
    /\ parser = "task" => AssignedUpTo(Parser!Task, parsed)
    /\ result["pipeline"] = "CONFIG_PARSE_SUCCESS" => PipelineFields(inputType) \subseteq assigned
    /\ result["task"] = "CONFIG_PARSE_SUCCESS" => TaskFields \subseteq assigned

\* How far a channel is and how far its pipeline is.
Progress ==
    /\ channel \in {"none", "refused", "building", "listed", "deleted"}
    /\ channel \in {"none", "refused"} => status = "none" /\ read = {}
    /\ channel = "building" => status \in {"creating", "created", "failed"}
    /\ channel = "listed" => status \in {"created", "failed"}
    /\ channel = "deleted" => status = "destroyed"
    /\ status = "none" => at = 0
    /\ status = "created" => Pipeline!Built
    /\ status = "failed" => ~Pipeline!Built

\* What the pipeline is built from is what the parser was given.
FromDocument ==
    channel \notin {"none", "refused"} =>
        m_config.type = IF "input_type" \in assigned THEN inputType ELSE 0

ReadKnown == read \subseteq PipelineFields(m_config.type) \cup TaskFields

SinksOf(ls) == {l[2] : l \in ls}
SourcesOf(ls) == {l[1] : l \in ls}

\* The pad of uridecodebin is linked.
Joined == "uridecodebin0" \in SourcesOf(links)

\* Whatever has become of a pipeline: its links join elements that were made and lead
\* away from the source, and no two of them end in one sink pad.
Linked ==
    /\ made = Made(Pipeline!Create(m_config), at)
    /\ links \subseteq made \X made
    /\ \A l, k \in links : l[2] = k[2] => l = k
    /\ \A l \in links : Away(l)
    /\ status \in {"none", "creating"} => ~Joined
    /\ decoder \subseteq {"m_dec_sink_probe", "m_decoder"}
    /\ "m_dec_sink_probe" \in decoder => "m_decoder" \in decoder

\* A pipeline on which Create has not failed: its links are those of the steps done,
\* and, if the source is joined, that of its pad to a target that was free.
NotFailed == status \in {"none", "creating"} \/ Pipeline!Built

Exact ==
    LET steps == Pipeline!Create(m_config)
    IN  NotFailed =>
          /\ used \subseteq made \cup (decoder \ {"m_dec_sink_probe"})
          /\ SinksOf(links) = Fed(steps, at) \cup When(Joined, {Pipeline!PadTarget})
          /\ SourcesOf(links) = Feeding(steps, at) \cup When(Joined, {"uridecodebin0"})
          /\ Joined => Pipeline!PadTarget \notin Fed(steps, at)

PipelineInv ==
    /\ m_config \in Pipeline!Configs
    /\ at \in 0..Len(Pipeline!Create(m_config))
    /\ ReadKnown /\ Linked /\ Exact

BuildInv == ParserInv /\ Progress /\ FromDocument /\ PipelineInv

-----------------------------------------------------------------------------
(* Create, put together from its lists *)

\* The fields every Create reads, and those of one with a camera.
CreateFields ==
    {"input_type", "src_width", "src_height", "src_sync", "src_memory_type",
     "src_live_source", "enable_hdmi", "hdmi_sync", "window_x", "window_y",
     "window_width", "window_height", "enable_rtmp", "enc_bitrate",
     "enc_iframe_interval", "rtmp_uri", "enable_appsink", "cvt_memory_type",
     "cvt_format"}
CameraFields ==
    {"src_device", "src_width", "src_height", "src_framerate_n", "src_framerate_d",
     "src_format"}

LEMMA DisplayBuilds ==
    ASSUME NEW fields, CreateFields \subseteq fields, NEW c \in Pipeline!Configs,
           NEW present, "nvstreammux0" \in present,
           NEW taken, taken \cap DisplayElements(c) = {}
    PROVE  Builds(fields, present, taken, Pipeline!Display(c),
                  DisplayElements(c), DisplayElements(c), DisplayFeeding(c))
<1> DEFINE hdmi == IF c.hdmi THEN Pipeline!Hdmi ELSE <<>>
           rtmp == IF c.rtmp THEN Pipeline!Rtmp ELSE <<>>
           X == {"tee0", "queue00"}
           H == When(c.hdmi, HdmiElements)
           R == When(c.rtmp, RtmpElements)
           HF == When(c.hdmi, {"tee1", "queue10"})
           RF == When(c.rtmp, {"tee1"} \cup (RtmpElements \ {"rtmpsink"}))
<1>1. Builds(fields, present, taken, Tee, X, X, {"nvstreammux0", "tee0"})
  <2>1. {"enable_hdmi", "enable_rtmp"} \subseteq fields /\ {"nvstreammux0"} \subseteq present
    BY DEF CreateFields
  <2>2. taken \cap {"tee0", "queue00"} = {}
    BY DEF DisplayElements
  <2>3. QED  BY <2>1, <2>2, TeeBuilds
<1>2. CASE ~c.hdmi /\ ~c.rtmp
  <2>1. Builds(fields, present \cup X, taken \cup X, ToFakesink,
               {"fakesink0"}, {"fakesink0"}, {"queue00"})
    <3>1. {"queue00"} \subseteq present \cup X
      OBVIOUS
    <3>2. (taken \cup X) \cap {"fakesink0"} = {}
      BY <1>2 DEF DisplayElements
    <3>3. QED  BY <3>1, <3>2, FakesinkBuilds
  <2>2. Builds(fields, present, taken, Tee \o ToFakesink,
               X \cup {"fakesink0"}, X \cup {"fakesink0"},
               {"nvstreammux0", "tee0"} \cup {"queue00"})
    BY <1>1, <2>1, ConcatBuilds
  <2>3. Tee \o ToFakesink = Pipeline!Display(c)
    BY <1>2 DEF Pipeline!Display, Tee, ToFakesink, ToDisplays
  <2>4. QED  BY <1>2, <2>2, <2>3 DEF DisplayElements, DisplayFeeding
<1>3. CASE c.hdmi \/ c.rtmp
  <2>0. DisplayElements(c) = X \cup ({"tee1"} \cup H \cup R)
    BY <1>3 DEF DisplayElements
  <2>1. Builds(fields, present \cup X, taken \cup X, ToDisplays, {"tee1"}, {"tee1"}, {"queue00"})
    <3>1. {"queue00"} \subseteq present \cup X
      OBVIOUS
    <3>2. (taken \cup X) \cap {"tee1"} = {}
      BY <2>0
    <3>3. QED  BY <3>1, <3>2, DisplayTeeBuilds
  <2>2. Builds(fields, (present \cup X) \cup {"tee1"}, (taken \cup X) \cup {"tee1"}, hdmi, H, H, HF)
    <3>1. CASE c.hdmi
      <4>1. {"hdmi_sync", "window_height", "window_width", "window_x", "window_y"} \subseteq fields
        BY DEF CreateFields
      <4>2. ((taken \cup X) \cup {"tee1"}) \cap {"queue10", "nveglglessink0"} = {}
        BY <2>0, <3>1 DEF When, HdmiElements
      <4>3. Builds(fields, (present \cup X) \cup {"tee1"}, (taken \cup X) \cup {"tee1"},
                   Pipeline!Hdmi, {"queue10", "nveglglessink0"},
                   {"queue10", "nveglglessink0"}, {"tee1", "queue10"})
        BY <4>1, <4>2, HdmiBuilds
      <4>4. QED  BY <3>1, <4>3 DEF When, HdmiElements
    <3>2. CASE ~c.hdmi
      BY <3>2, EmptyBuilds DEF When
    <3>3. QED  BY <3>1, <3>2
  <2>3. Builds(fields, present \cup X, taken \cup X, ToDisplays \o hdmi,
               {"tee1"} \cup H, {"tee1"} \cup H,
               {"queue00"} \cup HF)
    BY <2>1, <2>2, ConcatBuilds
  <2>4. Builds(fields, (present \cup X) \cup ({"tee1"} \cup H),
               (taken \cup X) \cup ({"tee1"} \cup H),
               rtmp, R, R, RF)
    <3>1. CASE c.rtmp
      <4>1. {"cvt_memory_type", "enc_bitrate", "enc_iframe_interval", "rtmp_uri"} \subseteq fields
        BY DEF CreateFields
      <4>2. ((taken \cup X) \cup ({"tee1"} \cup H)) \cap RtmpElements = {}
        BY <2>0, <3>1 DEF When, HdmiElements, RtmpElements
      <4>3. {"tee1"} \subseteq (present \cup X) \cup ({"tee1"} \cup H)
        OBVIOUS
      <4>4. Builds(fields, (present \cup X) \cup ({"tee1"} \cup H),
                   (taken \cup X) \cup ({"tee1"} \cup H), Pipeline!Rtmp,
                   RtmpElements, RtmpElements, {"tee1"} \cup (RtmpElements \ {"rtmpsink"}))
        <5>1. {"tee1"} \cup (RtmpElements \ {"rtmpsink"})
                = {"tee1", "queue11", "nvvideoconvert0", "capfilter1",
                   "nvv4l2h264enc0", "h264parse0", "flvmux0"}
          BY DEF RtmpElements
        <5>2. QED  BY <4>1, <4>2, <4>3, <5>1, RtmpBuilds DEF RtmpElements
      <4>5. QED  BY <3>1, <4>4 DEF When
    <3>2. CASE ~c.rtmp
      BY <3>2, EmptyBuilds DEF When
    <3>3. QED  BY <3>1, <3>2
  <2>5. Builds(fields, present \cup X, taken \cup X, (ToDisplays \o hdmi) \o rtmp,
               ({"tee1"} \cup H) \cup R, ({"tee1"} \cup H) \cup R, ({"queue00"} \cup HF) \cup RF)
    BY <2>3, <2>4, ConcatBuilds
  <2>6. Builds(fields, present, taken, Tee \o ((ToDisplays \o hdmi) \o rtmp),
               X \cup (({"tee1"} \cup H) \cup R), X \cup (({"tee1"} \cup H) \cup R),
               {"nvstreammux0", "tee0"} \cup (({"queue00"} \cup HF) \cup RF))
    BY <1>1, <2>5, ConcatBuilds
  <2>7. Tee \o ((ToDisplays \o hdmi) \o rtmp) = Pipeline!Display(c)
    BY <1>3 DEF Pipeline!Display, Tee, ToFakesink, ToDisplays
  <2>8. DisplayFeeding(c) = {"nvstreammux0", "tee0"} \cup (({"queue00"} \cup HF) \cup RF)
    BY <1>3 DEF DisplayFeeding
  <2>9. QED  BY <2>0, <2>6, <2>7, <2>8
<1>4. QED  BY <1>2, <1>3 DEF Pipeline!Configs

LEMMA InferenceBuilds ==
    ASSUME NEW fields, CreateFields \subseteq fields, NEW c \in Pipeline!Configs,
           NEW present, "tee0" \in present,
           NEW taken, taken \cap InferenceElements(c) = {}
    PROVE  Builds(fields, present, taken, Pipeline!Inference(c),
                  InferenceElements(c), InferenceElements(c), InferenceFeeding(c))
<1>1. Builds(fields, present, taken, TestAppsink, {}, {}, {})
  BY EnableAppsinkBuilds DEF CreateFields
<1>2. CASE c.appsink
  <2>1. Builds(fields, present \cup {}, taken \cup {}, ToAppsink, AppsinkElements, AppsinkElements,
               {"tee0", "queue01", "nvvideoconvert1", "capfilter2"})
    <3>1. {"cvt_format", "cvt_memory_type"} \subseteq fields
      BY DEF CreateFields
    <3>2. {"tee0"} \subseteq present \cup {}
      OBVIOUS
    <3>3. (taken \cup {}) \cap AppsinkElements = {}
      BY <1>2 DEF InferenceElements, When
    <3>4. QED  BY <3>1, <3>2, <3>3, AppsinkBuilds DEF AppsinkElements
  <2>2. Builds(fields, present, taken, TestAppsink \o ToAppsink,
               {} \cup AppsinkElements, {} \cup AppsinkElements,
               {} \cup {"tee0", "queue01", "nvvideoconvert1", "capfilter2"})
    BY <1>1, <2>1, ConcatBuilds
  <2>3. TestAppsink \o ToAppsink = Pipeline!Inference(c)
    BY <1>2 DEF Pipeline!Inference, TestAppsink, ToAppsink
  <2>4. InferenceFeeding(c) = {"tee0", "queue01", "nvvideoconvert1", "capfilter2"}
    BY <1>2 DEF InferenceFeeding, AppsinkElements, When
  <2>5. QED  BY <1>2, <2>2, <2>3, <2>4 DEF InferenceElements, When
<1>3. CASE ~c.appsink
  <2>1. Builds(fields, present, taken, TestAppsink \o <<>>, {} \cup {}, {} \cup {}, {} \cup {})
    BY <1>1, EmptyBuilds, ConcatBuilds
  <2>2. TestAppsink \o <<>> = Pipeline!Inference(c)
    BY <1>3 DEF Pipeline!Inference, TestAppsink, ToAppsink
  <2>3. QED  BY <1>3, <2>1, <2>2 DEF InferenceElements, InferenceFeeding, When
<1>4. QED  BY <1>2, <1>3

LEMMA CreateBuilds ==
    ASSUME NEW c \in Pipeline!Configs, NEW fields, CreateFields \subseteq fields,
           IsCamera(c) => CameraFields \subseteq fields,
           ~IsCamera(c) => "src_uri" \in fields
    PROVE  Builds(fields, {}, {}, Pipeline!Create(c), CreateMade(c), CreateFed(c), CreateFeeding(c))
<1> DEFINE source == IF IsCamera(c) THEN Pipeline!CreateV4l2src ELSE Pipeline!CreateUridecodebin
           camlink == IF IsCamera(c) THEN CameraToMuxer ELSE <<>>
           V == {"video-pipeline"}
           S == IF IsCamera(c) THEN CameraElements ELSE {"uridecodebin0"}
           SI == When(IsCamera(c), CameraElements \ {"v4l2src0"})
           SO == When(IsCamera(c), CameraElements \ {"capfilter3"})
           M == {"nvstreammux0"}
           MI == When(IsCamera(c), {"nvstreammux0"})
           MO == When(IsCamera(c), {"capfilter3"})
           D == DisplayElements(c)
           DO == DisplayFeeding(c)
           I == InferenceElements(c)
           IO == InferenceFeeding(c)
<1>1. Builds(fields, {}, {}, Opening, V, {}, {})
  BY OpeningBuilds DEF CreateFields
<1>2. Builds(fields, {} \cup V, {} \cup {}, source, S, SI, SO)
  <2>1. CASE IsCamera(c)
    <3>1. {"cvt_format", "cvt_memory_type", "src_device", "src_format",
           "src_framerate_d", "src_framerate_n", "src_height", "src_width"} \subseteq fields
      BY <2>1 DEF CreateFields, CameraFields
    <3>2. /\ CameraElements \ {"v4l2src0"}
               = {"capfilter0", "jpegdec0", "nvvideoconvert2", "capfilter3"}
          /\ CameraElements \ {"capfilter3"}
               = {"v4l2src0", "capfilter0", "jpegdec0", "nvvideoconvert2"}
      BY DEF CameraElements
    <3>3. Builds(fields, {} \cup V, {} \cup {}, Pipeline!CreateV4l2src, CameraElements,
                 CameraElements \ {"v4l2src0"}, CameraElements \ {"capfilter3"})
      BY <3>1, <3>2, CameraBuilds DEF CameraElements
    <3>4. QED  BY <2>1, <3>3 DEF When
  <2>2. CASE ~IsCamera(c)
    BY <2>2, UridecodebinBuilds DEF When
  <2>3. QED  BY <2>1, <2>2
<1>3. Builds(fields, {}, {}, Opening \o source, V \cup S, {} \cup SI, {} \cup SO)
  BY <1>1, <1>2, ConcatBuilds
<1>4. Builds(fields, {} \cup (V \cup S), {} \cup ({} \cup SI), Muxer, M, {}, {})
  BY MuxBuilds DEF CreateFields
<1>5. Builds(fields, ({} \cup (V \cup S)) \cup M, ({} \cup ({} \cup SI)) \cup {},
             camlink, {}, MI, MO)
  <2>1. CASE IsCamera(c)
    <3>1. {"capfilter3", "nvstreammux0"} \subseteq ({} \cup (V \cup S)) \cup M
      BY <2>1 DEF CameraElements
    <3>2. (({} \cup ({} \cup SI)) \cup {}) \cap {"nvstreammux0"} = {}
      BY <2>1 DEF CameraElements, When
    <3>3. QED  BY <2>1, <3>1, <3>2, CameraToMuxBuilds DEF When
  <2>2. CASE ~IsCamera(c)
    BY <2>2, EmptyBuilds DEF When
  <2>3. QED  BY <2>1, <2>2
<1>6. Builds(fields, {} \cup (V \cup S), {} \cup ({} \cup SI), Muxer \o camlink,
             M \cup {}, {} \cup MI, {} \cup MO)
  BY <1>4, <1>5, ConcatBuilds
<1>7. Builds(fields, {}, {}, (Opening \o source) \o (Muxer \o camlink), (V \cup S) \cup (M \cup {}),
             ({} \cup SI) \cup ({} \cup MI), ({} \cup SO) \cup ({} \cup MO))
  BY <1>3, <1>6, ConcatBuilds
<1> DEFINE P == (V \cup S) \cup (M \cup {})
           PI == ({} \cup SI) \cup ({} \cup MI)
           PO == ({} \cup SO) \cup ({} \cup MO)
<1>8. Builds(fields, {} \cup P, {} \cup PI, Pipeline!Display(c), D, D, DO)
  <2>1. "nvstreammux0" \in {} \cup P
    OBVIOUS
  <2>2. ({} \cup PI) \cap D = {}
    BY DEF When, CameraElements, DisplayElements, HdmiElements, RtmpElements
  <2>3. QED  BY <2>1, <2>2, DisplayBuilds
<1>9. Builds(fields, {}, {}, ((Opening \o source) \o (Muxer \o camlink)) \o Pipeline!Display(c),
             P \cup D, PI \cup D, PO \cup DO)
  BY <1>7, <1>8, ConcatBuilds
<1>10. Builds(fields, {} \cup (P \cup D), {} \cup (PI \cup D), Pipeline!Inference(c), I, I, IO)
  <2>1. "tee0" \in {} \cup (P \cup D)
    BY DEF DisplayElements
  <2>2. ({} \cup (PI \cup D)) \cap I = {}
    BY DEF When, CameraElements, DisplayElements, HdmiElements, RtmpElements,
           InferenceElements, AppsinkElements
  <2>3. QED  BY <2>1, <2>2, InferenceBuilds
<1>11. Builds(fields, {}, {},
              (((Opening \o source) \o (Muxer \o camlink)) \o Pipeline!Display(c))
                \o Pipeline!Inference(c),
              (P \cup D) \cup I, (PI \cup D) \cup I, (PO \cup DO) \cup IO)
  BY <1>9, <1>10, ConcatBuilds
<1>12. (((Opening \o source) \o (Muxer \o camlink)) \o Pipeline!Display(c)) \o Pipeline!Inference(c)
         = Pipeline!Create(c)
  BY DEF Pipeline!Create, Pipeline!Mux, IsCamera, Opening, Muxer, CameraToMuxer
<1>13. CreateMade(c) = (P \cup D) \cup I
  BY DEF CreateMade
<1>14. CreateFed(c) = (PI \cup D) \cup I
  BY DEF CreateFed, When
<1>15. CreateFeeding(c) = (PO \cup DO) \cup IO
  BY DEF CreateFeeding, When, CameraElements
<1>16. QED  BY <1>11, <1>12, <1>13, <1>14, <1>15

-----------------------------------------------------------------------------
(* The lists of members that the parsers walk over *)

IsList(s) == s \in Seq(Parser!ToSet(s))

LEMMA ListOf1 ==
    ASSUME NEW a
    PROVE  /\ IsList(<<a>>)
           /\ Len(<<a>>) = 1
           /\ Parser!ToSet(<<a>>) = {a}
<1>1. Parser!ToSet(<<a>>) = {a}
  BY DEF Parser!ToSet
<1>2. QED  BY <1>1 DEF IsList

LEMMA ListOf2 ==
    ASSUME NEW a, NEW b
    PROVE  /\ IsList(<<a, b>>)
           /\ Len(<<a, b>>) = 2
           /\ Parser!ToSet(<<a, b>>) = {a, b}
<1>1. Parser!ToSet(<<a, b>>) = {a, b}
  BY DEF Parser!ToSet
<1>2. QED  BY <1>1 DEF IsList

LEMMA ListOf3 ==
    ASSUME NEW a, NEW b, NEW c
    PROVE  /\ IsList(<<a, b, c>>)
           /\ Len(<<a, b, c>>) = 3
           /\ Parser!ToSet(<<a, b, c>>) = {a, b, c}
<1>1. Parser!ToSet(<<a, b, c>>) = {a, b, c}
  BY DEF Parser!ToSet
<1>2. QED  BY <1>1 DEF IsList

LEMMA ListOf4 ==
    ASSUME NEW a, NEW b, NEW c, NEW d
    PROVE  /\ IsList(<<a, b, c, d>>)
           /\ Len(<<a, b, c, d>>) = 4
           /\ Parser!ToSet(<<a, b, c, d>>) = {a, b, c, d}
<1>1. Parser!ToSet(<<a, b, c, d>>) = {a, b, c, d}
  BY DEF Parser!ToSet
<1>2. QED  BY <1>1, TupleOf4 DEF IsList

LEMMA ListOf5 ==
    ASSUME NEW a, NEW b, NEW c, NEW d, NEW e
    PROVE  /\ IsList(<<a, b, c, d, e>>)
           /\ Len(<<a, b, c, d, e>>) = 5
           /\ Parser!ToSet(<<a, b, c, d, e>>) = {a, b, c, d, e}
<1>1. Parser!ToSet(<<a, b, c, d, e>>) = {a, b, c, d, e}
  BY DEF Parser!ToSet
<1>2. QED  BY <1>1, TupleOf5 DEF IsList

LEMMA ListOf6 ==
    ASSUME NEW a, NEW b, NEW c, NEW d, NEW e, NEW f
    PROVE  /\ IsList(<<a, b, c, d, e, f>>)
           /\ Len(<<a, b, c, d, e, f>>) = 6
           /\ Parser!ToSet(<<a, b, c, d, e, f>>) = {a, b, c, d, e, f}
<1>1. Parser!ToSet(<<a, b, c, d, e, f>>) = {a, b, c, d, e, f}
  BY DEF Parser!ToSet
<1>2. QED  BY <1>1, TupleOf6 DEF IsList

LEMMA ListOf8 ==
    ASSUME NEW a, NEW b, NEW c, NEW d, NEW e, NEW f, NEW g, NEW h
    PROVE  /\ IsList(<<a, b, c, d, e, f, g, h>>)
           /\ Len(<<a, b, c, d, e, f, g, h>>) = 8
           /\ Parser!ToSet(<<a, b, c, d, e, f, g, h>>) = {a, b, c, d, e, f, g, h}
<1>1. Parser!ToSet(<<a, b, c, d, e, f, g, h>>) = {a, b, c, d, e, f, g, h}
  BY DEF Parser!ToSet
<1>2. QED  BY <1>1, TupleOf8 DEF IsList

LEMMA ConcatLists ==
    ASSUME NEW s, NEW t, IsList(s), IsList(t)
    PROVE  /\ IsList(s \o t)
           /\ Len(s \o t) = Len(s) + Len(t)
           /\ Parser!Fields(s \o t) = Parser!Fields(s) \cup Parser!Fields(t)
<1> DEFINE S == Parser!ToSet(s) \cup Parser!ToSet(t)
           st == s \o t
<1>1. s \in Seq(S) /\ t \in Seq(S)
  BY SeqMonotonic DEF IsList
<1>2. Len(s) \in Nat /\ Len(t) \in Nat /\ DOMAIN s = 1..Len(s) /\ DOMAIN t = 1..Len(t)
  BY <1>1, LenProperties
<1>3. /\ st \in Seq(S) /\ Len(st) = Len(s) + Len(t)
      /\ \A i \in 1..Len(s) + Len(t) : st[i] = IF i <= Len(s) THEN s[i] ELSE t[i - Len(s)]
  BY <1>1, ConcatProperties
<1> HIDE DEF st
<1>4. DOMAIN st = 1..Len(s) + Len(t)
  BY <1>3, LenProperties
<1>5. Parser!ToSet(st) = S
  <2>1. ASSUME NEW i \in 1..Len(s) + Len(t)
        PROVE  st[i] \in S
    BY <1>3, ElementOfSeq
  <2>2. ASSUME NEW i \in 1..Len(s)
        PROVE  s[i] \in Parser!ToSet(st)
    <3>1. i \in 1..Len(s) + Len(t) /\ st[i] = s[i]
      BY <1>2, <1>3
    <3>2. QED  BY <1>4, <3>1 DEF Parser!ToSet
  <2>3. ASSUME NEW i \in 1..Len(t)
        PROVE  t[i] \in Parser!ToSet(st)
    <3>1. /\ Len(s) + i \in 1..Len(s) + Len(t)
          /\ ~(Len(s) + i <= Len(s)) /\ (Len(s) + i) - Len(s) = i
      BY <1>2
    <3>2. st[Len(s) + i] = t[i]
      BY <1>3, <3>1
    <3>3. QED  BY <1>4, <3>1, <3>2 DEF Parser!ToSet
  <2>4. Parser!ToSet(st) \subseteq S
    BY <1>4, <2>1 DEF Parser!ToSet
  <2>5. Parser!ToSet(s) \subseteq Parser!ToSet(st)
    BY <1>2, <2>2 DEF Parser!ToSet
  <2>6. Parser!ToSet(t) \subseteq Parser!ToSet(st)
    BY <1>2, <2>3 DEF Parser!ToSet
  <2>7. QED  BY <2>4, <2>5, <2>6
<1>6. IsList(st)
  BY <1>3, <1>5 DEF IsList
<1>7. Parser!Fields(st) = Parser!Fields(s) \cup Parser!Fields(t)
  BY <1>5 DEF Parser!Fields
<1>8. QED  BY <1>3, <1>6, <1>7 DEF st

\* A value or an array among the members is a field of theirs.
LEMMA MemberIsField ==
    ASSUME NEW s, NEW m \in Parser!ToSet(s), m.kind # "section"
    PROVE  m.name \in Parser!Fields(s)
  BY DEF Parser!Fields

\* A list that is read through has all its fields assigned.
LEMMA ReadThrough ==
    ASSUME NEW s, IsList(s), AssignedUpTo(s, Len(s))
    PROVE  Parser!Fields(s) \subseteq assigned
<1>1. DOMAIN s = 1..Len(s)
  BY LenProperties DEF IsList
<1>2. ASSUME NEW m \in Parser!ToSet(s), m.kind # "section"
      PROVE  m.name \in assigned
  BY <1>1, <1>2 DEF Parser!ToSet, AssignedUpTo
<1>3. QED  BY <1>2 DEF Parser!Fields

LEMMA UsbCameraMembers ==
    /\ IsList(Parser!UsbCamera)
    /\ Len(Parser!UsbCamera) = 5
    /\ {"src_device", "src_format", "src_framerate_n", "src_framerate_d"}
         \subseteq Parser!Fields(Parser!UsbCamera)
  BY ListOf5 DEF Parser!UsbCamera, Parser!Fields, Parser!Section, Parser!Value, Parser!Triple

LEMMA StreamMembers ==
    /\ IsList(Parser!Stream)
    /\ Len(Parser!Stream) = 5
    /\ {"src_uri", "file_loop", "rtsp_latency", "rtp_protocol"}
         \subseteq Parser!Fields(Parser!Stream)
  BY ListOf5 DEF Parser!Stream, Parser!Fields, Parser!Section, Parser!Value, Parser!Triple

LEMMA DisplayMembers ==
    /\ IsList(Parser!Display)
    /\ Len(Parser!Display) = 8
    /\ {"enable_hdmi", "hdmi_sync", "window_x", "window_y", "window_width",
        "window_height"}
         \subseteq Parser!Fields(Parser!Display)
  BY ListOf8 DEF Parser!Display, Parser!Fields, Parser!Section, Parser!Value, Parser!Triple

LEMMA RtmpMembers ==
    /\ IsList(Parser!Rtmp)
    /\ Len(Parser!Rtmp) = 5
    /\ {"enable_rtmp", "enc_bitrate", "enc_iframe_interval", "rtmp_uri"}
         \subseteq Parser!Fields(Parser!Rtmp)
  BY ListOf5 DEF Parser!Rtmp, Parser!Fields, Parser!Section, Parser!Value, Parser!Triple

LEMMA InferenceMembers ==
    /\ IsList(Parser!Inference)
    /\ Len(Parser!Inference) = 4
    /\ {"enable_appsink", "cvt_memory_type", "cvt_format"}
         \subseteq Parser!Fields(Parser!Inference)
  BY ListOf4 DEF Parser!Inference, Parser!Fields, Parser!Section, Parser!Value, Parser!Triple

LEMMA OsdMembers ==
    /\ IsList(Parser!Osd)
    /\ Len(Parser!Osd) = 4
    /\ {"bbox_thickness", "text_thickness", "bbox_rgb", "text_rgb"}
         \subseteq Parser!Fields(Parser!Osd)
  BY ListOf4 DEF Parser!Osd, Parser!Fields, Parser!Section, Parser!Value, Parser!Triple

LEMMA TaskMembers ==
    /\ IsList(Parser!Task)
    /\ Len(Parser!Task) = 6
    /\ {"analyzer_id", "engine_file", "classes_file", "score_threshold",
        "nms_threshold"}
         \subseteq Parser!Fields(Parser!Task)
  BY ListOf6 DEF Parser!Task, Parser!Fields, Parser!Section, Parser!Value, Parser!Triple

LEMMA InputMembers ==
    ASSUME NEW type \in 0..2
    PROVE  /\ IsList(Parser!Input(type))
           /\ Len(Parser!Input(type)) = 12
           /\ {"input_type", "src_width", "src_height", "src_live_source", "src_sync",
               "src_memory_type"} \subseteq Parser!Fields(Parser!Input(type))
           /\ type = 2 => {"src_device", "src_format", "src_framerate_n", "src_framerate_d"}
                            \subseteq Parser!Fields(Parser!Input(type))
           /\ type # 2 => {"src_uri", "file_loop", "rtsp_latency", "rtp_protocol"}
                            \subseteq Parser!Fields(Parser!Input(type))
<1> DEFINE head == <<Parser!Section("input-config"), Parser!Value("input_type")>>
           kind == IF type = 2 THEN Parser!UsbCamera ELSE Parser!Stream
           tail == <<Parser!Value("src_width"), Parser!Value("src_height"),
                     Parser!Value("src_live_source"), Parser!Value("src_sync"),
                     Parser!Value("src_memory_type")>>
<1>1. IsList(head) /\ Len(head) = 2 /\ "input_type" \in Parser!Fields(head)
  BY ListOf2 DEF Parser!Fields, Parser!Section, Parser!Value
<1>2. IsList(kind) /\ Len(kind) = 5
  BY UsbCameraMembers, StreamMembers
<1>3. /\ IsList(tail) /\ Len(tail) = 5
      /\ {"src_width", "src_height", "src_live_source", "src_sync", "src_memory_type"}
           \subseteq Parser!Fields(tail)
  BY ListOf5 DEF Parser!Fields, Parser!Value
<1>4. Parser!Input(type) = (head \o kind) \o tail
  BY DEF Parser!Input
<1> HIDE DEF head, kind, tail
<1>5. /\ IsList(head \o kind) /\ Len(head \o kind) = 7
      /\ Parser!Fields(head \o kind) = Parser!Fields(head) \cup Parser!Fields(kind)
  <2>1. IsList(head) /\ IsList(kind) /\ Len(head) + Len(kind) = 7
    BY <1>1, <1>2
  <2>2. QED  BY <2>1, ConcatLists
<1>6. /\ IsList((head \o kind) \o tail) /\ Len((head \o kind) \o tail) = 12
      /\ Parser!Fields((head \o kind) \o tail)
           = Parser!Fields(head \o kind) \cup Parser!Fields(tail)
  <2>1. IsList(head \o kind) /\ IsList(tail) /\ Len(head \o kind) + Len(tail) = 12
    BY <1>3, <1>5
  <2>2. QED  BY <2>1, ConcatLists
<1>7. Parser!Fields(Parser!Input(type))
        = (Parser!Fields(head) \cup Parser!Fields(kind)) \cup Parser!Fields(tail)
  BY <1>4, <1>5, <1>6
<1>8. /\ type = 2 => {"src_device", "src_format", "src_framerate_n", "src_framerate_d"}
                        \subseteq Parser!Fields(kind)
      /\ type # 2 => {"src_uri", "file_loop", "rtsp_latency", "rtp_protocol"}
                        \subseteq Parser!Fields(kind)
  BY UsbCameraMembers, StreamMembers DEF kind
<1>9. QED  BY <1>1, <1>3, <1>4, <1>6, <1>7, <1>8

\* The fields that the callbacks of GStreamer read, whatever the input.
DrawFields == {"bbox_rgb", "text_rgb", "bbox_thickness", "text_thickness"}

\* What a pipeline's section assigns: every field that is read of it, by kind of input.
LEMMA PipelineMembers ==
    ASSUME NEW type \in 0..2
    PROVE  /\ IsList(Parser!Pipeline(type))
           /\ Len(Parser!Pipeline(type)) = 34
           /\ CreateFields \subseteq PipelineFields(type)
           /\ DrawFields \subseteq PipelineFields(type)
           /\ "pipeline_id" \in PipelineFields(type)
           /\ type = 2 => CameraFields \subseteq PipelineFields(type)
           /\ type # 2 => {"src_uri", "file_loop", "rtsp_latency", "rtp_protocol"}
                            \subseteq PipelineFields(type)
<1> DEFINE id == <<Parser!Value("pipeline_id")>>
           in == Parser!Input(type)
           p2 == id \o in
           p3 == p2 \o Parser!Display
           p4 == p3 \o Parser!Rtmp
           p5 == p4 \o Parser!Inference
           p6 == p5 \o Parser!Osd
<1>1. IsList(id) /\ Len(id) = 1 /\ "pipeline_id" \in Parser!Fields(id)
  BY ListOf1 DEF Parser!Fields, Parser!Value
<1>2. Parser!Pipeline(type) = p6
  BY DEF Parser!Pipeline
<1> HIDE DEF id, in, p2, p3, p4, p5, p6
<1>3. /\ IsList(p2) /\ Len(p2) = 13
      /\ Parser!Fields(p2) = Parser!Fields(id) \cup Parser!Fields(in)
  <2>1. IsList(id) /\ IsList(in) /\ Len(id) + Len(in) = 13
    <3>1. IsList(in) /\ Len(in) = 12
      BY InputMembers DEF in
    <3>2. QED  BY <1>1, <3>1
  <2>2. QED  BY <2>1, ConcatLists DEF p2, in
<1>4. /\ IsList(p3) /\ Len(p3) = 21
      /\ Parser!Fields(p3) = Parser!Fields(p2) \cup Parser!Fields(Parser!Display)
  <2>1. IsList(p2) /\ IsList(Parser!Display) /\ Len(p2) + Len(Parser!Display) = 21
    BY <1>3, DisplayMembers
  <2>2. QED  BY <2>1, ConcatLists DEF p3
<1>5. /\ IsList(p4) /\ Len(p4) = 26
      /\ Parser!Fields(p4) = Parser!Fields(p3) \cup Parser!Fields(Parser!Rtmp)
  <2>1. IsList(p3) /\ IsList(Parser!Rtmp) /\ Len(p3) + Len(Parser!Rtmp) = 26
    BY <1>4, RtmpMembers
  <2>2. QED  BY <2>1, ConcatLists DEF p4
<1>6. /\ IsList(p5) /\ Len(p5) = 30
      /\ Parser!Fields(p5) = Parser!Fields(p4) \cup Parser!Fields(Parser!Inference)
  <2>1. IsList(p4) /\ IsList(Parser!Inference) /\ Len(p4) + Len(Parser!Inference) = 30
    BY <1>5, InferenceMembers
  <2>2. QED  BY <2>1, ConcatLists DEF p5
<1>7. /\ IsList(p6) /\ Len(p6) = 34
      /\ Parser!Fields(p6) = Parser!Fields(p5) \cup Parser!Fields(Parser!Osd)
  <2>1. IsList(p5) /\ IsList(Parser!Osd) /\ Len(p5) + Len(Parser!Osd) = 34
    BY <1>6, OsdMembers
  <2>2. QED  BY <2>1, ConcatLists DEF p6
<1>8. /\ Parser!Fields(id) \subseteq PipelineFields(type)
      /\ Parser!Fields(Parser!Input(type)) \subseteq PipelineFields(type)
      /\ Parser!Fields(Parser!Display) \subseteq PipelineFields(type)
      /\ Parser!Fields(Parser!Rtmp) \subseteq PipelineFields(type)
      /\ Parser!Fields(Parser!Inference) \subseteq PipelineFields(type)
      /\ Parser!Fields(Parser!Osd) \subseteq PipelineFields(type)
  BY <1>2, <1>3, <1>4, <1>5, <1>6, <1>7 DEF PipelineFields, in
<1> DEFINE inputFields == {"input_type", "src_width", "src_height", "src_live_source",
                           "src_sync", "src_memory_type"}
           outputFields == {"enable_hdmi", "hdmi_sync", "window_x", "window_y",
                            "window_width", "window_height", "enable_rtmp", "enc_bitrate",
                            "enc_iframe_interval", "rtmp_uri"}
           inferenceFields == {"enable_appsink", "cvt_memory_type", "cvt_format"}
<1>9. inputFields \subseteq PipelineFields(type)
  BY <1>8, InputMembers
<1>10. outputFields \subseteq PipelineFields(type)
  BY <1>8, DisplayMembers, RtmpMembers
<1>11. inferenceFields \subseteq PipelineFields(type)
  BY <1>8, InferenceMembers
<1>12. CreateFields \subseteq PipelineFields(type)
  BY <1>9, <1>10, <1>11 DEF CreateFields
<1>13. DrawFields \subseteq PipelineFields(type)
  BY <1>8, OsdMembers DEF DrawFields
<1>14. type = 2 => CameraFields \subseteq PipelineFields(type)
  BY <1>8, <1>9, InputMembers DEF CameraFields
<1>15. type # 2 => {"src_uri", "file_loop", "rtsp_latency", "rtp_protocol"}
                     \subseteq PipelineFields(type)
  BY <1>8, InputMembers
<1>16. QED  BY <1>1, <1>2, <1>7, <1>8, <1>12, <1>13, <1>14, <1>15

-----------------------------------------------------------------------------
(* The parser *)

ParserSections == {"root", "pipeline", "task"}
SUCCESS == "CONFIG_PARSE_SUCCESS"

LEMMA RootMembers ==
    /\ Len(Parser!Root) = 3
    /\ Parser!Root[1] = Parser!Value("m_chanelId")
    /\ Parser!Root[2].kind = "section" /\ Parser!Root[3].kind = "section"
  BY DEF Parser!Root, Parser!Value, Parser!Section

\* Any return but a success.
LEMMA FailedReturn ==
    ASSUME ParserInv, NEW code \in Parser!Codes, code # SUCCESS, parser # "returned",
           Parser!Return(code) \/ Parser!ReturnFromRoot(code),
           UNCHANGED <<inputType, assigned>>
    PROVE  ParserInv'
<1>1. \/ parser' = "returned" /\ parsed' = 0
      \/ parser' = "root" /\ parsed' \in 0..3
  BY DEF Parser!Return, Parser!ReturnFromRoot
<1>2. \E p \in ParserSections : result' = [result EXCEPT ![p] = code]
  BY DEF Parser!Return, Parser!ReturnFromRoot, ParserInv, ParserSections
<1>3. /\ result' \in [ParserSections -> Parser!Codes]
      /\ result'["pipeline"] = SUCCESS => result["pipeline"] = SUCCESS
      /\ result'["task"] = SUCCESS => result["task"] = SUCCESS
  BY <1>2 DEF ParserInv, ParserSections
<1>4. QED  BY <1>1, <1>3 DEF ParserInv, ParserSections, SUCCESS, PipelineFields

LEMMA SuccessfulReturn ==
    ASSUME ParserInv, Parser!Succeed
    PROVE  ParserInv'
<1>1. parser # "returned" /\ UNCHANGED <<inputType, assigned>>
  BY DEF Parser!Succeed, Parser!Parsing
<1>2. CASE parser = "root"
  <2>1. /\ parser' = "returned" /\ parsed' = 0
        /\ result' = [result EXCEPT !["root"] = SUCCESS]
    BY <1>2 DEF Parser!Succeed, Parser!Return, Parser!ReturnFromRoot, SUCCESS
  <2>2. /\ result' \in [ParserSections -> Parser!Codes]
        /\ result'["pipeline"] = result["pipeline"] /\ result'["task"] = result["task"]
    BY <2>1 DEF ParserInv, ParserSections, Parser!Codes, SUCCESS
  <2>3. QED  BY <1>1, <2>1, <2>2 DEF ParserInv, ParserSections, PipelineFields
<1>3. CASE parser = "pipeline"
  <2>1. /\ parser' = "root" /\ parsed' = 2
        /\ result' = [result EXCEPT !["pipeline"] = SUCCESS]
    BY <1>3 DEF Parser!Succeed, Parser!Return, SUCCESS
  <2>2. /\ result' \in [ParserSections -> Parser!Codes]
        /\ result'["task"] = result["task"]
    BY <2>1 DEF ParserInv, ParserSections, Parser!Codes, SUCCESS
  <2>3. AssignedUpTo(Parser!Pipeline(inputType), Len(Parser!Pipeline(inputType)))
    BY <1>3 DEF Parser!Succeed, Parser!Members, ParserInv
  <2>4. PipelineFields(inputType) \subseteq assigned
    BY <2>3, ReadThrough, PipelineMembers DEF ParserInv, PipelineFields
  <2>5. QED  BY <1>1, <2>1, <2>2, <2>4 DEF ParserInv, ParserSections, PipelineFields
<1>4. CASE parser = "task"
  <2>1. /\ parser' = "root" /\ parsed' = 3
        /\ result' = [result EXCEPT !["task"] = SUCCESS]
    BY <1>4 DEF Parser!Succeed, Parser!Return, SUCCESS
  <2>2. /\ result' \in [ParserSections -> Parser!Codes]
        /\ result'["pipeline"] = result["pipeline"]
    BY <2>1 DEF ParserInv, ParserSections, Parser!Codes, SUCCESS
  <2>3. AssignedUpTo(Parser!Task, Len(Parser!Task))
    BY <1>4 DEF Parser!Succeed, Parser!Members, ParserInv
  <2>4. TaskFields \subseteq assigned
    BY <2>3, ReadThrough, TaskMembers DEF TaskFields
  <2>5. QED  BY <1>1, <2>1, <2>2, <2>4 DEF ParserInv, ParserSections, PipelineFields
<1>5. QED  BY <1>1, <1>2, <1>3, <1>4 DEF ParserInv

\* A parser that reads on: the member is one of its list, and what was assigned
\* stays assigned.
LEMMA ReadOn ==
    ASSUME NEW s, IsList(s), NEW n \in 0..Len(s), n < Len(s), AssignedUpTo(s, n),
           assigned' = IF s[n + 1].kind = "section" THEN assigned
                       ELSE assigned \cup {s[n + 1].name}
    PROVE  /\ \A i \in 1..n + 1 : s[i].kind # "section" => s[i].name \in assigned'
           /\ assigned' \subseteq assigned \cup Parser!Fields(s)
           /\ assigned \subseteq assigned'
<1>1. Len(s) \in Nat /\ DOMAIN s = 1..Len(s)
  BY LenProperties DEF IsList
<1>2. n + 1 \in 1..Len(s) /\ \A i \in 1..n + 1 : i \in 1..n \/ i = n + 1
  BY <1>1
<1>3. s[n + 1] \in Parser!ToSet(s)
  BY <1>1, <1>2 DEF Parser!ToSet
<1>4. \A i \in 1..n + 1 : s[i].kind # "section" => s[i].name \in assigned'
  BY <1>2 DEF AssignedUpTo
<1>5. QED  BY <1>3, <1>4, MemberIsField

LEMMA ReadMemberKeeps ==
    ASSUME ParserInv, Parser!ReadMember
    PROVE  ParserInv'
<1>1. /\ parser # "returned" /\ UNCHANGED <<inputType, result>>
      /\ parsed < Len(Parser!Members)
  BY DEF Parser!ReadMember, Parser!Parsing
<1>2. CASE parser = "root" /\ parsed = 0
  <2>1. /\ parser' = "root" /\ parsed' = 1
        /\ assigned' = assigned \cup {"m_chanelId"}
    BY <1>2, RootMembers
       DEF Parser!ReadMember, Parser!Member, Parser!Members, Parser!Value
  <2>2. QED  BY <1>1, <2>1 DEF ParserInv, PipelineFields
<1>3. CASE parser = "root" /\ parsed # 0
  <2>1. parsed \in {1, 2}
    <3>1. parsed \in 0..3 /\ parsed < 3
      BY <1>1, <1>3, RootMembers DEF ParserInv, Parser!Members
    <3>2. QED  BY <1>3, <3>1
  <2>2. /\ parser' \in {"pipeline", "task"} /\ parsed' = 0
    BY <1>3, <2>1 DEF Parser!ReadMember
  <2>3. assigned' = assigned
    BY <1>3, <2>1, RootMembers DEF Parser!ReadMember, Parser!Member, Parser!Members
  <2>4. /\ AssignedUpTo(Parser!Pipeline(inputType), 0)'
        /\ AssignedUpTo(Parser!Task, 0)'
    BY DEF AssignedUpTo
  <2>5. 0 \in 0..Len(Parser!Pipeline(inputType))
    BY PipelineMembers DEF ParserInv
  <2>6. QED  BY <1>1, <2>2, <2>3, <2>4, <2>5 DEF ParserInv, PipelineFields
<1>4. CASE parser = "pipeline"
  <2> DEFINE s == Parser!Pipeline(inputType)
  <2>1. IsList(s) /\ Len(s) = 34 /\ parsed \in 0..Len(s) /\ AssignedUpTo(s, parsed)
    BY <1>4, PipelineMembers DEF ParserInv
  <2>2. /\ parser' = "pipeline" /\ parsed' = parsed + 1 /\ parsed < Len(s)
        /\ assigned' = IF s[parsed + 1].kind = "section" THEN assigned
                       ELSE assigned \cup {s[parsed + 1].name}
    BY <1>1, <1>4 DEF Parser!ReadMember, Parser!Member, Parser!Members
  <2> HIDE DEF s
  <2>3. /\ \A i \in 1..parsed + 1 : s[i].kind # "section" => s[i].name \in assigned'
        /\ assigned' \subseteq assigned \cup Parser!Fields(s)
        /\ assigned \subseteq assigned'
    BY <2>1, <2>2, ReadOn
  <2>4. parsed' \in 0..Len(s)
    BY <2>1, <2>2
  <2>5. (AssignedUpTo(Parser!Pipeline(inputType), parsed))'
    BY <1>1, <2>2, <2>3 DEF s, AssignedUpTo
  <2>6. QED  BY <1>1, <2>2, <2>3, <2>4, <2>5 DEF ParserInv, PipelineFields, s
<1>5. CASE parser = "task"
  <2> DEFINE s == Parser!Task
  <2>1. IsList(s) /\ Len(s) = 6 /\ parsed \in 0..Len(s) /\ AssignedUpTo(s, parsed)
    BY <1>5, TaskMembers DEF ParserInv
  <2>2. /\ parser' = "task" /\ parsed' = parsed + 1 /\ parsed < Len(s)
        /\ assigned' = IF s[parsed + 1].kind = "section" THEN assigned
                       ELSE assigned \cup {s[parsed + 1].name}
    BY <1>1, <1>5 DEF Parser!ReadMember, Parser!Member, Parser!Members
  <2> HIDE DEF s
  <2>3. /\ \A i \in 1..parsed + 1 : s[i].kind # "section" => s[i].name \in assigned'
        /\ assigned' \subseteq assigned \cup Parser!Fields(s)
        /\ assigned \subseteq assigned'
    BY <2>1, <2>2, ReadOn
  <2>4. parsed' \in 0..6
    BY <2>1, <2>2
  <2>5. (AssignedUpTo(Parser!Task, parsed))'
    BY <2>2, <2>3 DEF s, AssignedUpTo
  <2>6. QED  BY <1>1, <2>2, <2>3, <2>4, <2>5 DEF ParserInv, PipelineFields, TaskFields, s
<1>6. QED  BY <1>1, <1>2, <1>3, <1>4, <1>5 DEF ParserInv

LEMMA ParserInvariant ==
    /\ Parser!Init => ParserInv
    /\ ParserInv /\ Parser!Next => ParserInv'
<1>1. ASSUME Parser!Init
      PROVE  ParserInv
  BY <1>1 DEF Parser!Init, ParserInv, Parser!Codes
<1>2. ASSUME ParserInv, Parser!Next
      PROVE  ParserInv'
  <2>1. CASE Parser!ReadMember
    BY <1>2, <2>1, ReadMemberKeeps
  <2>2. CASE Parser!LackMember
    BY <1>2, <2>2, FailedReturn
       DEF Parser!LackMember, Parser!MayFail, Parser!Parsing, Parser!Codes, SUCCESS
  <2>3. CASE Parser!ErrorType
    BY <1>2, <2>3, FailedReturn
       DEF Parser!ErrorType, Parser!MayFail, Parser!Parsing, Parser!Codes, SUCCESS
  <2>4. CASE Parser!AlreadyExist
    BY <1>2, <2>4, FailedReturn DEF Parser!AlreadyExist, Parser!Codes, SUCCESS
  <2>5. CASE Parser!Throw
    BY <1>2, <2>5, FailedReturn
       DEF Parser!Throw, Parser!MayFail, Parser!Parsing, Parser!Codes, SUCCESS
  <2>6. CASE Parser!Succeed
    BY <1>2, <2>6, SuccessfulReturn
  <2>7. QED
    BY <1>2, <2>1, <2>2, <2>3, <2>4, <2>5, <2>6 DEF Parser!Next
<1>3. QED  BY <1>1, <1>2

-----------------------------------------------------------------------------
(* Create, for every configuration *)

LEMMA CreateShape ==
    ASSUME NEW c \in Pipeline!Configs
    PROVE  /\ Pipeline!Create(c) \in Seq(Steps(PipelineFields(c.type)))
           /\ Len(Pipeline!Create(c)) \in Nat
           /\ \A i \in 1..Len(Pipeline!Create(c)) :
                 /\ Pipeline!Create(c)[i] \in Steps(PipelineFields(c.type))
                 /\ Fits(Made(Pipeline!Create(c), i - 1), Fed(Pipeline!Create(c), i - 1),
                         Pipeline!Create(c)[i])
           /\ Made(Pipeline!Create(c), Len(Pipeline!Create(c))) = CreateMade(c)
           /\ Fed(Pipeline!Create(c), Len(Pipeline!Create(c))) = CreateFed(c)
           /\ Feeding(Pipeline!Create(c), Len(Pipeline!Create(c))) = CreateFeeding(c)
<1> DEFINE s == Pipeline!Create(c)
           fields == PipelineFields(c.type)
<1>1. c.type \in 0..2
  BY DEF Pipeline!Configs
<1>2. CreateFields \subseteq fields
  BY <1>1, PipelineMembers
<1>3. IsCamera(c) => CameraFields \subseteq fields
  BY <1>1, PipelineMembers DEF IsCamera, Pipeline!USB_CAMERE
<1>4. ~IsCamera(c) => "src_uri" \in fields
  BY <1>1, PipelineMembers DEF IsCamera, Pipeline!USB_CAMERE
<1>5. Builds(fields, {}, {}, s, CreateMade(c), CreateFed(c), CreateFeeding(c))
  BY <1>2, <1>3, <1>4, CreateBuilds
<1> HIDE DEF s, fields
<1>6. s \in Seq(Steps(fields)) /\ Len(s) \in Nat /\ \A i \in 1..Len(s) : s[i] \in Steps(fields)
  BY <1>5, LenProperties, ElementOfSeq DEF Builds
<1>7. \A i \in 1..Len(s) : Fits(Made(s, i - 1), Fed(s, i - 1), s[i])
  BY <1>5 DEF Builds
<1>8. QED  BY <1>5, <1>6, <1>7 DEF Builds, s, fields

\* The links of a step's chain.
LEMMA ChainLinks ==
    ASSUME NEW fields, NEW step \in Steps(fields)
    PROVE  /\ SinksOf(Pipeline!Pairs(step.chain)) = Sinks(step)
           /\ SourcesOf(Pipeline!Pairs(step.chain)) = Feeds(step)
           /\ Pipeline!Pairs(step.chain)
                \subseteq Pipeline!ToSet(step.chain) \X Pipeline!ToSet(step.chain)
           /\ \A l, k \in Pipeline!Pairs(step.chain) : l[2] = k[2] => l = k
           /\ step.op # "link" => Pipeline!Pairs(step.chain) = {}
           /\ \A l \in Pipeline!Pairs(step.chain) : Away(l)
<1> DEFINE chain == step.chain
           n == Len(chain)
<1>1. n \in Nat /\ DOMAIN chain = 1..n
  BY LenProperties DEF Steps
<1>2. Pipeline!Pairs(chain) = {<<chain[i], chain[i + 1]>> : i \in 1..n - 1}
  BY DEF Pipeline!Pairs
<1>3. SinksOf(Pipeline!Pairs(chain)) = {chain[i + 1] : i \in 1..n - 1}
  <2>1. ASSUME NEW l \in Pipeline!Pairs(chain)
        PROVE  \E i \in 1..n - 1 : l[2] = chain[i + 1]
    BY <1>2
  <2>2. ASSUME NEW i \in 1..n - 1
        PROVE  \E l \in Pipeline!Pairs(chain) : l[2] = chain[i + 1]
    <3>1. <<chain[i], chain[i + 1]>> \in Pipeline!Pairs(chain)
      BY <1>2
    <3>2. <<chain[i], chain[i + 1]>>[2] = chain[i + 1]
      OBVIOUS
    <3>3. QED  BY <3>1, <3>2
  <2>3. SinksOf(Pipeline!Pairs(chain)) \subseteq {chain[i + 1] : i \in 1..n - 1}
    BY <2>1 DEF SinksOf
  <2>4. {chain[i + 1] : i \in 1..n - 1} \subseteq SinksOf(Pipeline!Pairs(chain))
    BY <2>2 DEF SinksOf
  <2>5. QED  BY <2>3, <2>4
<1>4. SourcesOf(Pipeline!Pairs(chain)) = {chain[i] : i \in 1..n - 1}
  <2>1. ASSUME NEW l \in Pipeline!Pairs(chain)
        PROVE  \E i \in 1..n - 1 : l[1] = chain[i]
    BY <1>2
  <2>2. ASSUME NEW i \in 1..n - 1
        PROVE  \E l \in Pipeline!Pairs(chain) : l[1] = chain[i]
    <3>1. <<chain[i], chain[i + 1]>> \in Pipeline!Pairs(chain)
      BY <1>2
    <3>2. <<chain[i], chain[i + 1]>>[1] = chain[i]
      OBVIOUS
    <3>3. QED  BY <3>1, <3>2
  <2>3. SourcesOf(Pipeline!Pairs(chain)) \subseteq {chain[i] : i \in 1..n - 1}
    BY <2>1 DEF SourcesOf
  <2>4. {chain[i] : i \in 1..n - 1} \subseteq SourcesOf(Pipeline!Pairs(chain))
    BY <2>2 DEF SourcesOf
  <2>5. QED  BY <2>3, <2>4
<1>5. Pipeline!Pairs(chain) \subseteq Pipeline!ToSet(chain) \X Pipeline!ToSet(chain)
  BY <1>1, <1>2 DEF Pipeline!ToSet
<1>6. \A l, k \in Pipeline!Pairs(chain) : l[2] = k[2] => l = k
  <2>1. \A i, j \in 1..n : chain[i] = chain[j] => i = j
    BY DEF Steps
  <2>2. ASSUME NEW i \in 1..n - 1, NEW j \in 1..n - 1, chain[i + 1] = chain[j + 1]
        PROVE  i = j
    <3>1. i + 1 \in 1..n /\ j + 1 \in 1..n
      BY <1>1
    <3>2. i + 1 = j + 1
      BY <2>1, <2>2, <3>1
    <3>3. QED  BY <3>2
  <2>3. QED  BY <1>2, <2>2
<1>7. step.op # "link" => Pipeline!Pairs(chain) = {}
  <2>1. step.op # "link" => n \in {0, 1}
    BY DEF Steps
  <2>2. \A m \in {0, 1} : 1..m - 1 = {}
    OBVIOUS
  <2>3. QED  BY <1>2, <2>1, <2>2
<1>8. \A l \in Pipeline!Pairs(chain) : Away(l)
  BY <1>2 DEF Steps
<1>9. QED  BY <1>3, <1>4, <1>5, <1>6, <1>7, <1>8 DEF Sinks, Feeds

\* A chain that breaks has linked its first elements.
LEMMA BrokenChain ==
    ASSUME NEW fields, NEW step \in Steps(fields), NEW k \in 1..Len(step.chain)
    PROVE  Pipeline!Pairs(SubSeq(step.chain, 1, k)) \subseteq Pipeline!Pairs(step.chain)
<1> DEFINE chain == step.chain
           cut == SubSeq(chain, 1, k)
<1>1. chain \in Seq(Elements) /\ Len(chain) \in Nat /\ \A i \in 1..k : chain[i] \in Elements
  BY LenProperties, ElementOfSeq DEF Steps
<1>2. Len(cut) = k /\ \A i \in 1..k : cut[i] = chain[i]
  BY <1>1, SubSeqProperties
<1> HIDE DEF cut
<1>3. ASSUME NEW i \in 1..k - 1
      PROVE  <<cut[i], cut[i + 1]>> = <<chain[i], chain[i + 1]>> /\ i \in 1..Len(chain) - 1
  <2>1. i \in 1..k /\ i + 1 \in 1..k
    BY <1>1
  <2>2. i \in 1..Len(chain) - 1
    BY <1>1
  <2>3. QED  BY <1>2, <2>1, <2>2
<1>4. QED  BY <1>2, <1>3 DEF Pipeline!Pairs, cut

\* New links into sink pads that were free.
LEMMA FreeSinks ==
    ASSUME NEW old, NEW new,
           \A l, k \in old : l[2] = k[2] => l = k,
           \A l, k \in new : l[2] = k[2] => l = k,
           SinksOf(old) \cap SinksOf(new) = {}
    PROVE  \A l, k \in old \cup new : l[2] = k[2] => l = k
<1>1. ASSUME NEW l \in old, NEW k \in new
      PROVE  l[2] # k[2]
  BY DEF SinksOf
<1>2. QED  BY <1>1

LEMMA SinksOfUnion ==
    ASSUME NEW old, NEW new
    PROVE  /\ SinksOf(old \cup new) = SinksOf(old) \cup SinksOf(new)
           /\ SourcesOf(old \cup new) = SourcesOf(old) \cup SourcesOf(new)
  BY DEF SinksOf, SourcesOf

-----------------------------------------------------------------------------
(* The pipeline *)

\* While Create runs, the next step fits.
LEMMA StepFits ==
    ASSUME PipelineInv, Pipeline!Creating
    PROVE  /\ at + 1 \in 1..Len(Pipeline!Create(m_config))
           /\ Pipeline!Step \in Steps(PipelineFields(m_config.type))
           /\ Pipeline!Step.op = "link" => Pipeline!ToSet(Pipeline!Step.chain) \subseteq made
           /\ Pipeline!Step.op = "link" => Sinks(Pipeline!Step) \cap SinksOf(links) = {}
<1> DEFINE steps == Pipeline!Create(m_config)
<1>1. Len(steps) \in Nat /\ at < Len(steps) /\ at \in 0..Len(steps) /\ status = "creating"
  BY CreateShape DEF PipelineInv, Pipeline!Creating
<1>2. at + 1 \in 1..Len(steps) /\ (at + 1) - 1 = at
  BY <1>1
<1>3. /\ steps[at + 1] \in Steps(PipelineFields(m_config.type))
      /\ Fits(Made(steps, at), Fed(steps, at), steps[at + 1])
  BY <1>2, CreateShape DEF PipelineInv
<1>4. made = Made(steps, at) /\ SinksOf(links) = Fed(steps, at)
  BY <1>1 DEF PipelineInv, Linked, Exact, NotFailed, When
<1>5. QED  BY <1>2, <1>3, <1>4 DEF Fits, Pipeline!Step

\* No step of Create links uridecodebin.
LEMMA CreateJoinsNoPad ==
    ASSUME NEW c \in Pipeline!Configs, NEW n \in 0..Len(Pipeline!Create(c))
    PROVE  "uridecodebin0" \notin Feeding(Pipeline!Create(c), n)
<1>1. Feeding(Pipeline!Create(c), n) \subseteq CreateFeeding(c)
  BY CreateShape, MadeGrows
<1>2. "uridecodebin0" \notin CreateFeeding(c)
  BY DEF CreateFeeding, When, CameraElements, DisplayFeeding, InferenceFeeding,
         HdmiElements, RtmpElements, AppsinkElements
<1>3. QED  BY <1>1, <1>2

LinksAre(steps, n, ls) == SinksOf(ls) = Fed(steps, n) /\ SourcesOf(ls) = Feeding(steps, n)

\* As long as the links are those of the steps, the source is not joined.
LEMMA ExactWithoutPad ==
    ASSUME used' \subseteq made' \cup (decoder' \ {"m_dec_sink_probe"}),
           m_config' \in Pipeline!Configs, at' \in 0..Len(Pipeline!Create(m_config')),
           LinksAre(Pipeline!Create(m_config'), at', links')
    PROVE  Exact' /\ ~Joined'
<1>1. "uridecodebin0" \notin Feeding(Pipeline!Create(m_config'), at')
  BY CreateJoinsNoPad
<1>2. ~Joined'
  BY <1>1 DEF Joined, LinksAre, SourcesOf
<1>3. QED
  BY <1>2 DEF Exact, When, LinksAre, SinksOf, SourcesOf, Fed, Feeding, Sinks, Feeds

LEMMA StepKeeps ==
    ASSUME PipelineInv, Pipeline!CreateStep
    PROVE  PipelineInv'
<1> DEFINE steps == Pipeline!Create(m_config)
           step == Pipeline!Step
           new == Pipeline!Pairs(step.chain)
<1>1. /\ Pipeline!Creating /\ status = "creating" /\ status' = "creating"
      /\ m_config' = m_config /\ decoder' = decoder /\ at' = at + 1
      /\ made' = IF step.op = "make" THEN made \cup Pipeline!ToSet(step.chain) ELSE made
      /\ links' = links \cup new
      /\ used' = IF step.op = "link" THEN used \cup Pipeline!ToSet(step.chain) ELSE used
      /\ read' = read \cup step.reads
  BY DEF Pipeline!CreateStep, Pipeline!Creating
<1>2. /\ at + 1 \in 1..Len(steps) /\ step = steps[at + 1]
      /\ step \in Steps(PipelineFields(m_config.type))
      /\ step.op = "link" => Pipeline!ToSet(step.chain) \subseteq made
      /\ step.op = "link" => Sinks(step) \cap SinksOf(links) = {}
  BY <1>1, StepFits DEF Pipeline!Step
<1>3. /\ SinksOf(new) = Sinks(step) /\ SourcesOf(new) = Feeds(step)
      /\ new \subseteq Pipeline!ToSet(step.chain) \X Pipeline!ToSet(step.chain)
      /\ \A l, k \in new : l[2] = k[2] => l = k
      /\ step.op # "link" => new = {}
      /\ \A l \in new : Away(l)
  BY <1>2, ChainLinks
<1>4. /\ made = Made(steps, at) /\ links \subseteq made \X made
      /\ \A l, k \in links : l[2] = k[2] => l = k
      /\ \A l \in links : Away(l)
      /\ used \subseteq made \cup (decoder \ {"m_dec_sink_probe"})
      /\ decoder \subseteq {"m_dec_sink_probe", "m_decoder"}
      /\ "m_dec_sink_probe" \in decoder => "m_decoder" \in decoder
      /\ SinksOf(links) = Fed(steps, at) /\ SourcesOf(links) = Feeding(steps, at)
  BY <1>1 DEF PipelineInv, Linked, Exact, NotFailed, When
<1>5. at \in Nat
  BY CreateShape DEF PipelineInv
<1> HIDE DEF steps, step, new
<1>6. /\ Made(steps, at + 1) = made \cup ElementsMade(step)
      /\ Fed(steps, at + 1) = Fed(steps, at) \cup Sinks(step)
      /\ Feeding(steps, at + 1) = Feeding(steps, at) \cup Feeds(step)
  BY <1>2, <1>4, <1>5, NextStep
<1>7. made' = Made(steps, at + 1) /\ made \subseteq made'
  BY <1>1, <1>6 DEF ElementsMade
<1>8. links' \subseteq made' \X made' /\ used' \subseteq made' \cup (decoder' \ {"m_dec_sink_probe"})
  BY <1>1, <1>2, <1>3, <1>4, <1>7
<1>9. \A l, k \in links' : l[2] = k[2] => l = k
  <2>1. SinksOf(links) \cap SinksOf(new) = {}
    BY <1>2, <1>3 DEF SinksOf
  <2>2. QED  BY <1>1, <1>3, <1>4, <2>1, FreeSinks
<1>10. SinksOf(links') = Fed(steps, at + 1) /\ SourcesOf(links') = Feeding(steps, at + 1)
  <2>1. /\ SinksOf(links') = SinksOf(links) \cup SinksOf(new)
        /\ SourcesOf(links') = SourcesOf(links) \cup SourcesOf(new)
    BY <1>1, SinksOfUnion
  <2>2. QED  BY <1>3, <1>4, <1>6, <2>1
<1>11. m_config' \in Pipeline!Configs /\ at' \in 0..Len(Pipeline!Create(m_config'))
  BY <1>1, <1>2, <1>5, CreateShape DEF PipelineInv, steps
<1>12. ReadKnown'
  BY <1>1, <1>2 DEF PipelineInv, ReadKnown, Steps, PipelineFields, TaskFields
<1>13. Exact' /\ ~Joined'
  <2>1. LinksAre(Pipeline!Create(m_config'), at', links')
    BY <1>1, <1>4, <1>10 DEF steps, LinksAre
  <2>2. QED  BY <1>8, <1>11, <2>1, ExactWithoutPad
<1>14. Linked'
  <2>1. \A l \in links' : Away(l)
    BY <1>1, <1>3, <1>4
  <2>2. QED
    BY <1>1, <1>4, <1>7, <1>8, <1>9, <1>13, <2>1 DEF Linked, Made, ElementsMade, steps
<1>15. QED  BY <1>11, <1>12, <1>13, <1>14 DEF PipelineInv

LEMMA FailureKeeps ==
    ASSUME PipelineInv, Pipeline!CreateFails
    PROVE  PipelineInv' /\ ~Pipeline!Built'
<1> DEFINE step == Pipeline!Step
           chain == step.chain
<1>1. /\ Pipeline!Creating /\ status = "creating" /\ status' = "failed"
      /\ UNCHANGED <<m_config, at, made, decoder, read>>
      /\ step.op \in {"make", "link"}
  BY DEF Pipeline!CreateFails, Pipeline!Creating
<1>2. PICK k \in 1..Len(chain) : links' = links \cup Pipeline!Pairs(SubSeq(chain, 1, k))
  BY DEF Pipeline!CreateFails
<1> DEFINE new == Pipeline!Pairs(SubSeq(chain, 1, k))
<1>3. /\ step \in Steps(PipelineFields(m_config.type))
      /\ step.op = "link" => Pipeline!ToSet(chain) \subseteq made
      /\ step.op = "link" => Sinks(step) \cap SinksOf(links) = {}
  BY <1>1, StepFits
<1>4. new \subseteq Pipeline!Pairs(chain)
  BY <1>3, BrokenChain
<1>5. /\ SinksOf(Pipeline!Pairs(chain)) = Sinks(step)
      /\ Pipeline!Pairs(chain) \subseteq Pipeline!ToSet(chain) \X Pipeline!ToSet(chain)
      /\ \A l, m \in Pipeline!Pairs(chain) : l[2] = m[2] => l = m
      /\ step.op # "link" => Pipeline!Pairs(chain) = {}
      /\ \A l \in Pipeline!Pairs(chain) : Away(l)
  BY <1>3, ChainLinks
<1> HIDE DEF new, step, chain
<1>6. new \subseteq made \X made
  BY <1>3, <1>4, <1>5
<1>7. SinksOf(links) \cap SinksOf(new) = {}
  <2>1. SinksOf(new) \subseteq SinksOf(Pipeline!Pairs(chain))
    BY <1>4 DEF SinksOf
  <2>2. step.op # "link" => SinksOf(new) = {}
    BY <1>4, <1>5 DEF SinksOf
  <2>3. QED  BY <1>3, <1>5, <2>1, <2>2
<1>8. \A l, m \in new : l[2] = m[2] => l = m
  BY <1>4, <1>5
<1>9. links \subseteq made \X made /\ \A l, m \in links : l[2] = m[2] => l = m
  BY DEF PipelineInv, Linked
<1>10. \A l, m \in links' : l[2] = m[2] => l = m
  BY <1>2, <1>7, <1>8, <1>9, FreeSinks DEF new
<1>11. links' \subseteq made' \X made'
  BY <1>1, <1>2, <1>6, <1>9 DEF new
<1>12. ~Pipeline!Built /\ ~Pipeline!Built'
  <2>1. at < Len(Pipeline!Create(m_config)) /\ at \in Nat /\ Len(Pipeline!Create(m_config)) \in Nat
    BY <1>1, CreateShape DEF PipelineInv, Pipeline!Creating
  <2>2. at # Len(Pipeline!Create(m_config))
    BY <2>1
  <2>3. QED  BY <1>1, <2>2 DEF Pipeline!Built
<1>13. Linked'
  <2>1. \A l \in links' : Away(l)
    BY <1>2, <1>4, <1>5 DEF PipelineInv, Linked, new
  <2>2. QED  BY <1>1, <1>10, <1>11, <2>1 DEF PipelineInv, Linked
<1>14. Exact'
  BY <1>1, <1>12 DEF Exact, NotFailed
<1>15. ReadKnown' /\ m_config' \in Pipeline!Configs /\ at' \in 0..Len(Pipeline!Create(m_config'))
  BY <1>1 DEF PipelineInv, ReadKnown, PipelineFields, TaskFields
<1>16. QED  BY <1>12, <1>13, <1>14, <1>15 DEF PipelineInv

LEMMA MadeByCreate ==
    ASSUME PipelineInv
    PROVE  /\ made \subseteq CreateMade(m_config)
           /\ Pipeline!Built => made = CreateMade(m_config)
           /\ "uridecodebin0" \in made => ~IsCamera(m_config)
<1> DEFINE steps == Pipeline!Create(m_config)
<1>1. /\ Len(steps) \in Nat /\ at \in 0..Len(steps) /\ made = Made(steps, at)
      /\ Made(steps, Len(steps)) = CreateMade(m_config)
  BY CreateShape DEF PipelineInv, Linked
<1>2. made \subseteq CreateMade(m_config)
  BY <1>1, MadeGrows
<1>3. IsCamera(m_config) => "uridecodebin0" \notin CreateMade(m_config)
  BY DEF CreateMade, CameraElements, DisplayElements, InferenceElements, HdmiElements,
         RtmpElements, AppsinkElements, When
<1>4. QED  BY <1>1, <1>2, <1>3 DEF Pipeline!Built

\* The muxer is part of every pipeline, the fakesink of one without outputs.
LEMMA TargetMade ==
    ASSUME PipelineInv, Pipeline!Built
    PROVE  Pipeline!PadTarget \in made /\ "nvstreammux0" \in made
<1>1. made = CreateMade(m_config)
  BY MadeByCreate
<1>2. "nvstreammux0" \in CreateMade(m_config)
  BY DEF CreateMade
<1>3. ~m_config.hdmi /\ ~m_config.rtmp => "fakesink0" \in CreateMade(m_config)
  BY DEF CreateMade, DisplayElements
<1>4. QED  BY <1>1, <1>2, <1>3 DEF Pipeline!PadTarget

\* What is read for a pipeline stays among the fields of its kind of input.
LEMMA CallbackFields ==
    ASSUME PipelineInv
    PROVE  /\ {"enable_hdmi", "enable_rtmp", "enable_appsink"}
                \subseteq PipelineFields(m_config.type)
           /\ DrawFields \subseteq PipelineFields(m_config.type)
           /\ "uridecodebin0" \in made =>
                {"src_uri", "file_loop", "rtsp_latency", "rtp_protocol"}
                  \subseteq PipelineFields(m_config.type)
<1>1. m_config.type \in 0..2
  BY DEF PipelineInv, Pipeline!Configs
<1>2. {"enable_hdmi", "enable_rtmp", "enable_appsink"} \subseteq CreateFields
  BY DEF CreateFields
<1>3. "uridecodebin0" \in made => m_config.type # 2
  BY MadeByCreate DEF IsCamera, Pipeline!USB_CAMERE
<1>4. QED  BY <1>1, <1>2, <1>3, PipelineMembers

\* A step that leaves the elements and the links alone.
LEMMA ExactUnlinked ==
    ASSUME Exact, NotFailed' => NotFailed, UNCHANGED <<m_config, at, made, links>>,
           NotFailed' => used' \subseteq made \cup (decoder' \ {"m_dec_sink_probe"})
    PROVE  Exact'
<1>1. Joined' = Joined /\ (Pipeline!PadTarget)' = Pipeline!PadTarget
  BY DEF Joined, Pipeline!PadTarget, SourcesOf
<1>2. /\ SinksOf(links') = SinksOf(links) /\ SourcesOf(links') = SourcesOf(links)
      /\ Pipeline!Create(m_config') = Pipeline!Create(m_config) /\ at' = at
  OBVIOUS
<1>3. SUFFICES ASSUME NotFailed'
               PROVE  Exact'
  BY DEF Exact
<1>4. /\ used' \subseteq made' \cup (decoder' \ {"m_dec_sink_probe"})
      /\ SinksOf(links) = Fed(Pipeline!Create(m_config), at) \cup When(Joined, {Pipeline!PadTarget})
      /\ SourcesOf(links)
           = Feeding(Pipeline!Create(m_config), at) \cup When(Joined, {"uridecodebin0"})
      /\ Joined => Pipeline!PadTarget \notin Fed(Pipeline!Create(m_config), at)
  BY <1>3 DEF Exact
<1>5. QED  BY <1>1, <1>2, <1>4 DEF Exact, SinksOf, SourcesOf

\* A callback that only reads.
LEMMA ReadingKeeps ==
    ASSUME PipelineInv, NEW fields \in SUBSET (PipelineFields(m_config.type) \cup TaskFields),
           read' = read \cup fields,
           UNCHANGED <<m_config, status, at, made, links, decoder, used>>
    PROVE  PipelineInv'
<1>1. ReadKnown'
  BY DEF PipelineInv, ReadKnown, PipelineFields, TaskFields
<1>2. Linked'
  BY DEF PipelineInv, Linked, Joined
<1>3. Exact'
  <2>1. NotFailed' => NotFailed
    BY DEF NotFailed, Pipeline!Built
  <2>2. QED  BY <2>1, ExactUnlinked DEF PipelineInv, Exact
<1>4. QED  BY <1>1, <1>2, <1>3 DEF PipelineInv

LEMMA PadKeeps ==
    ASSUME PipelineInv, Progress, Pipeline!PadAdded
    PROVE  PipelineInv'
<1> DEFINE target == Pipeline!PadTarget
           pad == <<"uridecodebin0", target>>
           steps == Pipeline!Create(m_config)
<1>1. /\ status \in {"created", "failed"} /\ "uridecodebin0" \in made
      /\ \/ links' = links
         \/ /\ target \in made /\ ~Pipeline!Occupied(target)
            /\ links' = links \cup {pad}
      /\ used' = used \cup {target}
      /\ read' = read \cup {"enable_hdmi", "enable_rtmp", "enable_appsink"}
      /\ UNCHANGED <<m_config, status, at, made, decoder>>
  BY DEF Pipeline!PadAdded, Pipeline!Ready
<1>2. Pipeline!Occupied(target) <=> target \in SinksOf(links)
  BY DEF Pipeline!Occupied, SinksOf
<1>3. target' = target
  BY <1>1 DEF Pipeline!PadTarget
<1> HIDE DEF target
<1>4. SinksOf({pad}) = {target} /\ SourcesOf({pad}) = {"uridecodebin0"}
  BY DEF SinksOf, SourcesOf
<1>5. ReadKnown'
  BY <1>1, CallbackFields DEF PipelineInv, ReadKnown, PipelineFields, TaskFields
<1>6. Linked'
  <2>1. links \subseteq made \X made /\ \A l, k \in links : l[2] = k[2] => l = k
    BY DEF PipelineInv, Linked
  <2>2. links' \subseteq made \X made
    BY <1>1, <2>1
  <2>3. \A l, k \in links' : l[2] = k[2] => l = k
    <3>1. CASE links' = links
      BY <2>1, <3>1
    <3>2. CASE ~Pipeline!Occupied(target) /\ links' = links \cup {pad}
      <4>1. SinksOf(links) \cap SinksOf({pad}) = {}
        BY <1>2, <1>4, <3>2
      <4>2. \A l, k \in {pad} : l[2] = k[2] => l = k
        OBVIOUS
      <4>3. QED  BY <2>1, <3>2, <4>1, <4>2, FreeSinks
    <3>3. QED  BY <1>1, <3>1, <3>2
  <2>4. Away(pad)
    BY Depths DEF Away, target, Pipeline!PadTarget
  <2>5. \A l \in links' : Away(l)
    BY <1>1, <2>4 DEF PipelineInv, Linked
  <2>6. QED  BY <1>1, <2>2, <2>3, <2>5 DEF PipelineInv, Linked
<1>7. Exact'
  <2> SUFFICES ASSUME NotFailed'
               PROVE  /\ used' \subseteq made \cup (decoder \ {"m_dec_sink_probe"})
                      /\ SinksOf(links') = Fed(steps, at) \cup When(Joined', {target})
                      /\ SourcesOf(links')
                           = Feeding(steps, at) \cup When(Joined', {"uridecodebin0"})
                      /\ Joined' => target \notin Fed(steps, at)
    BY <1>1, <1>3 DEF Exact, target, SinksOf, SourcesOf
  <2>1. Pipeline!Built /\ NotFailed
    BY <1>1 DEF NotFailed, Pipeline!Built
  <2>2. target \in made
    BY <2>1, TargetMade DEF target
  <2>3. /\ used \subseteq made \cup (decoder \ {"m_dec_sink_probe"})
        /\ SinksOf(links) = Fed(steps, at) \cup When(Joined, {target})
        /\ SourcesOf(links) = Feeding(steps, at) \cup When(Joined, {"uridecodebin0"})
        /\ Joined => target \notin Fed(steps, at)
    BY <2>1 DEF PipelineInv, Exact, target
  <2>4. CASE links' = links
    <3>1. Joined' = Joined
      BY <2>4 DEF Joined
    <3>2. QED  BY <1>1, <2>2, <2>3, <2>4, <3>1
  <2>5. CASE ~Pipeline!Occupied(target) /\ links' = links \cup {pad}
    <3>1. target \notin SinksOf(links)
      BY <1>2, <2>5
    <3>2. ~Joined /\ target \notin Fed(steps, at)
      BY <2>3, <3>1 DEF When
    <3>3. SinksOf(links') = SinksOf(links) \cup {target}
      BY <1>4, <2>5, SinksOfUnion
    <3>4. SourcesOf(links') = SourcesOf(links) \cup {"uridecodebin0"}
      BY <1>4, <2>5, SinksOfUnion
    <3>5. Joined'
      BY <3>4 DEF Joined, SourcesOf
    <3>6. QED  BY <1>1, <2>2, <2>3, <3>2, <3>3, <3>4, <3>5 DEF When
  <2>6. QED  BY <1>1, <2>4, <2>5
<1>8. QED  BY <1>1, <1>5, <1>6, <1>7 DEF PipelineInv

\* What a callback keeps of the decoder only adds to what may be used.
LEMMA DecoderKeeps ==
    ASSUME PipelineInv, Pipeline!DecoderAdded
    PROVE  PipelineInv'
<1>1. /\ "uridecodebin0" \in made
      /\ read' = read \cup {"src_uri", "file_loop"}
      /\ UNCHANGED <<m_config, status, at, made, links, used>>
  BY DEF Pipeline!DecoderAdded
<1>2. PICK kept \in {{"m_dec_sink_probe", "m_decoder"}, {"m_decoder"}, {}} :
         decoder' = decoder \cup kept
  BY DEF Pipeline!DecoderAdded
<1>3. ReadKnown'
  BY <1>1, CallbackFields DEF PipelineInv, ReadKnown, PipelineFields, TaskFields
<1>4. Linked'
  BY <1>1, <1>2 DEF PipelineInv, Linked, Joined
<1>5. Exact'
  <2>1. NotFailed' => NotFailed
    BY <1>1 DEF NotFailed, Pipeline!Built
  <2>2. NotFailed' => used' \subseteq made \cup (decoder' \ {"m_dec_sink_probe"})
    BY <1>1, <1>2, <2>1 DEF PipelineInv, Exact
  <2>3. QED  BY <1>1, <2>1, <2>2, ExactUnlinked DEF PipelineInv
<1>6. QED  BY <1>1, <1>3, <1>4, <1>5 DEF PipelineInv

LEMMA CallbackKeeps ==
    ASSUME PipelineInv, Progress, Pipeline!Callback
    PROVE  PipelineInv' /\ UNCHANGED <<m_config, status, at>>
<1>1. CASE Pipeline!SourceSetup
  <2>1. {"rtsp_latency", "rtp_protocol"} \in SUBSET (PipelineFields(m_config.type) \cup TaskFields)
    BY <1>1, CallbackFields DEF Pipeline!SourceSetup
  <2>2. QED  BY <1>1, <2>1, ReadingKeeps DEF Pipeline!SourceSetup
<1>2. CASE Pipeline!DecoderAdded
  BY <1>2, DecoderKeeps DEF Pipeline!DecoderAdded
<1>3. CASE Pipeline!PadAdded
  BY <1>3, PadKeeps DEF Pipeline!PadAdded
<1>4. CASE Pipeline!DrawResults
  <2>1. DrawFields \in SUBSET (PipelineFields(m_config.type) \cup TaskFields)
    BY CallbackFields
  <2>2. QED  BY <1>4, <2>1, ReadingKeeps DEF Pipeline!DrawResults, DrawFields
<1>5. QED  BY <1>1, <1>2, <1>3, <1>4 DEF Pipeline!Callback

LEMMA DestroyKeeps ==
    ASSUME PipelineInv, Pipeline!Destroy
    PROVE  PipelineInv'
<1>1. /\ status \in {"created", "failed"} /\ status' = "destroyed"
      /\ used' = used \cup {"nvstreammux0"}
                      \cup (IF "m_dec_sink_probe" \in decoder THEN {"m_decoder"} ELSE {})
      /\ decoder' = decoder \ {"m_dec_sink_probe"}
      /\ UNCHANGED <<m_config, at, made, links, read>>
  BY DEF Pipeline!Destroy, Pipeline!Ready
<1>2. ReadKnown'
  BY <1>1 DEF PipelineInv, ReadKnown, PipelineFields, TaskFields
<1>3. Linked'
  BY <1>1 DEF PipelineInv, Linked, Joined
<1>4. Exact'
  <2> SUFFICES ASSUME NotFailed'
               PROVE  Exact'
    BY DEF Exact
  <2>1. Pipeline!Built /\ NotFailed
    BY <1>1 DEF NotFailed, Pipeline!Built
  <2>2. "nvstreammux0" \in made
    BY <2>1, TargetMade
  <2>3. used \subseteq made \cup (decoder \ {"m_dec_sink_probe"})
    BY <2>1 DEF PipelineInv, Exact
  <2>4. "m_dec_sink_probe" \in decoder => "m_decoder" \in decoder'
    BY <1>1 DEF PipelineInv, Linked
  <2>5. used' \subseteq made' \cup (decoder' \ {"m_dec_sink_probe"})
    BY <1>1, <2>2, <2>3, <2>4
  <2>6. QED  BY <1>1, <2>1, <2>5, ExactUnlinked DEF PipelineInv
<1>5. QED  BY <1>1, <1>2, <1>3, <1>4 DEF PipelineInv

LEMMA ReturnKeeps ==
    ASSUME PipelineInv, Pipeline!CreateReturns
    PROVE  PipelineInv' /\ Pipeline!Built'
<1>1. /\ status = "creating" /\ status' = "created" /\ Pipeline!Built
      /\ UNCHANGED <<m_config, at, made, links, decoder, used, read>>
  BY DEF Pipeline!CreateReturns, Pipeline!Built
<1>2. ReadKnown'
  BY <1>1 DEF PipelineInv, ReadKnown, PipelineFields, TaskFields
<1>3. Linked'
  BY <1>1 DEF PipelineInv, Linked, Joined
<1>4. Exact'
  <2>1. NotFailed
    BY <1>1 DEF NotFailed
  <2>2. QED  BY <1>1, <2>1, ExactUnlinked DEF PipelineInv, Exact
<1>5. Pipeline!Built'
  BY <1>1 DEF Pipeline!Built
<1>6. QED  BY <1>1, <1>2, <1>3, <1>4, <1>5 DEF PipelineInv

LEMMA BeginKeeps ==
    ASSUME PipelineInv, Progress, status = "none", read = {},
           NEW c \in Pipeline!Configs, Pipeline!Begin(c)
    PROVE  PipelineInv'
<1>1. /\ m_config' = c /\ status' = "creating" /\ at = 0
      /\ UNCHANGED <<at, made, links, decoder, used, read>>
  BY DEF Pipeline!Begin, Progress, PipelineInv, Linked
<1>2. \A s : Made(s, 0) = {} /\ Fed(s, 0) = {} /\ Feeding(s, 0) = {}
  BY DEF Made, Fed, Feeding
<1>3. /\ made = {} /\ used \subseteq decoder \ {"m_dec_sink_probe"}
      /\ SinksOf(links) = {} /\ SourcesOf(links) = {}
  BY <1>1, <1>2 DEF PipelineInv, Linked, Exact, NotFailed, When
<1>4. m_config' \in Pipeline!Configs /\ at' \in 0..Len(Pipeline!Create(m_config'))
  BY <1>1, CreateShape
<1>5. ReadKnown'
  BY <1>1 DEF ReadKnown
<1>6. Exact' /\ ~Joined'
  <2>1. LinksAre(Pipeline!Create(m_config'), at', links')
    BY <1>1, <1>2, <1>3 DEF LinksAre, SinksOf, SourcesOf
  <2>2. QED  BY <1>1, <1>3, <1>4, <2>1, ExactWithoutPad
<1>7. Linked'
  BY <1>1, <1>2, <1>3, <1>6 DEF PipelineInv, Linked, Made
<1>8. QED  BY <1>4, <1>5, <1>6, <1>7 DEF PipelineInv

-----------------------------------------------------------------------------
(* The inductive invariant holds *)

LEMMA Initially == Init => BuildInv
<1> SUFFICES ASSUME Init
             PROVE  BuildInv
  OBVIOUS
<1>1. Parser!Init /\ Pipeline!GraphInit /\ channel = "none"
  BY DEF Init
<1>2. ParserInv
  BY <1>1, ParserInvariant
<1>3. Progress /\ FromDocument
  <2>1. Pipeline!NoConfig \in Pipeline!Configs
    BY DEF Pipeline!NoConfig, Pipeline!Configs
  <2>2. status = "none" /\ at = 0 /\ read = {}
    BY <1>1 DEF Pipeline!GraphInit
  <2>3. QED  BY <1>1, <2>2 DEF Progress, FromDocument
<1>4. PipelineInv
  <2>1. m_config \in Pipeline!Configs
    BY <1>1 DEF Pipeline!GraphInit, Pipeline!NoConfig, Pipeline!Configs
  <2>2. at \in 0..Len(Pipeline!Create(m_config))
    BY <1>1, <2>1, CreateShape DEF Pipeline!GraphInit
  <2>3. \A s : Made(s, 0) = {} /\ Fed(s, 0) = {} /\ Feeding(s, 0) = {}
    BY DEF Made, Fed, Feeding
  <2>4. /\ at = 0 /\ made = {} /\ links = {} /\ used = {} /\ read = {}
        /\ decoder = {} /\ status = "none"
    BY <1>1 DEF Pipeline!GraphInit
  <2>5. SinksOf(links) = {} /\ SourcesOf(links) = {}
    BY <2>4 DEF SinksOf, SourcesOf
  <2>6. Linked
    BY <2>3, <2>4, <2>5 DEF Linked, Joined
  <2>7. Exact
    BY <2>3, <2>4, <2>5 DEF Exact, Joined, When
  <2>8. QED  BY <2>1, <2>2, <2>4, <2>6, <2>7 DEF PipelineInv, ReadKnown
<1>5. QED  BY <1>2, <1>3, <1>4 DEF BuildInv

\* The pipeline's half depends on its own variables only.
LEMMA PipelineUntouched ==
    ASSUME PipelineInv, UNCHANGED pipelineVars
    PROVE  PipelineInv'
<1>1. ReadKnown'
  BY DEF PipelineInv, ReadKnown, PipelineFields, TaskFields, pipelineVars
<1>2. Linked'
  BY DEF PipelineInv, Linked, Joined, pipelineVars
<1>3. Exact'
  <2>1. NotFailed' => NotFailed
    BY DEF NotFailed, Pipeline!Built, pipelineVars
  <2>2. QED  BY <2>1, ExactUnlinked DEF PipelineInv, Exact, pipelineVars
<1>4. QED  BY <1>1, <1>2, <1>3 DEF PipelineInv, pipelineVars

LEMMA ParserUntouched ==
    ASSUME ParserInv, UNCHANGED parserVars
    PROVE  ParserInv'
  BY DEF ParserInv, AssignedUpTo, PipelineFields, parserVars

LEMMA ParseKeeps ==
    ASSUME BuildInv, Parse
    PROVE  BuildInv'
<1>1. channel = "none" /\ Parser!Next /\ UNCHANGED pipelineVars /\ UNCHANGED channel
  BY DEF Parse
<1>2. ParserInv'
  BY <1>1, ParserInvariant DEF BuildInv
<1>3. PipelineInv'
  BY <1>1, PipelineUntouched DEF BuildInv
<1>4. Progress' /\ FromDocument'
  BY <1>1 DEF BuildInv, Progress, FromDocument, Pipeline!Built, pipelineVars
<1>5. QED  BY <1>2, <1>3, <1>4 DEF BuildInv

LEMMA RefuseKeeps ==
    ASSUME BuildInv, Refuse
    PROVE  BuildInv'
<1>1. /\ channel = "none" /\ channel' = "refused"
      /\ UNCHANGED parserVars /\ UNCHANGED pipelineVars
  BY DEF Refuse
<1>2. ParserInv' /\ PipelineInv'
  BY <1>1, ParserUntouched, PipelineUntouched DEF BuildInv
<1>3. Progress' /\ FromDocument'
  BY <1>1 DEF BuildInv, Progress, FromDocument, Pipeline!Built, pipelineVars
<1>4. QED  BY <1>2, <1>3 DEF BuildInv

LEMMA InitPipelineKeeps ==
    ASSUME BuildInv, InitPipeline
    PROVE  BuildInv'
<1>1. channel = "none" /\ channel' = "building" /\ UNCHANGED parserVars
  BY DEF InitPipeline
<1>2. PICK c \in Pipeline!Configs :
         /\ c.type = IF "input_type" \in assigned THEN inputType ELSE 0
         /\ Pipeline!Begin(c)
  BY DEF InitPipeline
<1>3. ParserInv'
  BY <1>1, ParserUntouched DEF BuildInv
<1>4. status = "none" /\ read = {}
  BY <1>1 DEF BuildInv, Progress
<1>5. PipelineInv'
  BY <1>2, <1>4, BeginKeeps DEF BuildInv
<1>6. status' = "creating" /\ m_config' = c
  BY <1>2 DEF Pipeline!Begin
<1>7. Progress'
  BY <1>1, <1>6 DEF Progress
<1>8. FromDocument'
  BY <1>1, <1>2, <1>6 DEF FromDocument, parserVars
<1>9. QED  BY <1>3, <1>5, <1>7, <1>8 DEF BuildInv

LEMMA CreateKeeps ==
    ASSUME BuildInv, Create
    PROVE  BuildInv'
<1>1. /\ channel = "building" /\ channel' = "building"
      /\ Pipeline!Building /\ UNCHANGED parserVars
  BY DEF Create
<1>2. ParserInv'
  BY <1>1, ParserUntouched DEF BuildInv
<1>3. PipelineInv' /\ m_config' = m_config
      /\ \/ status' = "creating"
         \/ status' = "failed" /\ ~Pipeline!Built'
         \/ status' = "created" /\ Pipeline!Built'
  <2>1. CASE Pipeline!CreateStep
    BY <2>1, StepKeeps DEF BuildInv, Pipeline!CreateStep, Pipeline!Creating
  <2>2. CASE Pipeline!CreateFails
    BY <2>2, FailureKeeps DEF BuildInv, Pipeline!CreateFails
  <2>3. CASE Pipeline!CreateReturns
    BY <2>3, ReturnKeeps DEF BuildInv, Pipeline!CreateReturns
  <2>4. QED  BY <1>1, <2>1, <2>2, <2>3 DEF Pipeline!Building
<1>4. Progress'
  BY <1>1, <1>3 DEF Progress
<1>5. FromDocument'
  BY <1>1, <1>3 DEF BuildInv, FromDocument, parserVars
<1>6. QED  BY <1>2, <1>3, <1>4, <1>5 DEF BuildInv

LEMMA InitTaskKeeps ==
    ASSUME BuildInv, InitTaskAndInsert
    PROVE  BuildInv'
<1> DEFINE fields == {"engine_file", "score_threshold", "nms_threshold", "classes_file"}
<1>1. /\ channel = "building" /\ status \in {"created", "failed"} /\ channel' = "listed"
      /\ read' = read \cup fields
      /\ UNCHANGED <<m_config, status, at, made, links, decoder, used>>
      /\ UNCHANGED parserVars
  BY DEF InitTaskAndInsert
<1>2. ParserInv'
  BY <1>1, ParserUntouched DEF BuildInv
<1>3. fields \in SUBSET (PipelineFields(m_config.type) \cup TaskFields)
  BY TaskMembers DEF TaskFields
<1>4. PipelineInv'
  BY <1>1, <1>3, ReadingKeeps DEF BuildInv
<1>5. Progress' /\ FromDocument'
  BY <1>1 DEF BuildInv, Progress, FromDocument, Pipeline!Built, parserVars
<1>6. QED  BY <1>2, <1>4, <1>5 DEF BuildInv

LEMMA RunKeeps ==
    ASSUME BuildInv, Run
    PROVE  BuildInv'
<1>1. /\ channel = "listed" /\ channel' = "listed"
      /\ Pipeline!Callback /\ UNCHANGED parserVars
  BY DEF Run
<1>2. ParserInv'
  BY <1>1, ParserUntouched DEF BuildInv
<1>3. PipelineInv' /\ UNCHANGED <<m_config, status, at>>
  BY <1>1, CallbackKeeps DEF BuildInv
<1>4. Progress' /\ FromDocument'
  BY <1>1, <1>3 DEF BuildInv, Progress, FromDocument, Pipeline!Built, parserVars
<1>5. QED  BY <1>2, <1>3, <1>4 DEF BuildInv

LEMMA DeleteKeeps ==
    ASSUME BuildInv, Delete
    PROVE  BuildInv'
<1>1. /\ channel = "listed" /\ channel' = "deleted"
      /\ Pipeline!Destroy /\ UNCHANGED parserVars
  BY DEF Delete
<1>2. ParserInv'
  BY <1>1, ParserUntouched DEF BuildInv
<1>3. PipelineInv'
  BY <1>1, DestroyKeeps DEF BuildInv
<1>4. status' = "destroyed" /\ m_config' = m_config
  BY <1>1 DEF Pipeline!Destroy
<1>5. Progress' /\ FromDocument'
  BY <1>1, <1>4 DEF BuildInv, Progress, FromDocument, parserVars
<1>6. QED  BY <1>2, <1>3, <1>5 DEF BuildInv

LEMMA Inductive == BuildInv /\ [Next]_vars => BuildInv'
<1> SUFFICES ASSUME BuildInv, [Next]_vars
             PROVE  BuildInv'
  OBVIOUS
<1>1. CASE Parse
  BY <1>1, ParseKeeps
<1>2. CASE Refuse
  BY <1>2, RefuseKeeps
<1>3. CASE InitPipeline
  BY <1>3, InitPipelineKeeps
<1>4. CASE Create
  BY <1>4, CreateKeeps
<1>5. CASE InitTaskAndInsert
  BY <1>5, InitTaskKeeps
<1>6. CASE Run
  BY <1>6, RunKeeps
<1>7. CASE Delete
  BY <1>7, DeleteKeeps
<1>8. CASE UNCHANGED vars
  <2>1. UNCHANGED parserVars /\ UNCHANGED pipelineVars /\ UNCHANGED channel
    BY <1>8 DEF vars
  <2>2. ParserInv' /\ PipelineInv'
    BY <2>1, ParserUntouched, PipelineUntouched DEF BuildInv
  <2>3. Progress' /\ FromDocument'
    BY <2>1 DEF BuildInv, Progress, FromDocument, Pipeline!Built, parserVars, pipelineVars
  <2>4. QED  BY <2>2, <2>3 DEF BuildInv
<1>9. QED  BY <1>1, <1>2, <1>3, <1>4, <1>5, <1>6, <1>7, <1>8 DEF Next

\* The inductive invariant: what the parser has assigned so far, how far Create is,
\* and the elements and links of the steps done.
THEOREM BuildInvariant == Spec => []BuildInv
<1>1. QED  BY Initially, Inductive, PTL DEF Spec

-----------------------------------------------------------------------------
(* What follows from it *)

LEMMA Typed == BuildInv => TypeOK
<1> SUFFICES ASSUME BuildInv
             PROVE  TypeOK
  OBVIOUS
<1>1. inputType \in 0..2 /\ Len(Parser!Pipeline(inputType)) = 34
  BY PipelineMembers DEF BuildInv, ParserInv
<1>2. parsed \in 0..Len(Parser!Pipeline(inputType))
  BY <1>1 DEF BuildInv, ParserInv
<1>3. Parser!TypeOK
  BY <1>1, <1>2 DEF BuildInv, ParserInv, Parser!TypeOK, PipelineFields, TaskFields
<1>4. status \in {"none", "creating", "created", "failed", "destroyed"}
  BY DEF BuildInv, Progress
<1>5. QED  BY <1>3, <1>4 DEF BuildInv, Progress, PipelineInv, Linked, TypeOK

\* The members and variables keep their types whatever a document gets wrong, every
\* link joins two elements that CreateV4l2src, Mux, Display, ... have made, and no sink
\* pad gets a second link, however often cb_uridecodebin_pad_added is called.
THEOREM TypeCorrect == Spec => []TypeOK
<1>1. QED  BY BuildInvariant, Typed, PTL

LEMMA Assigned == BuildInv => ReadsAreAssigned
<1> SUFFICES ASSUME BuildInv, Complete
             PROVE  read \subseteq assigned
  BY DEF ReadsAreAssigned
<1>1. /\ inputType \in 0..2
      /\ PipelineFields(inputType) \subseteq assigned /\ TaskFields \subseteq assigned
  BY DEF BuildInv, ParserInv, Complete
<1>2. "input_type" \in assigned
  BY <1>1, PipelineMembers DEF CreateFields
<1>3. CASE channel \in {"none", "refused"}
  BY <1>3 DEF BuildInv, Progress
<1>4. CASE channel \notin {"none", "refused"}
  <2>1. m_config.type = inputType
    BY <1>2, <1>4 DEF BuildInv, FromDocument
  <2>2. QED  BY <1>1, <2>1 DEF BuildInv, PipelineInv, ReadKnown
<1>5. QED  BY <1>3, <1>4

\* Whatever members a document may get wrong: of a configuration that both parsers
\* accepted, neither Create nor a callback nor Yolov5Task::Init reads a field that
\* ConfigParse left unassigned.
THEOREM NothingUnassignedIsRead == Spec => []ReadsAreAssigned
<1>1. QED  BY BuildInvariant, Assigned, PTL

LEMMA Present == BuildInv => NothingAbsentIsUsed
  BY DEF BuildInv, PipelineInv, Exact, NotFailed, NothingAbsentIsUsed

\* On a pipeline that Create built, or is building, no code goes through a member that
\* was never set, neither linking, nor in the pad callback, nor in Destroy.
THEOREM UsedIsMade == Spec => []NothingAbsentIsUsed
<1>1. QED  BY BuildInvariant, Present, PTL

\* The roots of the graph are what is not fed, its leaves what feeds nothing.
LEMMA Ends ==
    ASSUME links \subseteq made \X made,
           "video-pipeline" \notin SinksOf(links), "video-pipeline" \notin SourcesOf(links)
    PROVE  /\ Pipeline!Roots(Pipeline!Graph) = (made \ {"video-pipeline"}) \ SinksOf(links)
           /\ Pipeline!Leaves(Pipeline!Graph) = (made \ {"video-pipeline"}) \ SourcesOf(links)
<1> DEFINE node == made \ {"video-pipeline"}
<1>1. Pipeline!Graph.node = node /\ Pipeline!Graph.edge = links
  BY DEF Pipeline!Graph
<1>2. \A l \in links : l = <<l[1], l[2]>> /\ l[1] \in node /\ l[2] \in node
  BY DEF SinksOf, SourcesOf
<1>3. ASSUME NEW n \in node
      PROVE  /\ n \in SinksOf(links) <=> \E m \in node : <<m, n>> \in links
             /\ n \in SourcesOf(links) <=> \E m \in node : <<n, m>> \in links
  BY <1>2 DEF SinksOf, SourcesOf
<1>4. QED
  BY <1>1, <1>3
     DEF Pipeline!Roots, Pipeline!Leaves, Pipeline!Predecessors, Pipeline!Successors

\* The elements that are not fed, and those that feed nothing.
LEMMA CameraEnds ==
    ASSUME NEW c \in Pipeline!Configs, IsCamera(c)
    PROVE  (CreateMade(c) \ {"video-pipeline"}) \ CreateFed(c) = {"v4l2src0"}
  BY DEF CreateMade, CreateFed, CameraElements, DisplayElements, InferenceElements,
         HdmiElements, RtmpElements, AppsinkElements, When

LEMMA StreamEnds ==
    ASSUME NEW c \in Pipeline!Configs, ~IsCamera(c)
    PROVE  (CreateMade(c) \ {"video-pipeline"}) \ CreateFed(c)
             = {"uridecodebin0", "nvstreammux0"}
  BY DEF CreateMade, CreateFed, DisplayElements, InferenceElements,
         HdmiElements, RtmpElements, AppsinkElements, When

\* Of the display branch, only the sinks feed nothing; of the inference branch, only
\* the appsink.
LEMMA DisplayLeaves ==
    ASSUME NEW c \in Pipeline!Configs
    PROVE  DisplayElements(c) \ DisplayFeeding(c)
             = When(c.hdmi, {"nveglglessink0"}) \cup When(c.rtmp, {"rtmpsink"})
                 \cup When(~c.hdmi /\ ~c.rtmp, {"fakesink0"})
<1>1. CASE ~c.hdmi /\ ~c.rtmp
  BY <1>1 DEF DisplayElements, DisplayFeeding, When
<1>2. CASE c.hdmi /\ ~c.rtmp
  BY <1>2 DEF DisplayElements, DisplayFeeding, When, HdmiElements
<1>3. CASE ~c.hdmi /\ c.rtmp
  BY <1>3 DEF DisplayElements, DisplayFeeding, When, RtmpElements
<1>4. CASE c.hdmi /\ c.rtmp
  BY <1>4 DEF DisplayElements, DisplayFeeding, When, HdmiElements, RtmpElements
<1>5. QED  BY <1>1, <1>2, <1>3, <1>4

LEMMA InferenceLeaves ==
    ASSUME NEW c \in Pipeline!Configs
    PROVE  InferenceElements(c) \ InferenceFeeding(c) = When(c.appsink, {"appsink"})
  BY DEF InferenceElements, InferenceFeeding, AppsinkElements, When

\* What the source, the muxer and the two branches have in common.
LEMMA Apart ==
    ASSUME NEW c \in Pipeline!Configs
    PROVE  LET source == IF IsCamera(c) THEN CameraElements ELSE {"uridecodebin0"}
           IN  /\ source \cap (DisplayElements(c) \cup InferenceElements(c)) = {}
               /\ DisplayElements(c) \cap InferenceFeeding(c) \subseteq DisplayFeeding(c)
               /\ InferenceElements(c) \cap DisplayFeeding(c) = {}
               /\ "video-pipeline" \notin DisplayElements(c) \cup InferenceElements(c) \cup source
               /\ "video-pipeline" \notin DisplayFeeding(c) \cup InferenceFeeding(c)
               /\ "nvstreammux0" \in DisplayFeeding(c)
<1>1. c.hdmi \in BOOLEAN /\ c.rtmp \in BOOLEAN /\ c.appsink \in BOOLEAN
  BY DEF Pipeline!Configs
<1>2. /\ InferenceElements(c) \subseteq AppsinkElements
      /\ InferenceFeeding(c) \subseteq {"tee0"} \cup AppsinkElements
  BY <1>1 DEF InferenceElements, InferenceFeeding, When
<1>3. /\ DisplayElements(c) \subseteq {"tee0", "queue00", "fakesink0", "tee1"}
                                     \cup HdmiElements \cup RtmpElements
      /\ DisplayFeeding(c) \subseteq {"nvstreammux0", "tee0", "queue00", "tee1"}
                                    \cup HdmiElements \cup RtmpElements
      /\ "nvstreammux0" \in DisplayFeeding(c) /\ "tee0" \in DisplayFeeding(c)
  BY <1>1 DEF DisplayElements, DisplayFeeding, When, HdmiElements, RtmpElements
<1>4. QED
  BY <1>2, <1>3 DEF CameraElements, HdmiElements, RtmpElements, AppsinkElements

LEMMA LeavesAreOutputs ==
    ASSUME NEW c \in Pipeline!Configs, c = m_config
    PROVE  (CreateMade(c) \ {"video-pipeline"})
               \ (CreateFeeding(c) \cup When(~IsCamera(c), {"uridecodebin0"}))
             = Pipeline!Outputs
<1> DEFINE source == IF IsCamera(c) THEN CameraElements ELSE {"uridecodebin0"}
           D == DisplayElements(c)
           I == InferenceElements(c)
           DF == DisplayFeeding(c)
           FI == InferenceFeeding(c)
<1>1. CreateMade(c) \ {"video-pipeline"} = source \cup {"nvstreammux0"} \cup D \cup I
  BY Apart DEF CreateMade
<1>2. CreateFeeding(c) \cup When(~IsCamera(c), {"uridecodebin0"}) = source \cup DF \cup FI
  BY DEF CreateFeeding, When
<1>3. (source \cup {"nvstreammux0"} \cup D \cup I) \ (source \cup DF \cup FI)
        = (D \ DF) \cup (I \ FI)
  BY Apart
<1>4. Pipeline!Outputs = (D \ DF) \cup (I \ FI)
  BY DisplayLeaves, InferenceLeaves DEF Pipeline!Outputs, When
<1>5. QED  BY <1>1, <1>2, <1>3, <1>4

\* The pad of the source has its target free from Create if an output is asked for,
\* and taken by Create otherwise.
LEMMA TargetFree ==
    ASSUME m_config \in Pipeline!Configs, ~IsCamera(m_config)
    PROVE  /\ Pipeline!PadTarget \notin CreateFed(m_config) <=> Pipeline!Asked
           /\ Pipeline!Asked => Pipeline!PadTarget = "nvstreammux0"
<1>1. "nvstreammux0" \notin CreateFed(m_config)
  BY DEF CreateFed, When, DisplayElements, InferenceElements, HdmiElements, RtmpElements,
         AppsinkElements
<1>2. ~Pipeline!Asked => "fakesink0" \in CreateFed(m_config)
  BY DEF CreateFed, DisplayElements, Pipeline!Asked
<1>3. QED  BY <1>1, <1>2 DEF Pipeline!PadTarget, Pipeline!Asked

LEMMA CompleteGraph == BuildInv => GraphIsComplete
<1> SUFFICES ASSUME BuildInv, Pipeline!Built
             PROVE  /\ Pipeline!Roots(Pipeline!Graph) = Pipeline!Starts
                    /\ Pipeline!Leaves(Pipeline!Graph)
                         = Pipeline!Outputs
                             \cup IF Pipeline!SourceLinked THEN {} ELSE {Pipeline!Source}
                    /\ m_config.type # Pipeline!USB_CAMERE =>
                         (Pipeline!Asked
                            <=> Pipeline!SourceLinked \/ ~Pipeline!Occupied(Pipeline!PadTarget))
  BY DEF GraphIsComplete
<1> DEFINE c == m_config
           node == made \ {"video-pipeline"}
<1>1. c \in Pipeline!Configs /\ made = CreateMade(c) /\ links \subseteq made \X made
  BY MadeByCreate DEF BuildInv, PipelineInv, Linked
<1>2. /\ SinksOf(links) = CreateFed(c) \cup When(Joined, {Pipeline!PadTarget})
      /\ SourcesOf(links) = CreateFeeding(c) \cup When(Joined, {"uridecodebin0"})
      /\ Joined => Pipeline!PadTarget \notin CreateFed(c)
  BY <1>1, CreateShape DEF BuildInv, PipelineInv, Exact, NotFailed, Pipeline!Built
<1>3. IsCamera(c) <=> c.type = Pipeline!USB_CAMERE
  BY DEF IsCamera
<1>4. /\ Pipeline!Source = IF IsCamera(c) THEN "v4l2src0" ELSE "uridecodebin0"
      /\ Pipeline!SourceLinked <=> Pipeline!Source \in SourcesOf(links)
      /\ Pipeline!Occupied(Pipeline!PadTarget) <=> Pipeline!PadTarget \in SinksOf(links)
  BY <1>3 DEF Pipeline!Source, Pipeline!SourceLinked, Pipeline!Occupied, SourcesOf, SinksOf
<1>5. "video-pipeline" \notin SinksOf(links) /\ "video-pipeline" \notin SourcesOf(links)
  <2>1. "video-pipeline" \notin CreateFed(c)
    BY <1>1, Apart DEF CreateFed, When, CameraElements
  <2>2. "video-pipeline" \notin CreateFeeding(c)
    BY <1>1, Apart DEF CreateFeeding, When, CameraElements
  <2>3. Pipeline!PadTarget # "video-pipeline"
    BY DEF Pipeline!PadTarget
  <2>4. QED  BY <1>2, <2>1, <2>2, <2>3 DEF When
<1>6. /\ Pipeline!Roots(Pipeline!Graph) = node \ SinksOf(links)
      /\ Pipeline!Leaves(Pipeline!Graph) = node \ SourcesOf(links)
  BY <1>1, <1>5, Ends
<1>7. CASE IsCamera(c)
  <2>1. ~Joined
    <3>1. "uridecodebin0" \notin made
      BY <1>7, MadeByCreate DEF BuildInv
    <3>2. QED  BY <1>1, <3>1 DEF Joined, SourcesOf
  <2>2. SinksOf(links) = CreateFed(c) /\ SourcesOf(links) = CreateFeeding(c)
    BY <1>2, <2>1 DEF When
  <2>3. Pipeline!SourceLinked
    BY <1>4, <1>7, <2>2 DEF CreateFeeding, When, CameraElements
  <2>4. node \ SinksOf(links) = Pipeline!Starts
    BY <1>1, <1>4, <1>7, <2>2, <2>3, CameraEnds DEF Pipeline!Starts
  <2>5. node \ SourcesOf(links) = Pipeline!Outputs
    BY <1>1, <1>7, <2>2, LeavesAreOutputs DEF When
  <2>6. QED  BY <1>3, <1>6, <1>7, <2>3, <2>4, <2>5
<1>8. CASE ~IsCamera(c)
  <2>1. Pipeline!Source = "uridecodebin0" /\ (Pipeline!SourceLinked <=> Joined)
    BY <1>4, <1>8 DEF Joined
  <2>2. /\ Pipeline!PadTarget \notin CreateFed(c) <=> Pipeline!Asked
        /\ Pipeline!Asked => Pipeline!PadTarget = "nvstreammux0"
    BY <1>1, <1>8, TargetFree
  <2>3. Pipeline!Asked <=> Pipeline!SourceLinked \/ ~Pipeline!Occupied(Pipeline!PadTarget)
    BY <1>2, <1>4, <2>1, <2>2 DEF When
  <2>4. node \ SinksOf(links) = Pipeline!Starts
    <3>1. SinksOf(links) = CreateFed(c) \cup When(Joined, {"nvstreammux0"})
      BY <1>2, <2>2 DEF When
    <3>2. node \ CreateFed(c) = {"uridecodebin0", "nvstreammux0"}
      BY <1>1, <1>8, StreamEnds
    <3>3. node \ SinksOf(links) = {"uridecodebin0"} \cup When(~Joined, {"nvstreammux0"})
      BY <3>1, <3>2 DEF When
    <3>4. QED  BY <2>1, <3>3 DEF Pipeline!Starts, When
  <2>5. node \ SourcesOf(links)
          = Pipeline!Outputs \cup IF Pipeline!SourceLinked THEN {} ELSE {Pipeline!Source}
    <3>1. node \ (CreateFeeding(c) \cup {"uridecodebin0"}) = Pipeline!Outputs
      BY <1>1, <1>8, LeavesAreOutputs DEF When
    <3>2. "uridecodebin0" \in node
      BY <1>1, <1>8, StreamEnds
    <3>3. "uridecodebin0" \notin CreateFeeding(c)
      BY <1>1, CreateShape, CreateJoinsNoPad
    <3>4. CASE Joined
      BY <1>2, <2>1, <3>1, <3>4 DEF When
    <3>5. CASE ~Joined
      BY <1>2, <2>1, <3>1, <3>2, <3>3, <3>5 DEF When
    <3>6. QED  BY <3>4, <3>5
  <2>6. QED  BY <1>6, <2>3, <2>4, <2>5
<1>9. QED  BY <1>7, <1>8

\* For every kind of input and every choice of outputs: once Create has built the
\* pipeline, no branch that gst_element_link_many put together has an open end.  Only
\* the pad of the source may be unlinked, as long as it has not been announced or its
\* link has failed; with some output it can be linked then, without one it never is.
THEOREM GraphComplete == Spec => []GraphIsComplete
<1>1. QED  BY BuildInvariant, CompleteGraph, PTL

-----------------------------------------------------------------------------
(* No cycle, and nothing apart *)

\* In every set of elements there is one that none of the set feeds.
Acyclic ==
    \A S \in SUBSET made :
        S # {} => \E e \in S : \A l \in links : l[2] = e => l[1] \notin S

LEMMA NearestElement ==
    ASSUME NEW S \in SUBSET Elements, S # {}
    PROVE  \E e \in S : \A d \in S : ~(Depth[d] < Depth[e])
<1> DEFINE T == {Depth[e] : e \in S}
           R == OpToRel(<, Nat)
<1>1. T \subseteq Nat /\ T # {}
  BY DepthIsNat
<1>2. IsWellFoundedOn(R, Nat)
  BY NatLessThanWellFounded
<1> HIDE DEF R
<1>3. PICK x \in T : \A y \in T : <<y, x>> \notin R
  BY <1>1, <1>2, WFMin
<1>4. \A y \in T : ~(y < x)
  BY <1>1, <1>3 DEF R, OpToRel
<1>5. QED  BY <1>3, <1>4

LEMMA MadeAreElements == BuildInv => made \subseteq Elements
<1> SUFFICES ASSUME BuildInv
             PROVE  made \subseteq Elements
  OBVIOUS
<1>1. made \subseteq CreateMade(m_config)
  BY MadeByCreate DEF BuildInv
<1>2. CreateMade(m_config) \subseteq Elements
  BY DEF CreateMade, CameraElements, DisplayElements, InferenceElements, HdmiElements,
         RtmpElements, AppsinkElements, When, Elements
<1>3. QED  BY <1>1, <1>2

LEMMA AwayIsAcyclic == BuildInv => Acyclic
<1> SUFFICES ASSUME BuildInv, NEW S \in SUBSET made, S # {}
             PROVE  \E e \in S : \A l \in links : l[2] = e => l[1] \notin S
  BY DEF Acyclic
<1>1. PICK e \in S : \A d \in S : ~(Depth[d] < Depth[e])
  BY MadeAreElements, NearestElement
<1>2. QED  BY <1>1 DEF BuildInv, PipelineInv, Linked, Away

\* However Create ends, whatever breaks and however often a pad is added: the links
\* never form a cycle.
THEOREM NoCycle == Spec => []Acyclic
<1>1. QED  BY BuildInvariant, AwayIsAcyclic, PTL

\* Of a pipeline that Create built: what has the source in it, and the muxer if the
\* source is not linked, and is closed under the links is the whole graph.
AllReached ==
    Pipeline!Built =>
        \A S \in SUBSET Pipeline!Graph.node :
          /\ Pipeline!Starts \subseteq S
          /\ \A l \in links : l[1] \in S => l[2] \in S
          => S = Pipeline!Graph.node

LEMMA RootReachesAll == BuildInv => AllReached
<1> SUFFICES ASSUME BuildInv, Pipeline!Built,
                    NEW S \in SUBSET Pipeline!Graph.node, Pipeline!Starts \subseteq S,
                    \A l \in links : l[1] \in S => l[2] \in S
             PROVE  S = Pipeline!Graph.node
  BY DEF AllReached
<1> DEFINE node == Pipeline!Graph.node
           T == node \ S
<1>1. node = made \ {"video-pipeline"} /\ Pipeline!Graph.edge = links
  BY DEF Pipeline!Graph
<1>2. Pipeline!Roots(Pipeline!Graph) = Pipeline!Starts
  BY CompleteGraph DEF GraphIsComplete
<1> SUFFICES ASSUME T # {}
             PROVE  FALSE
  OBVIOUS
<1>3. PICK e \in T : \A l \in links : l[2] = e => l[1] \notin T
  <2>1. T \in SUBSET made
    BY <1>1
  <2>2. QED  BY <2>1, AwayIsAcyclic DEF Acyclic
<1>4. e \notin Pipeline!Starts
  BY <1>3
<1>5. PICK d \in node : <<d, e>> \in links
  BY <1>1, <1>2, <1>3, <1>4 DEF Pipeline!Roots, Pipeline!Predecessors
<1>6. d \in S /\ e \notin S
  BY <1>3, <1>5
<1>7. QED  BY <1>5, <1>6

\* Every element of a pipeline that Create built can be reached along the links from
\* the source if that is linked: with GraphComplete, the graph is one piece, from the
\* source to the outputs.  If it is not, all but the source can be reached from the
\* muxer.
THEOREM OnePiece == Spec => []AllReached
<1>1. QED  BY BuildInvariant, RootReachesAll, PTL
=============================================================================
