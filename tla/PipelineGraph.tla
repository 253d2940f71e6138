---------------------------- MODULE PipelineGraph ---------------------------
(***************************************************************************)
(* How src/DeepStreamPipeline.cpp builds the GStreamer graph of a channel: *)
(* Create makes and links the elements one after the other and gives up at *)
(* the first that fails, the callbacks of uridecodebin connect the source  *)
(* once the stream is known, and Destroy takes the pipeline down.          *)
(*                                                                         *)
(* An element goes by the name the code gives it; the member that holds it *)
(* is indeterminate until it is made, since neither the constructor nor    *)
(* Init sets one.  An element has one sink pad, for a tee any number of    *)
(* source pads.  Each factory and each link may fail.  Of a configuration  *)
(* the graph depends on the kind of input and on the three enable flags;   *)
(* the fields that are read are collected.                                 *)
(***************************************************************************)
EXTENDS Naturals, Sequences, FiniteSets, Graphs

VARIABLES
    m_config,  \* what the graph depends on
    status,    \* "none", "creating", "created" or "failed" (Create's result), "destroyed"
    at,        \* how many steps of Create are done
    made,      \* the elements made
    links,     \* the links made
    decoder,   \* m_dec_sink_probe and m_decoder, those a callback has set
    used,      \* history: the elements the code has gone through a member to
    read       \* history: the fields of the configuration that were read

graphVars == <<m_config, status, at, made, links, decoder, used, read>>

Configs == [type : 0..2, hdmi : BOOLEAN, rtmp : BOOLEAN, appsink : BOOLEAN]
NoConfig == [type |-> 0, hdmi |-> FALSE, rtmp |-> FALSE, appsink |-> FALSE]
USB_CAMERE == 2

Make(element, fields) == [op |-> "make", chain |-> <<element>>, reads |-> fields]
Link(chain)           == [op |-> "link", chain |-> chain, reads |-> {}]
Read(fields)          == [op |-> "read", chain |-> <<>>, reads |-> fields]
-----------------------------------------------------------------------------
(* The steps of Create, in the order of the code *)

CreateUridecodebin == <<Make("uridecodebin0", {"src_uri"})>>

CreateV4l2src ==
    <<Make("v4l2src0", {"src_device"}),
      Read({"src_width", "src_height", "src_framerate_n", "src_framerate_d", "src_format"}),
      Make("capfilter0", {}), Make("jpegdec0", {}),
      Make("nvvideoconvert2", {"cvt_memory_type"}),
      Read({"cvt_format"}), Make("capfilter3", {}),
      Link(<<"v4l2src0", "capfilter0", "jpegdec0", "nvvideoconvert2", "capfilter3">>)>>

Mux(c) ==
    <<Make("nvstreammux0",
           {"src_width", "src_height", "src_sync", "src_memory_type", "src_live_source"})>>
        \o IF c.type = USB_CAMERE THEN <<Link(<<"capfilter3", "nvstreammux0">>)>> ELSE <<>>

Hdmi ==
    <<Make("queue10", {}),
      Make("nveglglessink0",
           {"hdmi_sync", "window_x", "window_y", "window_width", "window_height"}),
      Link(<<"tee1", "queue10", "nveglglessink0">>)>>

Rtmp ==
    <<Make("queue11", {}), Make("nvvideoconvert0", {"cvt_memory_type"}),
      Make("capfilter1", {}), Make("nvv4l2h264enc0", {"enc_bitrate", "enc_iframe_interval"}),
      Make("h264parse0", {}), Make("flvmux0", {}), Make("rtmpsink", {"rtmp_uri"}),
      Link(<<"tee1", "queue11", "nvvideoconvert0", "capfilter1", "nvv4l2h264enc0",
             "h264parse0", "flvmux0", "rtmpsink">>)>>

Display(c) ==
    <<Make("tee0", {}), Make("queue00", {}), Link(<<"nvstreammux0", "tee0", "queue00">>),
      Read({"enable_hdmi", "enable_rtmp"})>>
        \o IF ~c.hdmi /\ ~c.rtmp
             THEN <<Make("fakesink0", {}), Link(<<"queue00", "fakesink0">>)>>
             ELSE <<Make("tee1", {}), Link(<<"queue00", "tee1">>)>>
                      \o (IF c.hdmi THEN Hdmi ELSE <<>>)
                      \o (IF c.rtmp THEN Rtmp ELSE <<>>)

Inference(c) ==
    <<Read({"enable_appsink"})>>
        \o IF c.appsink
             THEN <<Make("queue01", {}), Make("nvvideoconvert1", {"cvt_memory_type"}),
                    Read({"cvt_format"}), Make("capfilter2", {}), Make("appsink", {}),
                    Link(<<"tee0", "queue01", "nvvideoconvert1", "capfilter2", "appsink">>)>>
             ELSE <<>>

Create(c) ==
    <<Make("video-pipeline", {}), Read({"input_type"})>>
        \o (IF c.type = USB_CAMERE THEN CreateV4l2src ELSE CreateUridecodebin)
        \o Mux(c) \o Display(c) \o Inference(c)
-----------------------------------------------------------------------------
GraphInit ==
    /\ m_config = NoConfig
    /\ status = "none"
    /\ at = 0
    /\ made = {} /\ links = {} /\ used = {} /\ read = {}
    /\ decoder = {}

\* DeepStreamPipeline::Init
Begin(c) ==
    /\ status = "none"
    /\ m_config' = c
    /\ status' = "creating"
    /\ UNCHANGED <<at, made, links, decoder, used, read>>

Step == Create(m_config)[at + 1]
Creating == status = "creating" /\ at < Len(Create(m_config))

\* The links of a chain of elements.
Pairs(chain) == {<<chain[i], chain[i + 1]>> : i \in 1..Len(chain) - 1}

CreateStep ==
    /\ Creating
    /\ made' = IF Step.op = "make" THEN made \cup ToSet(Step.chain) ELSE made
    /\ links' = links \cup Pairs(Step.chain)
    /\ used' = IF Step.op = "link" THEN used \cup ToSet(Step.chain) ELSE used
    /\ read' = read \cup Step.reads
    /\ at' = at + 1
    /\ UNCHANGED <<m_config, status, decoder>>

\* goto exit: no such element, or the chain breaks at one of its links.
CreateFails ==
    /\ Creating
    /\ Step.op \in {"make", "link"}
    /\ \E k \in 1..Len(Step.chain) :
         /\ Step.op = "link" => k < Len(Step.chain)
         /\ links' = links \cup Pairs(SubSeq(Step.chain, 1, k))
    /\ used' = IF Step.op = "link" THEN used \cup ToSet(Step.chain) ELSE used
    /\ status' = "failed"
    /\ UNCHANGED <<m_config, at, made, decoder, read>>

CreateReturns ==
    /\ status = "creating" /\ at = Len(Create(m_config))
    /\ status' = "created"
    /\ UNCHANGED <<m_config, at, made, links, decoder, used, read>>

Ready == status \in {"created", "failed"}
-----------------------------------------------------------------------------
(* The callbacks of a pipeline that has been started *)

Occupied(e) == \E l \in links : l[2] = e

\* cb_uridecodebin_source_setup
SourceSetup ==
    /\ Ready /\ "uridecodebin0" \in made
    /\ read' = read \cup {"rtsp_latency", "rtp_protocol"}
    /\ UNCHANGED <<m_config, status, at, made, links, decoder, used>>

\* cb_decodebin_child_added: a decoder of a file that loops gets the probe of
\* StreamLoop.tla and is kept, one of an rtsp stream is kept, any other is not.
DecoderAdded ==
    /\ Ready /\ "uridecodebin0" \in made
    /\ \E kept \in {{"m_dec_sink_probe", "m_decoder"}, {"m_decoder"}, {}} :
         decoder' = decoder \cup kept
    /\ read' = read \cup {"src_uri", "file_loop"}
    /\ UNCHANGED <<m_config, status, at, made, links, used>>

\* Fault: the pad goes to the muxer for the display only.
PadTargetDisplayOnly ==
    IF m_config.hdmi \/ m_config.rtmp THEN "nvstreammux0" ELSE "fakesink0"

\* Fault: one of the three outputs is forgotten.
PadTargetNoRtmp ==
    IF m_config.hdmi \/ m_config.appsink THEN "nvstreammux0" ELSE "fakesink0"

PadTarget ==
    IF m_config.hdmi \/ m_config.rtmp \/ m_config.appsink THEN "nvstreammux0" ELSE "fakesink0"

\* Fault: the request for "sink_0" is not refused the second time.
PadAddedAgain ==
    /\ Ready /\ "uridecodebin0" \in made
    /\ links' = links \cup {<<"uridecodebin0", PadTarget>>}
    /\ used' = used \cup {PadTarget}
    /\ read' = read \cup {"enable_hdmi", "enable_rtmp", "enable_appsink"}
    /\ UNCHANGED <<m_config, status, at, made, decoder>>

\* cb_uridecodebin_pad_added for a video pad: linked to the sink pad it is meant
\* for, unless that one has a link already, is not given out or does not go with
\* the pad, which is logged and ignored.  (After a link that failed the muxer has
\* given out its pad and refuses the next; the model lets that one succeed too.)
\* What comes of an element that was never made is undefined; the model only
\* records that it was used.
PadAdded ==
    /\ Ready /\ "uridecodebin0" \in made
    /\ \/ UNCHANGED links
       \/ /\ PadTarget \in made /\ ~Occupied(PadTarget)
          /\ links' = links \cup {<<"uridecodebin0", PadTarget>>}
    /\ used' = used \cup {PadTarget}
    /\ read' = read \cup {"enable_hdmi", "enable_rtmp", "enable_appsink"}
    /\ UNCHANGED <<m_config, status, at, made, decoder>>

\* cb_queue00_src_probe: a buffer has come through queue00 and results are drawn.
DrawResults ==
    /\ Ready
    /\ Occupied("nvstreammux0") /\ Occupied("queue00")
    /\ read' = read \cup {"bbox_rgb", "text_rgb", "bbox_thickness", "text_thickness"}
    /\ UNCHANGED <<m_config, status, at, made, links, decoder, used>>

\* Destroy: releases the request pads of the muxer, then the pipeline, then the
\* probe.  Init has set m_dec_sink_probe to -1, and the test of it comes before
\* that of m_decoder, which Init does not set.
Destroy ==
    /\ Ready
    /\ used' = used \cup {"nvstreammux0"}
                    \cup (IF "m_dec_sink_probe" \in decoder THEN {"m_decoder"} ELSE {})
    /\ decoder' = decoder \ {"m_dec_sink_probe"}
    /\ status' = "destroyed"
    /\ UNCHANGED <<m_config, at, made, links, read>>

Building == CreateStep \/ CreateFails \/ CreateReturns
Callback == SourceSetup \/ DecoderAdded \/ PadAdded \/ DrawResults
-----------------------------------------------------------------------------
Built == at = Len(Create(m_config))

Source == IF m_config.type = USB_CAMERE THEN "v4l2src0" ELSE "uridecodebin0"
SourceLinked == \E l \in links : l[1] = Source

\* Where pictures come from, or would come from if the source were linked.
Starts == {Source} \cup IF SourceLinked THEN {} ELSE {"nvstreammux0"}

\* Some output is asked for.
Asked == m_config.hdmi \/ m_config.rtmp \/ m_config.appsink

Graph == [node |-> made \ {"video-pipeline"}, edge |-> links]

\* Where the pictures of a channel are to arrive.
Outputs ==
    (IF m_config.hdmi THEN {"nveglglessink0"} ELSE {})
        \cup (IF m_config.rtmp THEN {"rtmpsink"} ELSE {})
        \cup (IF m_config.appsink THEN {"appsink"} ELSE {})
        \cup (IF ~m_config.hdmi /\ ~m_config.rtmp THEN {"fakesink0"} ELSE {})
=============================================================================
