--------------------------- MODULE MCChannelBuild ---------------------------
(* ChannelBuild for TLC: a document errs in one of these members, which stand *)
(* for every parser, every kind of member and the flags the graph depends on. *)
EXTENDS ChannelBuild

FaultyMembers ==
    {"m_chanelId", "VideoAnalyzer-Config",
     "pipeline_id", "input_type", "src_device", "file_loop", "src_height",
     "output-config", "enable_rtmp", "text_rgb",
     "analyzer_id", "model-config", "nms_threshold"}
=============================================================================
