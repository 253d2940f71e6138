----------------------------- MODULE ConfigParse ----------------------------
(***************************************************************************)
(* The parser of src/ConfigCenter.cpp, ConfigParse and the two functions   *)
(* it calls: which fields of a YoloChannelConfig a document assigns, and   *)
(* what is returned.                                                       *)
(*                                                                         *)
(* Each parser walks over a fixed list of members, in the order of the     *)
(* code, and stops at the first one that is missing or of the wrong type.  *)
(* The document is chosen while it is read: each member is there with the  *)
(* right type, or missing, or of another type.  jsoncpp throws out of the  *)
(* request when a section is no object, or an element of an array no       *)
(* number.                                                                 *)
(***************************************************************************)
EXTENDS Naturals, Sequences, SequencesExt

CONSTANT Faulty    \* bound: the members a document may get wrong

VARIABLES
    parser,    \* the parser that runs: "root", "pipeline" or "task", or "returned"
    at,        \* how many members of its list it has read
    inputType, \* the value of "type" in the document: 0 file, 1 RTSP, 2 USB camera
    assigned,  \* the fields assigned so far
    result     \* what each parser returned

vars == <<parser, at, inputType, assigned, result>>

\* The members: a section is entered, a value or an array of three numbers is
\* copied into the field it is named after.
Section(name) == [kind |-> "section", name |-> name]
Value(field)  == [kind |-> "value", name |-> field]
Triple(field) == [kind |-> "array", name |-> field]
-----------------------------------------------------------------------------
(* The members in the order they are read *)

UsbCamera ==
    <<Section("usb-camera"), Value("src_device"), Value("src_format"),
      Value("src_framerate_n"), Value("src_framerate_d")>>

Stream ==
    <<Section("stream"), Value("src_uri"), Value("file_loop"),
      Value("rtsp_latency"), Value("rtp_protocol")>>

\* Fault: the two kinds of input are mixed up.
InputSwapped(type) ==
    <<Section("input-config"), Value("input_type")>>
        \o (IF type = 2 THEN Stream ELSE UsbCamera)
        \o <<Value("src_width"), Value("src_height"), Value("src_live_source"),
             Value("src_sync"), Value("src_memory_type")>>

Input(type) ==
    <<Section("input-config"), Value("input_type")>>
        \o (IF type = 2 THEN UsbCamera ELSE Stream)
        \o <<Value("src_width"), Value("src_height"), Value("src_live_source"),
             Value("src_sync"), Value("src_memory_type")>>

Display ==
    <<Section("output-config"), Section("display"), Value("enable_hdmi"), Value("hdmi_sync"),
      Value("window_x"), Value("window_y"), Value("window_width"), Value("window_height")>>

Rtmp ==
    <<Section("rtmp"), Value("enable_rtmp"), Value("enc_bitrate"),
      Value("enc_iframe_interval"), Value("rtmp_uri")>>

Inference ==
    <<Section("inference"), Value("enable_appsink"), Value("cvt_memory_type"),
      Value("cvt_format")>>

Osd ==
    <<Value("bbox_thickness"), Value("text_thickness"), Triple("bbox_rgb"),
      Triple("text_rgb")>>

Pipeline(type) ==
    <<Value("pipeline_id")>> \o Input(type) \o Display \o Rtmp \o Inference \o Osd

Task ==
    <<Value("analyzer_id"), Section("model-config"), Value("engine_file"),
      Value("classes_file"), Value("score_threshold"), Value("nms_threshold")>>

\* ConfigParse enters a section by calling the parser of it, before it goes on.
Root == <<Value("m_chanelId"), Section("VideoPipeline-Config"), Section("VideoAnalyzer-Config")>>

Members == CASE parser = "root"     -> Root
             [] parser = "pipeline" -> Pipeline(inputType)
             [] parser = "task"     -> Task
-----------------------------------------------------------------------------
Init ==
    /\ parser = "root"
    /\ at = 0
    /\ inputType \in 0..2
    /\ assigned = {}
    /\ result = [p \in {"root", "pipeline", "task"} |-> "none"]

Parsing == parser # "returned"
Member == Members[at + 1]
MayFail == Parsing /\ at < Len(Members) /\ Member.name \in Faulty

\* ConfigParse ends; on success it has registered the document under its name.
ReturnFromRoot(code) ==
    /\ parser' = "returned"
    /\ at' = 0
    /\ result' = [result EXCEPT !["root"] = code]

\* The parser of a section hands back its code, which ConfigParse ignores.
Return(code) ==
    IF parser = "root"
      THEN ReturnFromRoot(code)
      ELSE /\ parser' = "root"
           /\ at' = IF parser = "pipeline" THEN 2 ELSE 3
           /\ result' = [result EXCEPT ![parser] = code]

\* The member is there and of the right type.  A section of the root starts its
\* parser.
ReadMember ==
    /\ Parsing /\ at < Len(Members)
    /\ IF parser = "root" /\ at > 0
         THEN /\ parser' = IF at = 1 THEN "pipeline" ELSE "task"
              /\ at' = 0
         ELSE at' = at + 1 /\ UNCHANGED parser
    /\ assigned' = IF Member.kind = "section" THEN assigned ELSE assigned \cup {Member.name}
    /\ UNCHANGED <<inputType, result>>

LackMember ==
    /\ MayFail
    /\ Return("CONFIG_LACK_MEMBER")
    /\ UNCHANGED <<inputType, assigned>>

\* What a section is, is not tested.
ErrorType ==
    /\ MayFail
    /\ Member.kind # "section"
    /\ Return("CONFIG_VALUE_TYPE_ERROR")
    /\ UNCHANGED <<inputType, assigned>>

AlreadyExist ==
    /\ parser = "root" /\ at = 0
    /\ Return("CONFIG_ALREADY_EXIST")
    /\ UNCHANGED <<inputType, assigned>>

\* isMember of what is no object, asInt of what is no number: the exception
\* leaves ConfigParse, and the request, before anything is registered.
Throw ==
    /\ MayFail
    /\ Member.kind \in {"section", "array"} \/ (parser = "root" /\ at = 0)
    /\ ReturnFromRoot("exception")
    /\ UNCHANGED <<inputType, assigned>>

Succeed ==
    /\ Parsing /\ at = Len(Members)
    /\ Return("CONFIG_PARSE_SUCCESS")
    /\ UNCHANGED <<inputType, assigned>>

Next == ReadMember \/ LackMember \/ ErrorType \/ AlreadyExist \/ Throw \/ Succeed

Spec == Init /\ [][Next]_vars
-----------------------------------------------------------------------------
\* The fields of a list of members.
Fields(members) == {m.name : m \in {x \in ToSet(members) : x.kind # "section"}}

Codes == {"none", "exception", "CONFIG_PARSE_SUCCESS", "CONFIG_LACK_MEMBER",
          "CONFIG_VALUE_TYPE_ERROR", "CONFIG_ALREADY_EXIST"}

\* The types; the fields assigned are fields of the document's kind.
TypeOK ==
    /\ parser \in {"root", "pipeline", "task", "returned"}
    /\ at \in 0..Len(Pipeline(inputType))
    /\ inputType \in 0..2
    /\ assigned \subseteq {"m_chanelId"} \cup Fields(Pipeline(inputType)) \cup Fields(Task)
    /\ result \in [{"root", "pipeline", "task"} -> Codes]
=============================================================================
