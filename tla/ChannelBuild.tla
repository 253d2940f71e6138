---------------------------- MODULE ChannelBuild ----------------------------
(***************************************************************************)
(* From a request body to a running channel: AddChannel of                 *)
(* src/ChannelController.cpp parses the configuration (ConfigParse.tla),   *)
(* builds and initialises the channel from it (YoloChannel::Init, over     *)
(* PipelineGraph.tla and Yolov5Task::Init) and puts it into the list;      *)
(* started, it is called back by GStreamer until it is deleted.            *)
(*                                                                         *)
(* The fields that pass from the parser to their readers are what joins    *)
(* the two halves.  The name of a pipeline or task that was not assigned   *)
(* is the empty string, which no creator is registered for.                *)
(***************************************************************************)
EXTENDS Naturals, Sequences, FiniteSets

CONSTANT Faulty    \* bound: the members a request body may get wrong

VARIABLES parser, parsed, inputType, assigned, result,          \* the parser
          m_config, status, at, made, links, decoder, used, read,       \* the pipeline
          channel   \* "none", "refused", "building", "listed" or "deleted"

Parser == INSTANCE ConfigParse WITH at <- parsed
Pipeline == INSTANCE PipelineGraph

parserVars == <<parser, parsed, inputType, assigned, result>>
pipelineVars == <<m_config, status, at, made, links, decoder, used, read>>
vars == <<parserVars, pipelineVars, channel>>

Init ==
    /\ Parser!Init
    /\ Pipeline!GraphInit
    /\ channel = "none"

Parse ==
    /\ channel = "none"
    /\ Parser!Next
    /\ UNCHANGED <<pipelineVars, channel>>

Accepted ==
    /\ result["root"] = "CONFIG_PARSE_SUCCESS"
    /\ {"pipeline_id", "analyzer_id"} \subseteq assigned

\* The parser's result is not success, or a type is unknown.
Refuse ==
    /\ channel = "none"
    /\ parser = "returned"
    /\ channel' = "refused"
    /\ UNCHANGED <<parserVars, pipelineVars>>

\* Without a "type" the input is a file, the initialiser of input_type.
InitPipeline ==
    /\ channel = "none"
    /\ parser = "returned"
    /\ Accepted
    /\ \E c \in Pipeline!Configs :
         /\ c.type = IF "input_type" \in assigned THEN inputType ELSE 0
         /\ Pipeline!Begin(c)
    /\ channel' = "building"
    /\ UNCHANGED parserVars

Create ==
    /\ channel = "building"
    /\ Pipeline!Building
    /\ UNCHANGED <<parserVars, channel>>

\* m_vt->Init, whose fields count as read though a step before may fail, and the
\* insertion: YoloChannel::Init returns true whatever came before.
InitTaskAndInsert ==
    /\ channel = "building"
    /\ status \in {"created", "failed"}
    /\ read' = read \cup {"engine_file", "score_threshold", "nms_threshold", "classes_file"}
    /\ channel' = "listed"
    /\ UNCHANGED <<m_config, status, at, made, links, decoder, used, parserVars>>

Run ==
    /\ channel = "listed"
    /\ Pipeline!Callback
    /\ UNCHANGED <<parserVars, channel>>

Delete ==
    /\ channel = "listed"
    /\ Pipeline!Destroy
    /\ channel' = "deleted"
    /\ UNCHANGED parserVars

Next ==
    \/ Parse \/ Refuse
    \/ InitPipeline \/ Create \/ InitTaskAndInsert
    \/ Run \/ Delete

Spec == Init /\ [][Next]_vars
-----------------------------------------------------------------------------
(* Properties *)

\* The types, and no sink pad with two links, however often a pad is added.
TypeOK ==
    /\ Parser!TypeOK
    /\ m_config \in Pipeline!Configs
    /\ status \in {"none", "creating", "created", "failed", "destroyed"}
    /\ at \in 0..Len(Pipeline!Create(m_config))
    /\ decoder \subseteq {"m_dec_sink_probe", "m_decoder"}
    /\ links \subseteq made \X made
    /\ \A l, k \in links : l[2] = k[2] => l = k
    /\ channel \in {"none", "refused", "building", "listed", "deleted"}

Complete ==
    result["pipeline"] = "CONFIG_PARSE_SUCCESS" /\ result["task"] = "CONFIG_PARSE_SUCCESS"

\* A configuration both parsers accept leaves out no field that the pipeline
\* built from it, its callbacks or its task ever read, whatever its kind of
\* input and its outputs.
ReadsAreAssigned == Complete => read \subseteq assigned

\* Of a pipeline that Create built, no code goes through a member that was
\* never set: neither Create itself, nor a callback, nor Destroy.
NothingAbsentIsUsed ==
    (status = "creating" \/ Pipeline!Built) => used \subseteq made \cup decoder

\* A pipeline that Create built is one graph without an open end, but for the pad of
\* the source: as long as that is not linked, the muxer is without an input and the
\* source without an output.  It is linked, or can still be, exactly if some output
\* is asked for; without one it is meant for a sink that Create has linked already,
\* and the source is never joined.
GraphIsComplete ==
    Pipeline!Built =>
        /\ Pipeline!Roots(Pipeline!Graph) = Pipeline!Starts
        /\ Pipeline!Leaves(Pipeline!Graph)
             = Pipeline!Outputs \cup IF Pipeline!SourceLinked THEN {} ELSE {Pipeline!Source}
        /\ m_config.type # Pipeline!USB_CAMERE =>
             (Pipeline!Asked
                <=> Pipeline!SourceLinked \/ ~Pipeline!Occupied(Pipeline!PadTarget))
=============================================================================
