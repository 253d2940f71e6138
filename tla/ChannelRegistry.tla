-------------------------- MODULE ChannelRegistry ---------------------------
(***************************************************************************)
(* The HTTP handlers of src/HttpServer.cpp over the two registries they    *)
(* keep in step: the channels of src/ChannelController.cpp and the         *)
(* configurations of src/ConfigCenter.cpp.  The server answers requests on *)
(* a pool of worker threads and neither registry has a lock, so that the   *)
(* map operations of different requests interleave.  Each map operation is *)
(* one step: what two of them do to the same std::map at the same instant  *)
(* is outside the model.                                                   *)
(*                                                                         *)
(* A request body is reduced to its name, the kind of its content and a    *)
(* revision that tells two bodies for the same name apart:                 *)
(*   good      parsed, its pipeline and task types are registered          *)
(*   nameless  'name' is missing or is not a string                        *)
(*   partial   one of the two sections is missing                          *)
(*   unknown   its pipeline or task type is not registered                 *)
(* Name, sections and types are read where the code reads them; Init of a  *)
(* channel, which changes neither registry, is part of the step that       *)
(* follows it.  An entry of the list holds a channel, one that has been    *)
(* de-initialised, or nothing; a Start, a Stop and a DeInit are one step   *)
(* each.  getChannelConfig is there because its read can write;            *)
(* getChannelList, and what is replied, are left out.                      *)
(***************************************************************************)
EXTENDS Functions

CONSTANTS Workers,     \* the threads of the server's pool
          Names,       \* channel names
          Revisions,   \* contents of a body
          Kinds,       \* the kinds of body the clients send
          Ops          \* the requests the clients send

ASSUME RequestsAssumption ==
    /\ Kinds \subseteq {"good", "nameless", "partial", "unknown"}
    /\ Ops \subseteq {"add", "delete", "start", "stop", "getChannelConfig"}

Bodies == [name : Names, kind : Kinds, rev : Revisions]
ByNameOnly == [name : Names, kind : {"none"}, rev : {"none"}]
NoBody == [name |-> "none", kind |-> "none", rev |-> "none"]
NullNode(n) == [name |-> n, kind |-> "null", rev |-> "none"]
Released(n) == [name |-> n, kind |-> "released", rev |-> "none"]

VARIABLES
    m_channelList,         \* name -> body its channel was built from, or a mark that
                           \* the channel is released or that the pointer is null
    m_channelConfigNodes,  \* name -> body
    m_pipelineConfigNodes, \* name -> body
    m_taskConfigNodes,     \* name -> body
    wpc,                   \* where each worker is in its handler
    op,                    \* the request it handles
    body,                  \* the body of an add; the name of the others
    dangling,              \* workers whose iterator is of an entry that was erased
    undefined,             \* a handler went through an iterator or a pointer to nothing
    met                    \* history: met[n] are the pairs of requests that were
                           \* in progress together on n since n was last free

registries == <<m_channelList, m_channelConfigNodes, m_pipelineConfigNodes, m_taskConfigNodes>>
handlers == <<wpc, op, body, dangling, undefined, met>>
vars == <<registries, handlers>>

Nothing == [n \in {} |-> NoBody]

Init ==
    /\ m_channelList = Nothing
    /\ m_channelConfigNodes = Nothing
    /\ m_pipelineConfigNodes = Nothing
    /\ m_taskConfigNodes = Nothing
    /\ wpc = [w \in Workers |-> "idle"]
    /\ op = [w \in Workers |-> "none"]
    /\ body = [w \in Workers |-> NoBody]
    /\ dangling = {}
    /\ undefined = FALSE
    /\ met = [n \in Names |-> {}]

\* map[k] = b, map.erase(k)
Put(map, k, b) == [n \in DOMAIN map \cup {k} |-> IF n = k THEN b ELSE map[n]]
Erase(map, k) == Restrict(map, DOMAIN map \ {k})

\* Undefined behaviour ends the model: nothing is said of what comes after it.
Goto(w, point) ==
    /\ ~undefined
    /\ wpc' = [wpc EXCEPT ![w] = point]
    /\ UNCHANGED <<op, body, dangling, undefined, met>>

\* The handler answers and the worker is free for the next request.
Leave(w) ==
    /\ ~undefined
    /\ wpc' = [wpc EXCEPT ![w] = "idle"]
    /\ op' = [op EXCEPT ![w] = "none"]
    /\ body' = [body EXCEPT ![w] = NoBody]
    /\ UNCHANGED <<undefined, met>>

Answer(w) == Leave(w) /\ UNCHANGED dangling

ReachUndefined ==
    /\ ~undefined
    /\ undefined' = TRUE
    /\ UNCHANGED <<wpc, op, body, dangling, met>>

Busy(n) == \E w \in Workers : body[w].name = n

\* In no map, and no request on it in progress.
Free(n) ==
    /\ ~Busy(n)
    /\ n \notin UNION {DOMAIN m_channelList, DOMAIN m_channelConfigNodes,
                       DOMAIN m_pipelineConfigNodes, DOMAIN m_taskConfigNodes}

\* The pairs of requests that disturb each other, as sets of one or two.
TwoAdds == {"add"}
AddAndDelete == {"add", "delete"}
DeleteAndUse == {{"delete"}, {"delete", "start"}, {"delete", "stop"}}
DeleteAndRead == {"delete", "getChannelConfig"}
Disturbing == {TwoAdds, AddAndDelete, DeleteAndRead} \cup DeleteAndUse

Meets(o, n) ==
    {{o, op[v]} : v \in {v \in Workers : body[v].name = n}} \cap Disturbing

Receive(w, o, b, point) ==
    /\ ~undefined
    /\ wpc[w] = "idle"
    /\ o \in Ops
    /\ op' = [op EXCEPT ![w] = o]
    /\ body' = [body EXCEPT ![w] = b]
    /\ wpc' = [wpc EXCEPT ![w] = point]
    /\ met' = [met EXCEPT ![b.name] = IF Free(b.name) THEN {} ELSE @ \cup Meets(o, b.name)]
    /\ UNCHANGED <<dangling, undefined, registries>>

ReceiveAdd(w) == \E b \in Bodies : Receive(w, "add", b, "parse")
ReceiveByName(w) ==
    \E o \in {"delete", "start", "stop"}, b \in ByNameOnly : Receive(w, o, b, "find")
ReceiveGet(w) == \E b \in ByNameOnly : Receive(w, "getChannelConfig", b, "getFind")
-----------------------------------------------------------------------------
(* ConfigCenter::ConfigParse and ChannelController::Impl::AddChannel *)

\* Fault: a name that is already configured is not refused.
ParseAgain(w) ==
    /\ wpc[w] = "parse"
    /\ IF body[w].kind \in {"nameless", "partial"}
         THEN Answer(w)
         ELSE Goto(w, "putChannelNode")
    /\ UNCHANGED registries

\* The name, the check against m_channelConfigNodes, and the two sections.  What
\* the parsers of the sections return is ignored.
Parse(w) ==
    /\ wpc[w] = "parse"
    /\ IF \/ body[w].kind \in {"nameless", "partial"}
          \/ body[w].name \in DOMAIN m_channelConfigNodes
         THEN Answer(w)
         ELSE Goto(w, "putChannelNode")
    /\ UNCHANGED registries

PutChannelNode(w) ==
    /\ wpc[w] = "putChannelNode"
    /\ m_channelConfigNodes' = Put(m_channelConfigNodes, body[w].name, body[w])
    /\ Goto(w, "putPipelineNode")
    /\ UNCHANGED <<m_channelList, m_pipelineConfigNodes, m_taskConfigNodes>>

PutPipelineNode(w) ==
    /\ wpc[w] = "putPipelineNode"
    /\ m_pipelineConfigNodes' = Put(m_pipelineConfigNodes, body[w].name, body[w])
    /\ Goto(w, "putTaskNode")
    /\ UNCHANGED <<m_channelList, m_channelConfigNodes, m_taskConfigNodes>>

PutTaskNode(w) ==
    /\ wpc[w] = "putTaskNode"
    /\ m_taskConfigNodes' = Put(m_taskConfigNodes, body[w].name, body[w])
    /\ Goto(w, "findExisting")
    /\ UNCHANGED <<m_channelList, m_channelConfigNodes, m_pipelineConfigNodes>>

\* Fault: that the name is not configured is taken to mean that it is not listed.
FindTypesOnly(w) ==
    /\ wpc[w] = "findExisting"
    /\ IF body[w].kind = "unknown"
         THEN Answer(w)
         ELSE Goto(w, "insert")
    /\ UNCHANGED registries

\* Already in the list, or built by no registered creator: given up, and the
\* three configuration nodes stay.
FindExisting(w) ==
    /\ wpc[w] = "findExisting"
    /\ IF body[w].name \in DOMAIN m_channelList \/ body[w].kind = "unknown"
         THEN Answer(w)
         ELSE Goto(w, "insert")
    /\ UNCHANGED registries

\* The channel is built and initialised; Init's own failures are ignored.
Insert(w) ==
    /\ wpc[w] = "insert"
    /\ m_channelList' = Put(m_channelList, body[w].name, body[w])
    /\ Answer(w)
    /\ UNCHANGED <<m_channelConfigNodes, m_pipelineConfigNodes, m_taskConfigNodes>>

Add(w) ==
    \/ Parse(w)
    \/ PutChannelNode(w) \/ PutPipelineNode(w) \/ PutTaskNode(w)
    \/ FindExisting(w) \/ Insert(w)
-----------------------------------------------------------------------------
(* DeletaChannel, StartChannel, StopChannel *)

\* The entry of n holds a channel that has not been released.
Good(n) == n \in DOMAIN m_channelList /\ m_channelList[n].kind = "good"

\* m_channelList->find(channel_id)
Find(w) ==
    /\ wpc[w] = "find"
    /\ IF body[w].name \in DOMAIN m_channelList
         THEN Goto(w, IF op[w] = "delete" THEN "eraseChannelNode" ELSE "use")
         ELSE Answer(w)
    /\ UNCHANGED registries

\* it->second->Start() or Stop(), through the iterator found before, which a new
\* entry of the same name does not make valid again.  A released channel has no
\* pipeline to call.
Use(w) ==
    /\ wpc[w] = "use"
    /\ IF w \notin dangling /\ Good(body[w].name)
         THEN Answer(w)
         ELSE ReachUndefined
    /\ UNCHANGED registries

\* Fault: the channel leaves the list before it is de-initialised through it.
EraseListFirst(w) ==
    /\ wpc[w] = "eraseChannelNode"
    /\ m_channelConfigNodes' = Erase(m_channelConfigNodes, body[w].name)
    /\ m_channelList' = Erase(m_channelList, body[w].name)
    /\ Goto(w, "erasePipelineNode")
    /\ UNCHANGED <<m_pipelineConfigNodes, m_taskConfigNodes>>

EraseChannelNode(w) ==
    /\ wpc[w] = "eraseChannelNode"
    /\ m_channelConfigNodes' = Erase(m_channelConfigNodes, body[w].name)
    /\ Goto(w, "erasePipelineNode")
    /\ UNCHANGED <<m_channelList, m_pipelineConfigNodes, m_taskConfigNodes>>

ErasePipelineNode(w) ==
    /\ wpc[w] = "erasePipelineNode"
    /\ m_pipelineConfigNodes' = Erase(m_pipelineConfigNodes, body[w].name)
    /\ Goto(w, "eraseTaskNode")
    /\ UNCHANGED <<m_channelList, m_channelConfigNodes, m_taskConfigNodes>>

\* Fault: the last of the three erases is forgotten.
EraseTaskNodeMissing(w) ==
    /\ wpc[w] = "eraseTaskNode"
    /\ Goto(w, "deInit")
    /\ UNCHANGED registries

EraseTaskNode(w) ==
    /\ wpc[w] = "eraseTaskNode"
    /\ m_taskConfigNodes' = Erase(m_taskConfigNodes, body[w].name)
    /\ Goto(w, "deInit")
    /\ UNCHANGED <<m_channelList, m_channelConfigNodes, m_pipelineConfigNodes>>

\* DeInit of the channel found anew by operator[], which for a name that is no
\* longer there yields a null pointer.  A channel that is released already is left
\* as it is.
DeInitChannel(w) ==
    /\ wpc[w] = "deInit"
    /\ IF body[w].name \notin DOMAIN m_channelList \/ m_channelList[body[w].name].kind = "null"
         THEN ReachUndefined /\ UNCHANGED m_channelList
         ELSE /\ m_channelList' = Put(m_channelList, body[w].name, Released(body[w].name))
              /\ Goto(w, "reset")
    /\ UNCHANGED <<m_channelConfigNodes, m_pipelineConfigNodes, m_taskConfigNodes>>

\* Found anew once more; a name that is no longer there gets an entry.
ResetChannel(w) ==
    /\ wpc[w] = "reset"
    /\ m_channelList' = Put(m_channelList, body[w].name, NullNode(body[w].name))
    /\ Goto(w, "erase")
    /\ UNCHANGED <<m_channelConfigNodes, m_pipelineConfigNodes, m_taskConfigNodes>>

\* The iterators of the entry dangle from now on.
EraseChannel(w) ==
    /\ wpc[w] = "erase"
    /\ m_channelList' = Erase(m_channelList, body[w].name)
    /\ dangling' = dangling \cup {v \in Workers : wpc[v] = "use" /\ body[v].name = body[w].name}
    /\ Leave(w)
    /\ UNCHANGED <<m_channelConfigNodes, m_pipelineConfigNodes, m_taskConfigNodes>>

ByName(w) ==
    \/ Find(w) \/ Use(w)
    \/ EraseChannelNode(w) \/ ErasePipelineNode(w) \/ EraseTaskNode(w)
    \/ DeInitChannel(w) \/ ResetChannel(w) \/ EraseChannel(w)
-----------------------------------------------------------------------------
(* GetChannelConfigString *)

GetFind(w) ==
    /\ wpc[w] = "getFind"
    /\ IF body[w].name \in DOMAIN m_channelConfigNodes
         THEN Goto(w, "getRead")
         ELSE Answer(w)
    /\ UNCHANGED registries

\* Looked up anew by operator[], which makes a null node of a name that has gone.
GetRead(w) ==
    /\ wpc[w] = "getRead"
    /\ m_channelConfigNodes' =
         IF body[w].name \in DOMAIN m_channelConfigNodes
           THEN m_channelConfigNodes
           ELSE Put(m_channelConfigNodes, body[w].name, NullNode(body[w].name))
    /\ Answer(w)
    /\ UNCHANGED <<m_channelList, m_pipelineConfigNodes, m_taskConfigNodes>>
-----------------------------------------------------------------------------
Next ==
    \E w \in Workers :
        \/ ReceiveAdd(w) \/ ReceiveByName(w) \/ ReceiveGet(w)
        \/ Add(w)
        \/ ByName(w)
        \/ GetFind(w) \/ GetRead(w)

Spec == Init /\ [][Next]_vars
-----------------------------------------------------------------------------
(* Properties *)

BodiesOf(n, kinds) == {b \in Bodies : b.name = n /\ b.kind \in kinds}
Holds(map, kinds) == \A n \in DOMAIN map : n \in Names /\ map[n] \in BodiesOf(n, kinds)

MapsTyped ==
    /\ \A n \in DOMAIN m_channelList :
         /\ n \in Names
         /\ m_channelList[n] \in BodiesOf(n, {"good"}) \cup {Released(n), NullNode(n)}
    /\ Holds(m_pipelineConfigNodes, {"good", "unknown"})
    /\ Holds(m_taskConfigNodes, {"good", "unknown"})
    /\ \A n \in DOMAIN m_channelConfigNodes :
         /\ n \in Names
         /\ m_channelConfigNodes[n] \in BodiesOf(n, {"good", "unknown"}) \cup {NullNode(n)}

HandlersTyped ==
    /\ wpc \in [Workers -> {"idle", "parse", "putChannelNode", "putPipelineNode", "putTaskNode",
                            "findExisting", "insert", "find", "use", "eraseChannelNode",
                            "erasePipelineNode", "eraseTaskNode", "deInit", "reset", "erase",
                            "getFind", "getRead"}]
    /\ op \in [Workers -> Ops \cup {"none"}]
    /\ body \in [Workers -> Bodies \cup ByNameOnly \cup {NoBody}]
    /\ dangling \subseteq Workers
    /\ undefined \in BOOLEAN
    /\ met \in [Names -> SUBSET Disturbing]

\* The maps hold bodies under their own names, and only those that got that far;
\* a map of configurations also the null nodes that a reading has made.
TypeOK == MapsTyped /\ HandlersTyped

Configured(n, map) == n \in DOMAIN map /\ map[n] = m_channelList[n]

\* What getChannelConfig reports of a channel is the configuration the channel
\* was built from, in all three maps, whatever requests are in progress on other
\* names and whichever failed before.  It takes two adds of the name at a time,
\* or an add during a delete, to break that.
ConfigTellsChannel ==
    \A n \in DOMAIN m_channelList :
        \/ Busy(n) \/ {TwoAdds, AddAndDelete} \cap met[n] # {}
        \/ /\ Configured(n, m_channelConfigNodes)
           /\ Configured(n, m_pipelineConfigNodes)
           /\ Configured(n, m_taskConfigNodes)

\* A name that is configured in one of the maps without being a channel was put
\* there by an add that failed for its type; or by an add during a delete; or, a
\* null node, by a reader during a delete.
OnlyFailedAddsAreOrphans ==
    \A n \in Names \ DOMAIN m_channelList :
        \/ Busy(n) \/ AddAndDelete \in met[n]
        \/ \A map \in {m_channelConfigNodes, m_pipelineConfigNodes, m_taskConfigNodes} :
              n \in DOMAIN map =>
                  \/ map[n].kind = "unknown"
                  \/ map[n] = NullNode(n) /\ DeleteAndRead \in met[n]

\* A handler uses a channel that has been released, an entry that has been erased,
\* or the pointer of an entry that has none, only if a delete was in progress
\* together with another delete, a start or a stop of that name; an add that puts
\* the name back in the meantime does not help.
UndefinedOnlyInDelete ==
    undefined => \E n \in Names : DeleteAndUse \cap met[n] # {}

\* "Add a chennel already exist.", the reason AddChannel gives for refusing a
\* name: an add never replaces a channel by another one of the same name, unless
\* two of them are in progress at a time.
ExistingChannelIsKept ==
    [][\A n \in DOMAIN m_channelList :
         \/ Good(n) /\ Good(n)' => m_channelList'[n] = m_channelList[n]
         \/ TwoAdds \in met[n]]_vars
=============================================================================
