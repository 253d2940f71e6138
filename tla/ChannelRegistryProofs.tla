----------------------- MODULE ChannelRegistryProofs ------------------------
(***************************************************************************)
(* Theorems about ChannelRegistry, for any set of workers, of names, of    *)
(* bodies and of requests.                                                 *)
(***************************************************************************)
EXTENDS ChannelRegistry, TLAPS

Parsed == {"putChannelNode", "putPipelineNode", "putTaskNode", "findExisting", "insert"}
Erasing == {"eraseChannelNode", "erasePipelineNode", "eraseTaskNode",
            "deInit", "reset", "erase"}
Emptied == Erasing \ {"eraseChannelNode"}

At(w, n, points) == wpc[w] \in points /\ body[w].name = n

\* The request and the body a worker has at each point of a handler.
Points ==
    \A w \in Workers :
        /\ wpc[w] # "idle" => body[w].name \in Names
        /\ wpc[w] \in Parsed \cup {"parse"} => op[w] = "add" /\ body[w] \in Bodies
        /\ wpc[w] \in Parsed => body[w].kind \in {"good", "unknown"}
        /\ wpc[w] = "insert" => body[w].kind = "good"
        /\ wpc[w] = "find" => op[w] \in {"delete", "start", "stop"}
        /\ wpc[w] = "use" => op[w] \in {"start", "stop"}
        /\ wpc[w] \in Erasing => op[w] = "delete"
        /\ wpc[w] \in {"getFind", "getRead"} => op[w] = "getChannelConfig"
        /\ w \in dangling => wpc[w] = "use"

\* Two requests in progress on one name that disturb each other have met.
Pairs ==
    \A v, w \in Workers :
        (/\ v # w
         /\ wpc[v] # "idle" /\ wpc[w] # "idle"
         /\ body[v].name = body[w].name
         /\ {op[v], op[w]} \in Disturbing)
            => {op[v], op[w]} \in met[body[w].name]

\* Whoever has released a channel or taken it from its entry is about to erase it.
Held ==
    \A n \in DOMAIN m_channelList :
        Good(n) \/ \E w \in Workers : At(w, n, {"reset", "erase"})

\* What a handler has found in the list is there still, the same entry with its
\* channel, or a delete overlaps.
FoundBy(w) ==
    \/ /\ wpc[w] \in Erasing => body[w].name \in DOMAIN m_channelList
       /\ wpc[w] = "use" => w \notin dangling /\ Good(body[w].name)
    \/ DeleteAndUse \cap met[body[w].name] # {}

Found == \A w \in Workers : FoundBy(w)

\* What an add has found missing in the list is missing still, or two adds overlap.
Missing ==
    \A w \in Workers :
        wpc[w] = "insert" => ~Good(body[w].name) \/ TwoAdds \in met[body[w].name]

\* No add has overlapped with another or with a delete since n was last free.
Clean(n) == TwoAdds \notin met[n] /\ AddAndDelete \notin met[n]
NoDelete(n) == AddAndDelete \notin met[n]

Entry(map, n, b) == n \in DOMAIN map /\ map[n] = b

\* Where the maps stand while a channel is added or deleted by one request at a
\* time: the invariant behind ConfigTellsChannel.
ToldAt(n) ==
    Clean(n) =>
        /\ n \in DOMAIN m_channelList /\ (\A w \in Workers : ~At(w, n, Emptied)) =>
             /\ Configured(n, m_channelConfigNodes)
             /\ Configured(n, m_pipelineConfigNodes)
             /\ Configured(n, m_taskConfigNodes)
        /\ \A w \in Workers : At(w, n, Parsed) => n \notin DOMAIN m_channelList
        /\ \A w \in Workers : At(w, n, Parsed \ {"putChannelNode"}) =>
             Entry(m_channelConfigNodes, n, body[w])
        /\ \A w \in Workers : At(w, n, {"putTaskNode", "findExisting", "insert"}) =>
             Entry(m_pipelineConfigNodes, n, body[w])
        /\ \A w \in Workers : At(w, n, {"findExisting", "insert"}) =>
             Entry(m_taskConfigNodes, n, body[w])

\* A good add of n that has parsed its body is on its way to the list.
Coming(n) == \E w \in Workers : At(w, n, Parsed) /\ body[w].kind = "good"

\* What may be left of n in a map of configurations without a channel n.
Excused(n, map) ==
    n \in DOMAIN map =>
        \/ map[n].kind = "unknown"
        \/ map[n] = NullNode(n) /\ DeleteAndRead \in met[n]

\* Where the maps stand as long as no add has overlapped with a delete: the
\* invariant behind OnlyFailedAddsAreOrphans.
OrphanedAt(n) ==
    NoDelete(n) =>
        /\ n \notin DOMAIN m_channelList =>
             \/ Coming(n)
             \/ /\ Excused(n, m_channelConfigNodes)
                /\ Excused(n, m_pipelineConfigNodes)
                /\ Excused(n, m_taskConfigNodes)
        /\ \A w \in Workers : At(w, n, Emptied) => Excused(n, m_channelConfigNodes)
        /\ \A w \in Workers : At(w, n, {"eraseTaskNode", "deInit", "reset", "erase"}) => n \notin DOMAIN m_pipelineConfigNodes
        /\ \A w \in Workers : At(w, n, {"deInit", "reset", "erase"}) => n \notin DOMAIN m_taskConfigNodes
        /\ \A w \in Workers : At(w, n, {"getRead"}) =>
             n \in DOMAIN m_channelConfigNodes \/ DeleteAndRead \in met[n]

Told == \A n \in Names : ToldAt(n)
Orphaned == \A n \in Names : OrphanedAt(n)

Safe == TypeOK /\ Points /\ Pairs
-----------------------------------------------------------------------------
\* What a step of a handler does to where the workers are: it moves one worker on
\* or makes it free.
Quiet(w) ==
    /\ met' = met
    /\ \A v \in Workers \ {w} : wpc'[v] = wpc[v] /\ op'[v] = op[v] /\ body'[v] = body[v]
    /\ wpc[w] # "idle"
    /\ wpc'[w] = "idle" \/ (op'[w] = op[w] /\ body'[w] = body[w] /\ wpc'[w] # "idle")

\* What it does to the maps for a name other than its own: nothing.
SameIn(n, map, map2) ==
    /\ n \in DOMAIN map2 <=> n \in DOMAIN map
    /\ n \in DOMAIN map => map2[n] = map[n]

Same(n) ==
    /\ SameIn(n, m_channelList, m_channelList')
    /\ SameIn(n, m_channelConfigNodes, m_channelConfigNodes')
    /\ SameIn(n, m_pipelineConfigNodes, m_pipelineConfigNodes')
    /\ SameIn(n, m_taskConfigNodes, m_taskConfigNodes')

Handle(w) == Add(w) \/ ByName(w) \/ GetFind(w) \/ GetRead(w)
Received(w) == ReceiveAdd(w) \/ ReceiveByName(w) \/ ReceiveGet(w)

LEMMA NextCases ==
    ASSUME Next
    PROVE  \E w \in Workers : Received(w) \/ Handle(w)
  BY DEF Next, Received, Handle

LEMMA PutFacts ==
    ASSUME NEW map, NEW k, NEW b
    PROVE  /\ DOMAIN Put(map, k, b) = DOMAIN map \cup {k}
           /\ Put(map, k, b)[k] = b
           /\ \A n : n # k => SameIn(n, map, Put(map, k, b))
  BY DEF Put, SameIn

LEMMA EraseFacts ==
    ASSUME NEW map, NEW k
    PROVE  /\ DOMAIN Erase(map, k) = DOMAIN map \ {k}
           /\ \A n : n # k => SameIn(n, map, Erase(map, k))
  BY DEF Erase, Restrict, SameIn

LEMMA PutHolds ==
    ASSUME NEW map, NEW kinds, NEW k \in Names, NEW b \in BodiesOf(k, kinds), Holds(map, kinds)
    PROVE  Holds(Put(map, k, b), kinds)
  BY DEF Put, Holds

LEMMA EraseHolds ==
    ASSUME NEW map, NEW kinds, NEW k, Holds(map, kinds)
    PROVE  Holds(Erase(map, k), kinds)
  BY DEF Erase, Restrict, Holds

LEMMA SameInSelf ==
    ASSUME NEW map, NEW n
    PROVE  SameIn(n, map, map)
  BY DEF SameIn

LEMMA MoveIsQuiet ==
    ASSUME HandlersTyped, NEW w \in Workers, NEW p, p # "idle", wpc[w] # "idle",
           Goto(w, p) \/ Leave(w) \/ ReachUndefined
    PROVE  Quiet(w)
  BY DEF HandlersTyped, Goto, Leave, ReachUndefined, Quiet

LEMMA HandleIsQuiet ==
    ASSUME HandlersTyped, NEW w \in Workers, Handle(w)
    PROVE  Quiet(w)
  <1>1. CASE Parse(w)
    BY <1>1, MoveIsQuiet DEF Parse, Answer
  <1>2. CASE PutChannelNode(w)
    BY <1>2, MoveIsQuiet DEF PutChannelNode
  <1>3. CASE PutPipelineNode(w)
    BY <1>3, MoveIsQuiet DEF PutPipelineNode
  <1>4. CASE PutTaskNode(w)
    BY <1>4, MoveIsQuiet DEF PutTaskNode
  <1>5. CASE FindExisting(w)
    BY <1>5, MoveIsQuiet DEF FindExisting, Answer
  <1>6. CASE Insert(w)
    BY <1>6, MoveIsQuiet DEF Insert, Answer
  <1>7. CASE Find(w)
    BY <1>7, MoveIsQuiet DEF Find, Answer
  <1>8. CASE Use(w)
    BY <1>8, MoveIsQuiet DEF Use, Answer
  <1>9. CASE EraseChannelNode(w)
    BY <1>9, MoveIsQuiet DEF EraseChannelNode
  <1>10. CASE ErasePipelineNode(w)
    BY <1>10, MoveIsQuiet DEF ErasePipelineNode
  <1>11. CASE EraseTaskNode(w)
    BY <1>11, MoveIsQuiet DEF EraseTaskNode
  <1>12. CASE EraseChannel(w)
    BY <1>12, MoveIsQuiet DEF EraseChannel
  <1>13. CASE GetFind(w)
    BY <1>13, MoveIsQuiet DEF GetFind, Answer
  <1>14. CASE GetRead(w)
    BY <1>14, MoveIsQuiet DEF GetRead, Answer
  <1>15. CASE DeInitChannel(w)
    BY <1>15, MoveIsQuiet DEF DeInitChannel
  <1>16. CASE ResetChannel(w)
    BY <1>16, MoveIsQuiet DEF ResetChannel
  <1> QED
    BY <1>1, <1>2, <1>3, <1>4, <1>5, <1>6, <1>7, <1>8, <1>9, <1>10, <1>11, <1>12,
       <1>13, <1>14, <1>15, <1>16 DEF Handle, Add, ByName

LEMMA SameElsewhere ==
    ASSUME NEW w \in Workers, Handle(w), NEW n, n # body[w].name
    PROVE  Same(n)
  <1>1. CASE Parse(w)
    BY <1>1, SameInSelf DEF Parse, registries, Same
  <1>2. CASE PutChannelNode(w)
    BY <1>2, PutFacts, SameInSelf DEF PutChannelNode, Same
  <1>3. CASE PutPipelineNode(w)
    BY <1>3, PutFacts, SameInSelf DEF PutPipelineNode, Same
  <1>4. CASE PutTaskNode(w)
    BY <1>4, PutFacts, SameInSelf DEF PutTaskNode, Same
  <1>5. CASE FindExisting(w)
    BY <1>5, SameInSelf DEF FindExisting, registries, Same
  <1>6. CASE Insert(w)
    BY <1>6, PutFacts, SameInSelf DEF Insert, Same
  <1>7. CASE Find(w)
    BY <1>7, SameInSelf DEF Find, registries, Same
  <1>8. CASE Use(w)
    BY <1>8, SameInSelf DEF Use, registries, Same
  <1>9. CASE EraseChannelNode(w)
    BY <1>9, EraseFacts, SameInSelf DEF EraseChannelNode, Same
  <1>10. CASE ErasePipelineNode(w)
    BY <1>10, EraseFacts, SameInSelf DEF ErasePipelineNode, Same
  <1>11. CASE EraseTaskNode(w)
    BY <1>11, EraseFacts, SameInSelf DEF EraseTaskNode, Same
  <1>12. CASE EraseChannel(w)
    BY <1>12, EraseFacts, SameInSelf DEF EraseChannel, Same
  <1>13. CASE GetFind(w)
    BY <1>13, SameInSelf DEF GetFind, registries, Same
  <1>14. CASE GetRead(w)
    BY <1>14, PutFacts, SameInSelf DEF GetRead, Same
  <1>15. CASE DeInitChannel(w)
    <2>1. CASE m_channelList' = Put(m_channelList, body[w].name, Released(body[w].name))
      BY <1>15, <2>1, PutFacts, SameInSelf DEF DeInitChannel, Same
    <2>2. CASE m_channelList' = m_channelList
      BY <1>15, <2>2, SameInSelf DEF DeInitChannel, Same
    <2> QED
      BY <1>15, <2>1, <2>2 DEF DeInitChannel
  <1>16. CASE ResetChannel(w)
    BY <1>16, PutFacts, SameInSelf DEF ResetChannel, Same
  <1> QED
    BY <1>1, <1>2, <1>3, <1>4, <1>5, <1>6, <1>7,
       <1>8, <1>9, <1>10, <1>11, <1>12, <1>13, <1>14, <1>15, <1>16 DEF Handle, Add, ByName

LEMMA HandleMapsTyped ==
    ASSUME TypeOK, Points, NEW w \in Workers, Handle(w)
    PROVE  MapsTyped'
  <1> USE DEF TypeOK, MapsTyped
  <1>1. CASE Parse(w)
    BY <1>1 DEF Parse, registries
  <1>2. CASE PutChannelNode(w)
    <2>1. body[w].name \in Names /\ body[w] \in BodiesOf(body[w].name, {"good", "unknown"})
      BY <1>2 DEF PutChannelNode, Points, Parsed, BodiesOf
    <2> QED
      BY <1>2, <2>1 DEF PutChannelNode, Put
  <1>3. CASE PutPipelineNode(w)
    <2>1. body[w].name \in Names /\ body[w] \in BodiesOf(body[w].name, {"good", "unknown"})
      BY <1>3 DEF PutPipelineNode, Points, Parsed, BodiesOf
    <2> QED
      BY <1>3, <2>1, PutHolds DEF PutPipelineNode
  <1>4. CASE PutTaskNode(w)
    <2>1. body[w].name \in Names /\ body[w] \in BodiesOf(body[w].name, {"good", "unknown"})
      BY <1>4 DEF PutTaskNode, Points, Parsed, BodiesOf
    <2> QED
      BY <1>4, <2>1, PutHolds DEF PutTaskNode
  <1>5. CASE FindExisting(w)
    BY <1>5 DEF FindExisting, registries
  <1>6. CASE Insert(w)
    <2>1. body[w].name \in Names /\ body[w] \in BodiesOf(body[w].name, {"good"})
      BY <1>6 DEF Insert, Points, Parsed, BodiesOf
    <2> QED
      BY <1>6, <2>1 DEF Insert, Put
  <1>7. CASE Find(w)
    BY <1>7 DEF Find, registries
  <1>8. CASE Use(w)
    BY <1>8 DEF Use, registries
  <1>9. CASE EraseChannelNode(w)
    BY <1>9 DEF EraseChannelNode, Erase, Restrict
  <1>10. CASE ErasePipelineNode(w)
    BY <1>10, EraseHolds DEF ErasePipelineNode
  <1>11. CASE EraseTaskNode(w)
    BY <1>11, EraseHolds DEF EraseTaskNode
  <1>12. CASE EraseChannel(w)
    BY <1>12 DEF EraseChannel, Erase, Restrict
  <1>13. CASE GetFind(w)
    BY <1>13 DEF GetFind, registries
  <1>14. CASE GetRead(w)
    <2>1. body[w].name \in Names
      BY <1>14 DEF GetRead, Points
    <2> QED
      BY <1>14, <2>1 DEF GetRead, Put
  <1>15. CASE DeInitChannel(w)
    BY <1>15 DEF DeInitChannel, Put
  <1>16. CASE ResetChannel(w)
    <2>1. body[w].name \in Names
      BY <1>16 DEF ResetChannel, Points
    <2> QED
      BY <1>16, <2>1 DEF ResetChannel, Put
  <1> QED
    BY <1>1, <1>2, <1>3, <1>4, <1>5, <1>6, <1>7,
       <1>8, <1>9, <1>10, <1>11, <1>12, <1>13, <1>14, <1>15, <1>16 DEF Handle, Add, ByName

LEMMA HandleHandlersTyped ==
    ASSUME TypeOK, Points, NEW w \in Workers, Handle(w)
    PROVE  HandlersTyped'
  <1> USE DEF TypeOK, HandlersTyped, Goto, Answer, Leave, ReachUndefined
  <1>1. CASE Parse(w)
    BY <1>1 DEF Parse
  <1>2. CASE PutChannelNode(w)
    BY <1>2 DEF PutChannelNode
  <1>3. CASE PutPipelineNode(w)
    BY <1>3 DEF PutPipelineNode
  <1>4. CASE PutTaskNode(w)
    BY <1>4 DEF PutTaskNode
  <1>5. CASE FindExisting(w)
    BY <1>5 DEF FindExisting
  <1>6. CASE Insert(w)
    BY <1>6 DEF Insert
  <1>7. CASE Find(w)
    BY <1>7 DEF Find
  <1>8. CASE Use(w)
    BY <1>8 DEF Use
  <1>9. CASE EraseChannelNode(w)
    BY <1>9 DEF EraseChannelNode
  <1>10. CASE ErasePipelineNode(w)
    BY <1>10 DEF ErasePipelineNode
  <1>11. CASE EraseTaskNode(w)
    BY <1>11 DEF EraseTaskNode
  <1>12. CASE EraseChannel(w)
    BY <1>12 DEF EraseChannel
  <1>13. CASE GetFind(w)
    BY <1>13 DEF GetFind
  <1>14. CASE GetRead(w)
    BY <1>14 DEF GetRead
  <1>15. CASE DeInitChannel(w)
    BY <1>15 DEF DeInitChannel
  <1>16. CASE ResetChannel(w)
    BY <1>16 DEF ResetChannel
  <1> QED
    BY <1>1, <1>2, <1>3, <1>4, <1>5, <1>6, <1>7,
       <1>8, <1>9, <1>10, <1>11, <1>12, <1>13, <1>14, <1>15, <1>16 DEF Handle, Add, ByName

LEMMA HandlePoints ==
    ASSUME TypeOK, Points, NEW w \in Workers, Handle(w)
    PROVE  Points'
  <1> USE DEF TypeOK, HandlersTyped, Goto, Answer, Leave, ReachUndefined, Points, Parsed, Erasing
  <1>1. CASE Parse(w)
    <2>1. body[w].kind \in Kinds
      BY <1>1 DEF Parse, Bodies
    <2> QED
      <3>1. CASE Answer(w)
        BY <1>1, <3>1 DEF Parse
      <3>2. CASE Goto(w, "putChannelNode")
        <4>1. body[w].kind \in {"good", "unknown"}
          BY <1>1, <2>1, <3>2, RequestsAssumption DEF Parse
        <4> QED
          BY <1>1, <3>2, <4>1 DEF Parse
      <3> QED
        BY <1>1, <3>1, <3>2 DEF Parse
  <1>2. CASE PutChannelNode(w)
    BY <1>2 DEF PutChannelNode
  <1>3. CASE PutPipelineNode(w)
    BY <1>3 DEF PutPipelineNode
  <1>4. CASE PutTaskNode(w)
    BY <1>4 DEF PutTaskNode
  <1>5. CASE FindExisting(w)
    BY <1>5 DEF FindExisting
  <1>6. CASE Insert(w)
    BY <1>6 DEF Insert
  <1>7. CASE Find(w)
    BY <1>7 DEF Find
  <1>8. CASE Use(w)
    BY <1>8 DEF Use
  <1>9. CASE EraseChannelNode(w)
    BY <1>9 DEF EraseChannelNode
  <1>10. CASE ErasePipelineNode(w)
    BY <1>10 DEF ErasePipelineNode
  <1>11. CASE EraseTaskNode(w)
    BY <1>11 DEF EraseTaskNode
  <1>12. CASE EraseChannel(w)
    BY <1>12 DEF EraseChannel
  <1>13. CASE GetFind(w)
    BY <1>13 DEF GetFind
  <1>14. CASE GetRead(w)
    BY <1>14 DEF GetRead
  <1>15. CASE DeInitChannel(w)
    BY <1>15 DEF DeInitChannel
  <1>16. CASE ResetChannel(w)
    BY <1>16 DEF ResetChannel
  <1> QED
    BY <1>1, <1>2, <1>3, <1>4, <1>5, <1>6, <1>7,
       <1>8, <1>9, <1>10, <1>11, <1>12, <1>13, <1>14, <1>15, <1>16 DEF Handle, Add, ByName
-----------------------------------------------------------------------------
(* A request is received *)

\* What it does: a free worker takes it, nothing is forgotten of a name that is
\* in use, and the request meets those in progress.
Takes(w) ==
    /\ UNCHANGED <<registries, dangling, undefined>>
    /\ wpc[w] = "idle" /\ wpc'[w] \in {"parse", "find", "getFind"}
    /\ \A v \in Workers \ {w} : wpc'[v] = wpc[v] /\ op'[v] = op[v] /\ body'[v] = body[v]
    /\ \A n \in Names : Free(n) \/ met[n] \subseteq met'[n]
    /\ \A v \in Workers \ {w} :
         body[v].name = body'[w].name /\ {op'[w], op[v]} \in Disturbing
             => {op'[w], op[v]} \in met'[body'[w].name]

LEMMA ReceiveTakes ==
    ASSUME TypeOK, NEW w \in Workers, NEW o, NEW b \in Bodies \cup ByNameOnly,
           NEW point \in {"parse", "find", "getFind"}, Receive(w, o, b, point)
    PROVE  Takes(w) /\ HandlersTyped'
  <1> USE DEF TypeOK, HandlersTyped, Receive
  <1>1. b.name \in Names
    BY DEF Bodies, ByNameOnly
  <1>2. wpc'[w] = point /\ op'[w] = o /\ body'[w] = b /\ wpc[w] = "idle"
    OBVIOUS
  <1>3. \A v \in Workers \ {w} : wpc'[v] = wpc[v] /\ op'[v] = op[v] /\ body'[v] = body[v]
    OBVIOUS
  <1>4. \A n \in Names : met'[n] = IF n = b.name THEN IF Free(n) THEN {} ELSE met[n] \cup Meets(o, n)
                                                ELSE met[n]
    BY <1>1
  <1>5. \A n \in Names : Free(n) \/ met[n] \subseteq met'[n]
    BY <1>4
  <1>6. ASSUME NEW v \in Workers \ {w}, body[v].name = b.name, {o, op[v]} \in Disturbing
        PROVE  {o, op[v]} \in met'[b.name]
    <2>1. ~Free(b.name)
      BY <1>6 DEF Free, Busy
    <2>2. {o, op[v]} \in Meets(o, b.name)
      BY <1>6 DEF Meets
    <2> QED
      BY <1>1, <1>4, <2>1, <2>2
  <1>7. Takes(w)
    BY <1>2, <1>3, <1>5, <1>6 DEF Takes
  <1>8. Meets(o, b.name) \subseteq Disturbing
    BY DEF Meets
  <1>9. met' \in [Names -> SUBSET Disturbing]
    BY <1>1, <1>8
  <1>10. HandlersTyped'
    BY <1>9
  <1> QED
    BY <1>7, <1>10

LEMMA ReceivedTakes ==
    ASSUME TypeOK, NEW w \in Workers, Received(w)
    PROVE  Takes(w) /\ HandlersTyped'
  BY ReceiveTakes DEF Received, ReceiveAdd, ReceiveByName, ReceiveGet

LEMMA ReceivedPoints ==
    ASSUME TypeOK, Points, NEW w \in Workers, Received(w)
    PROVE  Points'
  <1> USE DEF Points, Parsed, Erasing
  <1>1. /\ \A v \in Workers \ {w} : wpc'[v] = wpc[v] /\ op'[v] = op[v] /\ body'[v] = body[v]
        /\ dangling' = dangling /\ wpc[w] = "idle"
    BY ReceivedTakes DEF Takes
  <1>2. CASE ReceiveAdd(w)
    <2>1. wpc'[w] = "parse" /\ op'[w] = "add" /\ body'[w] \in Bodies
      BY <1>2 DEF ReceiveAdd, Receive, TypeOK, HandlersTyped
    <2>2. body'[w].name \in Names
      BY <2>1 DEF Bodies
    <2> QED
      BY <1>1, <2>1, <2>2
  <1>3. CASE ReceiveByName(w)
    <2>1. wpc'[w] = "find" /\ op'[w] \in {"delete", "start", "stop"} /\ body'[w] \in ByNameOnly
      BY <1>3 DEF ReceiveByName, Receive, TypeOK, HandlersTyped
    <2>2. body'[w].name \in Names
      BY <2>1 DEF ByNameOnly
    <2> QED
      BY <1>1, <2>1, <2>2
  <1>4. CASE ReceiveGet(w)
    <2>1. wpc'[w] = "getFind" /\ op'[w] = "getChannelConfig" /\ body'[w] \in ByNameOnly
      BY <1>4 DEF ReceiveGet, Receive, TypeOK, HandlersTyped
    <2>2. body'[w].name \in Names
      BY <2>1 DEF ByNameOnly
    <2> QED
      BY <1>1, <2>1, <2>2
  <1> QED
    BY <1>2, <1>3, <1>4 DEF Received

LEMMA Swap == \A a, b : {a, b} = {b, a}
  OBVIOUS

LEMMA ReceivedPairs ==
    ASSUME Safe, NEW w \in Workers, Received(w)
    PROVE  Pairs'
  <1> SUFFICES ASSUME NEW u \in Workers, NEW v \in Workers, u # v,
                      wpc'[u] # "idle", wpc'[v] # "idle",
                      body'[u].name = body'[v].name,
                      {op'[u], op'[v]} \in Disturbing
               PROVE  {op'[u], op'[v]} \in met'[body'[v].name]
    BY DEF Pairs
  <1>1. Takes(w)
    BY ReceivedTakes DEF Safe
  <1>2. CASE u = w
    BY <1>1, <1>2 DEF Takes
  <1>3. CASE v = w
    BY <1>1, <1>3, Swap DEF Takes
  <1>4. CASE u # w /\ v # w
    <2>1. /\ {op[u], op[v]} \in met[body[v].name] /\ body[v].name \in Names
          /\ op'[u] = op[u] /\ op'[v] = op[v] /\ body'[v] = body[v]
      BY <1>1, <1>4 DEF Takes, Safe, Pairs, Points
    <2>2. ~Free(body[v].name)
      BY DEF Free, Busy
    <2> QED
      BY <1>1, <2>1, <2>2 DEF Takes
  <1> QED
    BY <1>2, <1>3, <1>4

LEMMA HandlePairs ==
    ASSUME Safe, NEW w \in Workers, Quiet(w)
    PROVE  Pairs'
  BY DEF Safe, Pairs, Quiet

LEMMA InitSafe == Init => Safe
  <1> SUFFICES ASSUME Init PROVE Safe
    OBVIOUS
  <1>1. HandlersTyped
    BY DEF Init, HandlersTyped
  <1>2. MapsTyped
    BY DEF Init, MapsTyped, Nothing, Holds
  <1>3. Points /\ Pairs
    BY DEF Init, Points, Pairs, Parsed, Erasing
  <1> QED
    BY <1>1, <1>2, <1>3 DEF Safe, TypeOK

LEMMA StutterSafe ==
    ASSUME Safe, UNCHANGED vars
    PROVE  Safe'
  BY DEF Safe, vars, registries, handlers, TypeOK, MapsTyped, Holds, HandlersTyped, Points, Pairs

LEMMA StepSafe ==
    ASSUME Safe, [Next]_vars
    PROVE  Safe'
  <1>1. ASSUME NEW w \in Workers, Received(w)
        PROVE  Safe'
    <2>1. HandlersTyped' /\ Points' /\ Pairs'
      BY <1>1, ReceivedTakes, ReceivedPoints, ReceivedPairs DEF Safe
    <2>2. MapsTyped'
      BY <1>1, ReceivedTakes DEF Takes, Safe, TypeOK, MapsTyped, Holds, registries
    <2> QED
      BY <2>1, <2>2 DEF Safe, TypeOK
  <1>2. ASSUME NEW w \in Workers, Handle(w)
        PROVE  Safe'
    BY <1>2, HandleMapsTyped, HandleHandlersTyped, HandlePoints, HandleIsQuiet, HandlePairs
       DEF Safe, TypeOK
  <1> QED
    BY <1>1, <1>2, NextCases, StutterSafe

\* The types, for any number of workers, names and bodies.
THEOREM TypeCorrect == Spec => []TypeOK
  <1>1. Init => Safe
    BY InitSafe
  <1>2. Safe /\ [Next]_vars => Safe'
    BY StepSafe
  <1>3. Safe => TypeOK
    BY DEF Safe
  <1> QED
    BY <1>1, <1>2, <1>3, PTL DEF Spec
-----------------------------------------------------------------------------
(* What was found, or found missing, in the list of channels *)

\* Most steps leave the list and the iterators alone.
LEMMA ListSteps ==
    ASSUME NEW w \in Workers, Handle(w)
    PROVE  \/ UNCHANGED <<m_channelList, dangling>>
           \/ Insert(w) /\ UNCHANGED dangling
           \/ DeInitChannel(w) /\ ~undefined' /\ UNCHANGED dangling
           \/ ResetChannel(w) /\ UNCHANGED dangling
           \/ EraseChannel(w)
  BY DEF Handle, Add, ByName, Parse, PutChannelNode, PutPipelineNode, PutTaskNode, FindExisting,
         Insert, Find, Use, EraseChannelNode, ErasePipelineNode, EraseTaskNode, DeInitChannel,
         ResetChannel, GetFind, GetRead, Goto, Answer, ReachUndefined, registries

\* What they do to the entry of the name.
LEMMA EntrySteps ==
    ASSUME Safe, NEW w \in Workers, NEW n, n = body[w].name
    PROVE  /\ Insert(w) => Good(n)'
           /\ DeInitChannel(w) /\ ~undefined' =>
                n \in DOMAIN m_channelList' /\ ~Good(n)' /\ wpc[w] = "deInit" /\ wpc'[w] = "reset"
           /\ ResetChannel(w) =>
                n \in DOMAIN m_channelList' /\ ~Good(n)' /\ wpc[w] = "reset" /\ wpc'[w] = "erase"
           /\ EraseChannel(w) => n \notin DOMAIN m_channelList' /\ wpc[w] = "erase" /\ wpc'[w] = "idle"
  <1> USE DEF Put, Good, Safe, TypeOK, HandlersTyped
  <1>1. Insert(w) => Good(n)'
    BY DEF Insert, Points
  <1>2. DeInitChannel(w) /\ ~undefined' =>
          n \in DOMAIN m_channelList' /\ ~Good(n)' /\ wpc[w] = "deInit" /\ wpc'[w] = "reset"
    BY DEF DeInitChannel, Released, Goto, ReachUndefined
  <1>3. ResetChannel(w) =>
          n \in DOMAIN m_channelList' /\ ~Good(n)' /\ wpc[w] = "reset" /\ wpc'[w] = "erase"
    BY DEF ResetChannel, NullNode, Goto
  <1>4. EraseChannel(w) => n \notin DOMAIN m_channelList' /\ wpc[w] = "erase" /\ wpc'[w] = "idle"
    BY DEF EraseChannel, Leave, Erase, Restrict
  <1> QED
    BY <1>1, <1>2, <1>3, <1>4

\* Two requests of which one deletes and the other uses or deletes have met.
LEMMA DeleteMeets ==
    ASSUME Safe, NEW v \in Workers, NEW w \in Workers, v # w, body[v].name = body[w].name,
           wpc[w] \in Erasing, wpc[v] \in Erasing \cup {"use", "find"}
    PROVE  DeleteAndUse \cap met[body[v].name] # {}
  <1>1. op[w] = "delete" /\ op[v] \in {"delete", "start", "stop"}
    BY DEF Safe, Points, Erasing
  <1>2. {op[v], op[w]} \in DeleteAndUse
    BY <1>1, Swap DEF DeleteAndUse
  <1>3. {op[v], op[w]} \in Disturbing /\ wpc[v] # "idle" /\ wpc[w] # "idle"
    BY <1>2 DEF Disturbing, Erasing
  <1>4. {op[v], op[w]} \in met[body[v].name]
    BY <1>3 DEF Safe, Pairs
  <1> QED
    BY <1>2, <1>4

LEMMA ReceivedFound ==
    ASSUME Safe, NEW w \in Workers, Received(w)
    PROVE  (Held => Held') /\ (Found => Found') /\ (Missing => Missing')
  <1>1. Takes(w)
    BY ReceivedTakes DEF Safe
  <1>2. \A v \in Workers : wpc'[v] \in Erasing \cup {"use", "insert"} =>
            /\ v # w /\ wpc'[v] = wpc[v] /\ body'[v] = body[v]
            /\ met[body[v].name] \subseteq met'[body[v].name]
    <2> SUFFICES ASSUME NEW v \in Workers, wpc'[v] \in Erasing \cup {"use", "insert"}
                 PROVE  /\ v # w /\ wpc'[v] = wpc[v] /\ body'[v] = body[v]
                        /\ met[body[v].name] \subseteq met'[body[v].name]
      OBVIOUS
    <2>1. v # w
      BY <1>1 DEF Takes, Erasing
    <2>2. wpc'[v] = wpc[v] /\ body'[v] = body[v]
      BY <1>1, <2>1 DEF Takes
    <2>3. body[v].name \in Names
      BY <2>2 DEF Safe, Points, Erasing
    <2>4. ~Free(body[v].name)
      BY DEF Free, Busy
    <2> QED
      BY <1>1, <2>1, <2>2, <2>3, <2>4 DEF Takes
  <1>3. m_channelList' = m_channelList /\ dangling' = dangling
    BY <1>1 DEF Takes, registries
  <1>4. \A n : Good(n)' <=> Good(n)
    BY <1>3 DEF Good
  <1>5. Held => Held'
    BY <1>1, <1>3, <1>4 DEF Held, At, Takes
  <1>6. Found => Found'
    BY <1>2, <1>3, <1>4 DEF Found, FoundBy
  <1>7. Missing => Missing'
    BY <1>2, <1>4 DEF Missing
  <1> QED
    BY <1>5, <1>6, <1>7

LEMMA HandleHeld ==
    ASSUME Safe, Held, NEW w \in Workers, Handle(w)
    PROVE  Held'
  <1> SUFFICES ASSUME NEW n \in DOMAIN m_channelList', ~Good(n)'
               PROVE  \E v \in Workers : At(v, n, {"reset", "erase"})'
    BY DEF Held
  <1>1. Quiet(w)
    BY HandleIsQuiet DEF Safe, TypeOK
  <1>2. CASE n # body[w].name
    <2>1. n \in DOMAIN m_channelList /\ ~Good(n)
      BY <1>2, SameElsewhere DEF Same, SameIn, Good
    <2> QED
      BY <1>1, <1>2, <2>1 DEF Held, At, Quiet
  <1>3. CASE n = body[w].name /\ UNCHANGED m_channelList
    <2>1. PICK v \in Workers : At(v, n, {"reset", "erase"})
      BY <1>3 DEF Held, Good
    <2>2. CASE v # w
      BY <1>1, <2>1, <2>2 DEF At, Quiet
    <2>3. CASE v = w
      <3>1. ResetChannel(w) \/ EraseChannel(w)
        BY <2>1, <2>3 DEF At, Handle, Add, ByName, Parse, PutChannelNode, PutPipelineNode,
           PutTaskNode, FindExisting, Insert, Find, Use, EraseChannelNode, ErasePipelineNode,
           EraseTaskNode, DeInitChannel, GetFind, GetRead
      <3>2. ResetChannel(w)
        BY <1>3, <3>1, EntrySteps
      <3> QED
        BY <1>1, <1>3, <3>2, EntrySteps DEF At, Quiet
    <2> QED
      BY <2>2, <2>3
  <1>4. CASE n = body[w].name /\ ~UNCHANGED m_channelList
    <2>1. (DeInitChannel(w) /\ ~undefined') \/ ResetChannel(w)
      BY <1>4, ListSteps, EntrySteps
    <2> QED
      BY <1>1, <1>4, <2>1, EntrySteps DEF At, Quiet
  <1> QED
    BY <1>2, <1>3, <1>4

\* Another worker's step leaves what v has found, or it is a delete of the name.
LEMMA OtherFound ==
    ASSUME Safe, Found, NEW w \in Workers, Handle(w), NEW v \in Workers \ {w}
    PROVE  FoundBy(v)'
  <1> PICK n : n = body[v].name
    OBVIOUS
  <1>1. Quiet(w)
    BY HandleIsQuiet DEF Safe, TypeOK
  <1>2. wpc'[v] = wpc[v] /\ body'[v] = body[v] /\ met' = met /\ FoundBy(v)
    BY <1>1 DEF Quiet, Found
  <1>3. CASE body[v].name # body[w].name
    <2>1. /\ n \in DOMAIN m_channelList => n \in DOMAIN m_channelList'
          /\ Good(n) => Good(n)'
      BY <1>3, SameElsewhere DEF Same, SameIn, Good
    <2>2. v \in dangling' => v \in dangling
      BY <1>3, ListSteps DEF EraseChannel
    <2> QED
      BY <1>2, <2>1, <2>2 DEF FoundBy
  <1>4. CASE body[v].name = body[w].name /\ wpc[w] \in Erasing
    BY <1>2, <1>4, DeleteMeets DEF FoundBy
  <1>5. CASE body[v].name = body[w].name /\ wpc[w] \notin Erasing
    <2>1. UNCHANGED <<m_channelList, dangling>> \/ (Insert(w) /\ UNCHANGED dangling)
      BY <1>5, ListSteps DEF DeInitChannel, ResetChannel, EraseChannel, Erasing
    <2>2. CASE UNCHANGED <<m_channelList, dangling>>
      BY <1>2, <2>2 DEF FoundBy, Good
    <2>3. CASE Insert(w) /\ UNCHANGED dangling
      <3>1. Good(n)'
        BY <1>5, <2>3, EntrySteps
      <3> QED
        BY <1>2, <2>3, <3>1 DEF FoundBy, Good
    <2> QED
      BY <2>1, <2>2, <2>3
  <1> QED
    BY <1>3, <1>4, <1>5

LEMMA OwnFound ==
    ASSUME Safe, Held, Found, NEW w \in Workers, Handle(w)
    PROVE  FoundBy(w)'
  <1>1. Quiet(w) /\ FoundBy(w)
    BY HandleIsQuiet DEF Safe, TypeOK, Found
  <1>2. HandlersTyped
    BY DEF Safe, TypeOK
  <1>3. CASE Find(w)
    <2> SUFFICES ASSUME wpc'[w] \in Erasing \cup {"use"} PROVE FoundBy(w)'
      BY DEF FoundBy
    <2>1. body'[w] = body[w] /\ met' = met
      BY <1>1 DEF Quiet, Erasing
    <2>2. body[w].name \in DOMAIN m_channelList /\ wpc[w] = "find" /\ w \notin dangling
      BY <1>2, <1>3 DEF Find, Answer, Leave, HandlersTyped, Safe, Points, Erasing
    <2>3. m_channelList' = m_channelList /\ dangling' = dangling
      BY <1>3 DEF Find, Goto, Answer, registries
    <2>4. CASE Good(body[w].name)
      BY <2>1, <2>2, <2>3, <2>4 DEF FoundBy, Good
    <2>5. CASE ~Good(body[w].name)
      <3>1. PICK u \in Workers : At(u, body[w].name, {"reset", "erase"})
        BY <2>2, <2>5 DEF Held
      <3>2. DeleteAndUse \cap met[body[w].name] # {}
        BY <2>2, <3>1, DeleteMeets DEF At, Erasing
      <3> QED
        BY <2>1, <3>2 DEF FoundBy
    <2> QED
      BY <2>4, <2>5
  <1>4. CASE Use(w)
    <2>1. wpc'[w] \notin Erasing /\ UNCHANGED <<m_channelList, dangling>>
      BY <1>2, <1>4 DEF Use, Answer, Leave, ReachUndefined, HandlersTyped, Erasing, registries
    <2> QED
      BY <1>1, <1>4, <2>1 DEF FoundBy, Quiet, Good, Use
  <1>5. CASE EraseChannelNode(w) \/ ErasePipelineNode(w) \/ EraseTaskNode(w)
    <2>1. wpc[w] \in Erasing /\ wpc'[w] \in Erasing /\ m_channelList' = m_channelList
      BY <1>2, <1>5 DEF EraseChannelNode, ErasePipelineNode, EraseTaskNode, Goto, HandlersTyped,
         Erasing, registries
    <2> QED
      BY <1>1, <2>1 DEF FoundBy, Quiet, Erasing
  <1>6. CASE DeInitChannel(w)
    <2>1. CASE undefined'
      <3>1. wpc'[w] = wpc[w] /\ wpc[w] = "deInit" /\ m_channelList' = m_channelList
        BY <1>6, <2>1 DEF DeInitChannel, Goto, ReachUndefined
      <3> QED
        BY <1>1, <3>1 DEF FoundBy, Quiet, Erasing
    <2>2. CASE ~undefined'
      BY <1>1, <1>6, <2>2, EntrySteps DEF FoundBy, Quiet
    <2> QED
      BY <2>1, <2>2
  <1>7. CASE ResetChannel(w)
    BY <1>1, <1>7, EntrySteps DEF FoundBy, Quiet
  <1>8. CASE EraseChannel(w)
    BY <1>8, EntrySteps DEF FoundBy, Erasing
  <1>9. CASE Add(w) \/ GetFind(w) \/ GetRead(w)
    <2>1. wpc'[w] \notin Erasing \cup {"use"}
      BY <1>2, <1>9 DEF Add, Parse, PutChannelNode, PutPipelineNode, PutTaskNode, FindExisting, Insert,
         GetFind, GetRead, Goto, Answer, Leave, HandlersTyped, Erasing
    <2> QED
      BY <2>1 DEF FoundBy
  <1> QED
    BY <1>3, <1>4, <1>5, <1>6, <1>7, <1>8, <1>9 DEF Handle, ByName

LEMMA HandleFound ==
    ASSUME Safe, Held, Found, NEW w \in Workers, Handle(w)
    PROVE  Found'
  BY OtherFound, OwnFound DEF Found

LEMMA HandleMissing ==
    ASSUME Safe, Missing, NEW w \in Workers, Handle(w)
    PROVE  Missing'
  <1> SUFFICES ASSUME NEW v \in Workers, wpc'[v] = "insert", NEW n, n = body'[v].name, Good(n)'
               PROVE  TwoAdds \in met'[n]
    BY DEF Missing, Good
  <1>1. Quiet(w) /\ HandlersTyped
    BY HandleIsQuiet DEF Safe, TypeOK
  <1>2. met' = met /\ n = body[v].name
    BY <1>1 DEF Quiet
  <1>3. CASE v = w
    <2>1. FindExisting(w)
      BY <1>1, <1>3 DEF Handle, Add, ByName, Parse, PutChannelNode, PutPipelineNode, PutTaskNode,
         Insert, Find, Use, EraseChannelNode, ErasePipelineNode, EraseTaskNode, DeInitChannel,
         ResetChannel, EraseChannel, GetFind, GetRead, Goto, Answer, Leave, ReachUndefined,
         HandlersTyped
    <2> QED
      BY <1>1, <1>2, <1>3, <2>1
         DEF FindExisting, Answer, Leave, HandlersTyped, registries, Good
  <1>4. CASE v # w
    <2>1. wpc[v] = "insert"
      BY <1>1, <1>4 DEF Quiet
    <2>2. CASE Good(n)
      BY <1>2, <2>1, <2>2 DEF Missing
    <2>3. CASE ~Good(n)
      <3>1. n = body[w].name
        BY <1>2, <2>3, SameElsewhere DEF Same, SameIn, Good
      <3>2. Insert(w)
        BY <1>2, <2>3, <3>1, ListSteps, EntrySteps DEF Good
      <3>3. {op[v], op[w]} = TwoAdds /\ wpc[w] # "idle"
        BY <2>1, <3>2 DEF TwoAdds, Safe, Points, Parsed, Insert
      <3> QED
        BY <1>2, <1>4, <2>1, <3>1, <3>3 DEF Safe, Pairs, Disturbing
    <2> QED
      BY <2>2, <2>3
  <1> QED
    BY <1>3, <1>4

\* Only a step through an entry or a pointer that is gone reaches undefined
\* behaviour, and after it nothing happens.
LEMMA StepUndefined ==
    ASSUME Safe, Held, Found, UndefinedOnlyInDelete, [Next]_vars
    PROVE  UndefinedOnlyInDelete'
  <1>1. ASSUME NEW w \in Workers, Received(w)
        PROVE  UndefinedOnlyInDelete'
    BY <1>1 DEF Received, ReceiveAdd, ReceiveByName, ReceiveGet, Receive, UndefinedOnlyInDelete
  <1>2. ASSUME NEW w \in Workers, Handle(w), undefined'
        PROVE  UndefinedOnlyInDelete'
    <2>1. Use(w) \/ DeInitChannel(w)
      BY <1>2 DEF Handle, Add, ByName, Parse, PutChannelNode, PutPipelineNode, PutTaskNode,
         FindExisting, Insert, Find, EraseChannelNode, ErasePipelineNode, EraseTaskNode,
         ResetChannel, EraseChannel, GetFind, GetRead, Goto, Answer, Leave
    <2>2. met' = met /\ body[w].name \in Names /\ FoundBy(w)
      BY <1>2, <2>1, HandleIsQuiet DEF Use, DeInitChannel, Quiet, Safe, TypeOK, Points, Found
    <2>3. DeleteAndUse \cap met[body[w].name] # {}
      <3>1. CASE Use(w)
        BY <1>2, <2>2, <3>1 DEF Use, Answer, Leave, FoundBy
      <3>2. CASE DeInitChannel(w) /\ body[w].name \notin DOMAIN m_channelList
        BY <2>2, <3>2 DEF DeInitChannel, FoundBy, Erasing
      <3>3. CASE DeInitChannel(w) /\ body[w].name \in DOMAIN m_channelList
        <4>1. ~Good(body[w].name) /\ wpc[w] = "deInit"
          BY <1>2, <3>3 DEF DeInitChannel, Goto, Good
        <4>2. PICK u \in Workers : At(u, body[w].name, {"reset", "erase"})
          BY <3>3, <4>1 DEF Held
        <4> QED
          BY <4>1, <4>2, DeleteMeets DEF At, Erasing
      <3> QED
        BY <2>1, <3>1, <3>2, <3>3
    <2> QED
      BY <2>2, <2>3 DEF UndefinedOnlyInDelete
  <1>3. CASE UNCHANGED vars
    BY <1>3 DEF vars, handlers, UndefinedOnlyInDelete
  <1> QED
    BY <1>1, <1>2, <1>3, NextCases DEF UndefinedOnlyInDelete

\* For any number of workers and names, a handler uses a channel that is released
\* or an entry that is gone, put back under its name or not, only if a delete
\* overlaps with another delete, a start or a stop of it.
THEOREM UndefinedIsDelete == Spec => []UndefinedOnlyInDelete
  <1> DEFINE Inv == Safe /\ Held /\ Found /\ UndefinedOnlyInDelete
  <1>1. Init => Inv
    <2> SUFFICES ASSUME Init PROVE Held /\ Found /\ UndefinedOnlyInDelete
      BY InitSafe
    <2> QED
      BY DEF Init, Nothing, Held, Found, FoundBy, UndefinedOnlyInDelete, Erasing
  <1>2. Inv /\ [Next]_vars => Inv'
    <2> SUFFICES ASSUME Inv, [Next]_vars PROVE Inv'
      OBVIOUS
    <2>1. CASE UNCHANGED vars
      <3>1. Held' /\ Found'
        BY <2>1 DEF vars, registries, handlers, Held, Found, FoundBy, Good, At
      <3> QED
        BY <2>1, <3>1, StutterSafe, StepUndefined
    <2>2. ASSUME NEW w \in Workers, Received(w)
          PROVE  Held' /\ Found'
      BY <2>2, ReceivedFound
    <2>3. ASSUME NEW w \in Workers, Handle(w)
          PROVE  Held' /\ Found'
      BY <2>3, HandleHeld, HandleFound
    <2> QED
      BY <2>1, <2>2, <2>3, StepSafe, StepUndefined, NextCases
  <1>3. Inv => UndefinedOnlyInDelete
    OBVIOUS
  <1> QED
    BY <1>1, <1>2, <1>3, PTL DEF Spec

\* For any number of workers and names, an add replaces a channel only if it
\* overlaps with another add of its name.
THEOREM ChannelKept == Spec => ExistingChannelIsKept
  <1> DEFINE Inv == Safe /\ Missing
             Kept == \A n \in DOMAIN m_channelList :
                        \/ Good(n) /\ Good(n)' => m_channelList'[n] = m_channelList[n]
                        \/ TwoAdds \in met[n]
  <1>1. Init => Inv
    BY InitSafe DEF Init, Missing
  <1>2. Inv /\ [Next]_vars => Inv'
    BY ReceivedFound, HandleMissing, StepSafe, NextCases, StutterSafe
       DEF vars, registries, handlers, Missing, Good
  <1>3. Inv /\ [Next]_vars => [Kept]_vars
    <2> SUFFICES ASSUME Inv, Next PROVE Kept
      OBVIOUS
    <2>1. ASSUME NEW w \in Workers, Received(w)
          PROVE  Kept
      BY <2>1, ReceivedTakes DEF Takes, registries, Safe
    <2>2. ASSUME NEW w \in Workers, Handle(w), NEW n \in DOMAIN m_channelList, Good(n), Good(n)'
          PROVE  \/ m_channelList'[n] = m_channelList[n]
                 \/ TwoAdds \in met[n]
      <3>1. CASE n # body[w].name
        BY <2>2, <3>1, SameElsewhere DEF Same, SameIn
      <3>2. CASE n = body[w].name /\ Insert(w)
        BY <2>2, <3>2 DEF Missing, Insert
      <3>3. CASE n = body[w].name /\ ~Insert(w)
        BY <2>2, <3>3, ListSteps, EntrySteps DEF Good
      <3> QED
        BY <3>1, <3>2, <3>3
    <2> QED
      BY <2>1, <2>2, NextCases
  <1> QED
    BY <1>1, <1>2, <1>3, PTL DEF Spec, ExistingChannelIsKept
-----------------------------------------------------------------------------
(* The configurations of channels: Told *)

LEMMA AddIsAlone ==
    ASSUME Safe, NEW n \in Names, Clean(n), NEW w \in Workers, At(w, n, Parsed \cup {"parse"})
    PROVE  \A v \in Workers : v = w \/ ~At(v, n, Parsed \cup Erasing)
  <1> SUFFICES ASSUME NEW v \in Workers, v # w, At(v, n, Parsed \cup Erasing)
               PROVE  FALSE
    OBVIOUS
  <1>1. /\ wpc[v] # "idle" /\ wpc[w] # "idle" /\ body[v].name = n /\ body[w].name = n
        /\ op[w] = "add" /\ op[v] \in {"add", "delete"}
    BY DEF At, Safe, Points, Parsed, Erasing
  <1>2. {op[v], op[w]} \in {TwoAdds, AddAndDelete}
    BY <1>1, Swap DEF TwoAdds, AddAndDelete
  <1>3. {op[v], op[w]} \in met[n]
    BY <1>1, <1>2 DEF Safe, Pairs, Disturbing
  <1> QED
    BY <1>2, <1>3 DEF Clean

LEMMA DeleteIsAlone ==
    ASSUME Safe, NEW n \in Names, NoDelete(n), NEW w \in Workers, At(w, n, Erasing)
    PROVE  \A v \in Workers : ~At(v, n, Parsed \cup {"parse"})
  <1> SUFFICES ASSUME NEW v \in Workers, At(v, n, Parsed \cup {"parse"})
               PROVE  FALSE
    OBVIOUS
  <1>1. /\ v # w
        /\ wpc[v] # "idle" /\ wpc[w] # "idle" /\ body[v].name = n /\ body[w].name = n
        /\ op[w] = "delete" /\ op[v] = "add"
    BY DEF At, Safe, Points, Parsed, Erasing
  <1>2. {op[v], op[w]} = AddAndDelete
    BY <1>1, Swap DEF AddAndDelete
  <1>3. {op[v], op[w]} \in met[n]
    BY <1>1, <1>2 DEF Safe, Pairs, Disturbing
  <1> QED
    BY <1>2, <1>3 DEF NoDelete

\* A step on another name.
LEMMA AtElsewhere ==
    ASSUME NEW w \in Workers, Quiet(w), NEW n, n # body[w].name, NEW v \in Workers, NEW points,
           "idle" \notin points
    PROVE  At(v, n, points)' <=> At(v, n, points)
  BY DEF At, Quiet

LEMMA ToldElsewhere ==
    ASSUME NEW w \in Workers, Quiet(w), NEW n, n # body[w].name, Same(n), ToldAt(n)
    PROVE  ToldAt(n)'
  <1>1. \A v \in Workers :
            /\ At(v, n, Emptied)' <=> At(v, n, Emptied)
            /\ At(v, n, Parsed)' <=> At(v, n, Parsed)
            /\ At(v, n, Parsed \ {"putChannelNode"})' <=> At(v, n, Parsed \ {"putChannelNode"})
            /\ At(v, n, {"putTaskNode", "findExisting", "insert"})'
                 <=> At(v, n, {"putTaskNode", "findExisting", "insert"})
            /\ At(v, n, {"findExisting", "insert"})' <=> At(v, n, {"findExisting", "insert"})
    BY AtElsewhere DEF Emptied, Erasing, Parsed, At, Quiet
  <1>2. \A v \in Workers : At(v, n, Parsed) => body'[v] = body[v]
    BY DEF At, Quiet
  <1>3. Clean(n)' <=> Clean(n)
    BY DEF Quiet, Clean
  <1> QED
    BY <1>1, <1>2, <1>3 DEF ToldAt, Same, SameIn, Configured, Entry, At, Parsed

LEMMA ReceivedTold ==
    ASSUME Safe, NEW w \in Workers, Received(w), NEW n \in Names, ToldAt(n)
    PROVE  ToldAt(n)'
  <1>1. Takes(w)
    BY ReceivedTakes DEF Safe
  <1>2. \A v \in Workers :
            /\ At(v, n, Emptied)' <=> At(v, n, Emptied)
            /\ At(v, n, Parsed)' <=> At(v, n, Parsed)
            /\ At(v, n, Parsed \ {"putChannelNode"})' <=> At(v, n, Parsed \ {"putChannelNode"})
            /\ At(v, n, {"putTaskNode", "findExisting", "insert"})'
                 <=> At(v, n, {"putTaskNode", "findExisting", "insert"})
            /\ At(v, n, {"findExisting", "insert"})' <=> At(v, n, {"findExisting", "insert"})
    BY <1>1 DEF Takes, At, Emptied, Erasing, Parsed
  <1>3. \A v \in Workers : At(v, n, Parsed) => body'[v] = body[v]
    BY <1>1 DEF Takes, At, Parsed
  <1>4. UNCHANGED <<m_channelList, m_channelConfigNodes, m_pipelineConfigNodes, m_taskConfigNodes>>
    BY <1>1 DEF Takes, registries
  <1>5. CASE Free(n)
    <2>1. n \notin DOMAIN m_channelList /\ \A v \in Workers : ~At(v, n, Parsed)
      BY <1>5 DEF Free, Busy, At
    <2> QED
      BY <1>2, <1>4, <2>1 DEF ToldAt, At, Parsed
  <1>6. CASE ~Free(n)
    <2>1. Clean(n)' => Clean(n)
      BY <1>1, <1>6 DEF Takes, Clean
    <2> QED
      BY <1>2, <1>3, <1>4, <2>1 DEF ToldAt, Configured, Entry, At, Parsed
  <1> QED
    BY <1>5, <1>6

\* A step of an add on its own name.
LEMMA AddTold ==
    ASSUME Safe, NEW w \in Workers, Add(w), Quiet(w), NEW n \in Names, n = body[w].name, ToldAt(n)
    PROVE  ToldAt(n)'
  <1> SUFFICES ASSUME Clean(n)' PROVE ToldAt(n)'
    BY DEF ToldAt
  <1>1. Clean(n)
    BY DEF Clean, Quiet
  <1>2. At(w, n, Parsed \cup {"parse"})
    BY DEF Add, Parse, PutChannelNode, PutPipelineNode, PutTaskNode, FindExisting, Insert, At, Parsed
  <1>3. \A v \in Workers : v # w => ~At(v, n, Parsed \cup Erasing)
    BY <1>1, <1>2, AddIsAlone
  <1>4. \A v \in Workers : v # w => ~(wpc'[v] \in Parsed \cup Erasing /\ body'[v].name = n)
    BY <1>3 DEF Quiet, At
  <1>5. \A v \in Workers : ~At(v, n, Emptied)
    BY <1>2, <1>3 DEF At, Emptied, Erasing, Parsed
  <1>6. wpc'[w] # "idle" => body'[w] = body[w]
    BY DEF Quiet
  <1> USE DEF HandlersTyped, Goto, Answer, Leave
  <1>7. HandlersTyped
    BY DEF Safe, TypeOK
  <1>8. CASE Parse(w)
    <2>1. wpc'[w] \in {"idle", "putChannelNode"} /\ (wpc'[w] # "idle" => n \notin DOMAIN m_channelConfigNodes)
      BY <1>7, <1>8 DEF Parse
    <2>2. wpc'[w] # "idle" => n \notin DOMAIN m_channelList
      BY <1>1, <1>5, <2>1 DEF ToldAt, Configured
    <2> QED
      BY <1>1, <1>4, <1>5, <1>8, <2>1, <2>2
         DEF Parse, registries, ToldAt, Configured, Entry, At, Parsed, Emptied
  <1>9. CASE PutChannelNode(w)
    <2>1. wpc'[w] = "putPipelineNode" /\ n \notin DOMAIN m_channelList
      BY <1>1, <1>2, <1>7, <1>9 DEF PutChannelNode, ToldAt, At, Parsed
    <2>2. Entry(m_channelConfigNodes', n, body'[w])
      BY <1>6, <1>9, <2>1 DEF PutChannelNode, Put, Entry
    <2> QED
      BY <1>4, <1>9, <2>1, <2>2 DEF PutChannelNode, ToldAt, At, Parsed
  <1>10. CASE PutPipelineNode(w)
    <2>1. wpc'[w] = "putTaskNode" /\ n \notin DOMAIN m_channelList
      BY <1>1, <1>2, <1>7, <1>10 DEF PutPipelineNode, ToldAt, At, Parsed
    <2>2. Entry(m_pipelineConfigNodes', n, body'[w])
      BY <1>6, <1>10, <2>1 DEF PutPipelineNode, Put, Entry
    <2>3. Entry(m_channelConfigNodes', n, body'[w])
      BY <1>1, <1>2, <1>6, <1>10, <2>1 DEF PutPipelineNode, ToldAt, At, Parsed
    <2> QED
      BY <1>4, <1>10, <2>1, <2>2, <2>3 DEF PutPipelineNode, ToldAt, At, Parsed
  <1>11. CASE PutTaskNode(w)
    <2>1. wpc'[w] = "findExisting" /\ n \notin DOMAIN m_channelList
      BY <1>1, <1>2, <1>7, <1>11 DEF PutTaskNode, ToldAt, At, Parsed
    <2>2. Entry(m_taskConfigNodes', n, body'[w])
      BY <1>6, <1>11, <2>1 DEF PutTaskNode, Put, Entry
    <2>3. Entry(m_channelConfigNodes', n, body'[w]) /\ Entry(m_pipelineConfigNodes', n, body'[w])
      BY <1>1, <1>2, <1>6, <1>11, <2>1 DEF PutTaskNode, ToldAt, At, Parsed
    <2> QED
      BY <1>4, <1>11, <2>1, <2>2, <2>3 DEF PutTaskNode, ToldAt, At, Parsed
  <1>12. CASE FindExisting(w)
    <2>1. wpc'[w] \in {"idle", "insert"} /\ n \notin DOMAIN m_channelList
      BY <1>1, <1>2, <1>7, <1>12 DEF FindExisting, ToldAt, At, Parsed
    <2>2. wpc'[w] # "idle" =>
             /\ Entry(m_channelConfigNodes', n, body'[w])
             /\ Entry(m_pipelineConfigNodes', n, body'[w])
             /\ Entry(m_taskConfigNodes', n, body'[w])
      BY <1>1, <1>2, <1>6, <1>12 DEF FindExisting, registries, ToldAt, At, Parsed
    <2> QED
      BY <1>4, <1>12, <2>1, <2>2 DEF FindExisting, registries, ToldAt, At, Parsed
  <1>13. CASE Insert(w)
    <2>1. wpc'[w] = "idle"
      BY <1>7, <1>13 DEF Insert
    <2>2. /\ Entry(m_channelConfigNodes, n, body[w])
          /\ Entry(m_pipelineConfigNodes, n, body[w])
          /\ Entry(m_taskConfigNodes, n, body[w])
      BY <1>1, <1>2, <1>13 DEF Insert, ToldAt, At, Parsed
    <2>3. m_channelList'[n] = body[w]
      BY <1>13 DEF Insert, Put
    <2>4. Configured(n, m_channelConfigNodes)' /\ Configured(n, m_pipelineConfigNodes)'
          /\ Configured(n, m_taskConfigNodes)'
      BY <1>13, <2>2, <2>3 DEF Insert, Entry, Configured
    <2> QED
      BY <1>4, <2>1, <2>4 DEF ToldAt, At, Parsed
  <1> QED
    BY <1>8, <1>9, <1>10, <1>11, <1>12, <1>13 DEF Add

\* A step of a delete on its own name.
LEMMA DeleteTold ==
    ASSUME Safe, NEW w \in Workers, Quiet(w), NEW n \in Names, n = body[w].name, ToldAt(n),
           \/ EraseChannelNode(w) \/ ErasePipelineNode(w) \/ EraseTaskNode(w)
           \/ DeInitChannel(w) \/ ResetChannel(w) \/ EraseChannel(w)
    PROVE  ToldAt(n)'
  <1> SUFFICES ASSUME Clean(n)' PROVE ToldAt(n)'
    BY DEF ToldAt
  <1>1. Clean(n) /\ NoDelete(n)
    BY DEF Clean, NoDelete, Quiet
  <1>2. At(w, n, Erasing)
    BY DEF EraseChannelNode, ErasePipelineNode, EraseTaskNode, DeInitChannel, ResetChannel, EraseChannel, At, Erasing
  <1>3. \A v \in Workers : ~At(v, n, Parsed)
    BY <1>1, <1>2, DeleteIsAlone DEF At
  <1> USE DEF HandlersTyped, Goto, Answer, Leave, ReachUndefined
  <1>4. HandlersTyped
    BY DEF Safe, TypeOK
  <1>5. wpc'[w] \notin Parsed
    BY <1>4 DEF EraseChannelNode, ErasePipelineNode, EraseTaskNode, DeInitChannel, ResetChannel, EraseChannel, Parsed
  <1>6. \A v \in Workers : ~(wpc'[v] \in Parsed /\ body'[v].name = n)
    BY <1>3, <1>5 DEF Quiet, At
  <1>7. CASE EraseChannelNode(w) \/ ErasePipelineNode(w) \/ EraseTaskNode(w)
    <2>1. At(w, n, Emptied)'
      BY <1>4, <1>7 DEF EraseChannelNode, ErasePipelineNode, EraseTaskNode, At, Emptied, Erasing
    <2> QED
      BY <1>6, <2>1 DEF ToldAt, At, Parsed
  <1>8. CASE DeInitChannel(w) \/ ResetChannel(w)
    <2>1. At(w, n, Emptied)'
      BY <1>4, <1>8 DEF DeInitChannel, ResetChannel, Quiet, At, Emptied, Erasing
    <2> QED
      BY <1>6, <2>1 DEF ToldAt, At, Parsed
  <1>9. CASE EraseChannel(w)
    <2>1. n \notin DOMAIN m_channelList'
      BY <1>9 DEF EraseChannel, Erase, Restrict
    <2> QED
      BY <1>6, <2>1 DEF ToldAt, At, Parsed
  <1> QED
    BY <1>7, <1>8, <1>9

\* A step of another handler on its own name.
LEMMA OtherTold ==
    ASSUME Safe, NEW w \in Workers, Quiet(w), NEW n \in Names, n = body[w].name, ToldAt(n),
           Find(w) \/ Use(w) \/ GetFind(w) \/ GetRead(w)
    PROVE  ToldAt(n)'
  <1> SUFFICES ASSUME Clean(n)' PROVE ToldAt(n)'
    BY DEF ToldAt
  <1>1. Clean(n)
    BY DEF Clean, Quiet
  <1> USE DEF HandlersTyped, Goto, Answer, Leave, ReachUndefined
  <1>2. HandlersTyped
    BY DEF Safe, TypeOK
  <1>3. wpc'[w] \notin Parsed \cup Emptied /\ wpc[w] \notin Parsed \cup Emptied
    BY <1>2 DEF Find, Use, GetFind, GetRead, Parsed, Emptied, Erasing
  <1>4. \A v \in Workers :
            /\ At(v, n, Emptied)' <=> At(v, n, Emptied)
            /\ At(v, n, Parsed)' <=> At(v, n, Parsed)
            /\ At(v, n, Parsed) => v # w /\ wpc'[v] = wpc[v] /\ body'[v] = body[v]
    BY <1>3 DEF Quiet, At
  <1>5. CASE UNCHANGED <<m_channelList, m_channelConfigNodes, m_pipelineConfigNodes, m_taskConfigNodes>>
    BY <1>1, <1>4, <1>5 DEF ToldAt, At, Entry, Configured, Parsed
  <1>6. CASE GetRead(w) /\ n \notin DOMAIN m_channelConfigNodes
    <2>1. n \in DOMAIN m_channelList => \E v \in Workers : At(v, n, Emptied)'
      BY <1>1, <1>4, <1>6 DEF ToldAt, Configured
    <2>2. UNCHANGED <<m_channelList, m_pipelineConfigNodes, m_taskConfigNodes>>
      BY <1>6 DEF GetRead
    <2>3. \A v \in Workers : ~At(v, n, Parsed \ {"putChannelNode"})
      BY <1>1, <1>6 DEF ToldAt, Entry
    <2> QED
      BY <1>1, <1>4, <2>1, <2>2, <2>3 DEF ToldAt, At, Parsed
  <1> QED
    BY <1>5, <1>6 DEF Find, Use, GetFind, GetRead, registries

LEMMA HandleTold ==
    ASSUME Safe, NEW w \in Workers, Handle(w), NEW n \in Names, ToldAt(n)
    PROVE  ToldAt(n)'
  <1>1. Quiet(w)
    BY HandleIsQuiet DEF Safe, TypeOK
  <1>2. CASE n # body[w].name
    BY <1>1, <1>2, SameElsewhere, ToldElsewhere
  <1>3. CASE n = body[w].name
    BY <1>1, <1>3, AddTold, DeleteTold, OtherTold DEF Handle, ByName
  <1> QED
    BY <1>2, <1>3

\* For any number of workers and names, the three configurations of a channel
\* are the one it was built from, unless requests on its name overlap.
THEOREM ConfigurationTold == Spec => []ConfigTellsChannel
  <1> DEFINE Inv == Safe /\ Told
  <1>1. Init => Inv
    <2> SUFFICES ASSUME Init PROVE Told
      BY InitSafe
    <2> QED
      BY DEF Init, Nothing, Told, ToldAt, At, Parsed
  <1>2. Inv /\ [Next]_vars => Inv'
    <2> SUFFICES ASSUME Inv, [Next]_vars PROVE Told'
      BY StepSafe
    <2>1. CASE UNCHANGED vars
      BY <2>1 DEF vars, registries, handlers, Told, ToldAt, At, Clean, Configured, Entry
    <2>2. CASE Next
      BY <2>2, NextCases, ReceivedTold, HandleTold DEF Told
    <2> QED
      BY <2>1, <2>2
  <1>3. Inv => ConfigTellsChannel
    <2> SUFFICES ASSUME Inv, NEW n \in DOMAIN m_channelList, ~Busy(n), Clean(n)
                 PROVE  /\ Configured(n, m_channelConfigNodes)
                        /\ Configured(n, m_pipelineConfigNodes)
                        /\ Configured(n, m_taskConfigNodes)
      BY DEF ConfigTellsChannel, Clean
    <2>1. n \in Names
      BY DEF Safe, TypeOK, MapsTyped, Holds
    <2>2. \A v \in Workers : ~At(v, n, Emptied)
      BY DEF Busy, At
    <2> QED
      BY <2>1, <2>2 DEF Told, ToldAt
  <1> QED
    BY <1>1, <1>2, <1>3, PTL DEF Spec
-----------------------------------------------------------------------------
(* What is left of a name that is no channel: Orphaned *)

LEMMA OrphanedElsewhere ==
    ASSUME NEW w \in Workers, Quiet(w), NEW n, n # body[w].name, Same(n), OrphanedAt(n)
    PROVE  OrphanedAt(n)'
  <1>1. \A v \in Workers :
            /\ At(v, n, Parsed)' <=> At(v, n, Parsed)
            /\ At(v, n, Emptied)' <=> At(v, n, Emptied)
            /\ At(v, n, {"eraseTaskNode", "deInit", "reset", "erase"})' <=> At(v, n, {"eraseTaskNode", "deInit", "reset", "erase"})
            /\ At(v, n, {"deInit", "reset", "erase"})' <=> At(v, n, {"deInit", "reset", "erase"})
            /\ At(v, n, {"getRead"})' <=> At(v, n, {"getRead"})
    BY AtElsewhere DEF Emptied, Erasing, Parsed, At, Quiet
  <1>2. \A v \in Workers : At(v, n, Parsed) => body'[v] = body[v]
    BY DEF At, Quiet
  <1>3. Coming(n)' <=> Coming(n)
    BY <1>1, <1>2 DEF Coming
  <1>4. met' = met
    BY DEF Quiet
  <1>5. /\ Excused(n, m_channelConfigNodes)' <=> Excused(n, m_channelConfigNodes)
        /\ Excused(n, m_pipelineConfigNodes)' <=> Excused(n, m_pipelineConfigNodes)
        /\ Excused(n, m_taskConfigNodes)' <=> Excused(n, m_taskConfigNodes)
    BY <1>4 DEF Same, SameIn, Excused
  <1>6. /\ n \in DOMAIN m_channelList' <=> n \in DOMAIN m_channelList
        /\ n \in DOMAIN m_channelConfigNodes' <=> n \in DOMAIN m_channelConfigNodes
        /\ n \in DOMAIN m_pipelineConfigNodes' <=> n \in DOMAIN m_pipelineConfigNodes
        /\ n \in DOMAIN m_taskConfigNodes' <=> n \in DOMAIN m_taskConfigNodes
    BY DEF Same, SameIn
  <1> QED
    BY <1>1, <1>3, <1>4, <1>5, <1>6 DEF OrphanedAt, NoDelete

LEMMA ReceivedOrphaned ==
    ASSUME Safe, NEW w \in Workers, Received(w), NEW n \in Names, OrphanedAt(n)
    PROVE  OrphanedAt(n)'
  <1>1. Takes(w)
    BY ReceivedTakes DEF Safe
  <1>2. \A v \in Workers :
            /\ At(v, n, Parsed)' <=> At(v, n, Parsed)
            /\ At(v, n, Emptied)' <=> At(v, n, Emptied)
            /\ At(v, n, {"eraseTaskNode", "deInit", "reset", "erase"})' <=> At(v, n, {"eraseTaskNode", "deInit", "reset", "erase"})
            /\ At(v, n, {"deInit", "reset", "erase"})' <=> At(v, n, {"deInit", "reset", "erase"})
            /\ At(v, n, {"getRead"})' <=> At(v, n, {"getRead"})
    BY <1>1 DEF Takes, At, Emptied, Erasing, Parsed
  <1>3. \A v \in Workers : At(v, n, Parsed) => body'[v] = body[v]
    BY <1>1 DEF Takes, At, Parsed
  <1>4. Coming(n)' <=> Coming(n)
    BY <1>2, <1>3 DEF Coming
  <1>5. UNCHANGED <<m_channelList, m_channelConfigNodes, m_pipelineConfigNodes, m_taskConfigNodes>>
    BY <1>1 DEF Takes, registries
  <1>6. CASE Free(n)
    <2>1. /\ n \notin DOMAIN m_channelConfigNodes /\ n \notin DOMAIN m_pipelineConfigNodes
          /\ n \notin DOMAIN m_taskConfigNodes
          /\ \A v \in Workers : ~At(v, n, {"getRead"})
      BY <1>6 DEF Free, Busy, At
    <2> QED
      BY <1>2, <1>5, <2>1 DEF OrphanedAt, Excused
  <1>7. CASE ~Free(n)
    <2>1. met[n] \subseteq met'[n]
      BY <1>1, <1>7 DEF Takes
    <2>2. /\ Excused(n, m_channelConfigNodes) => Excused(n, m_channelConfigNodes)'
          /\ Excused(n, m_pipelineConfigNodes) => Excused(n, m_pipelineConfigNodes)'
          /\ Excused(n, m_taskConfigNodes) => Excused(n, m_taskConfigNodes)'
      BY <1>5, <2>1 DEF Excused
    <2> QED
      BY <1>2, <1>4, <1>5, <2>1, <2>2 DEF OrphanedAt, NoDelete
  <1> QED
    BY <1>6, <1>7

\* A step of an add on its own name.
LEMMA AddOrphaned ==
    ASSUME Safe, NEW w \in Workers, Add(w), Quiet(w), NEW n \in Names, n = body[w].name,
           OrphanedAt(n)
    PROVE  OrphanedAt(n)'
  <1> SUFFICES ASSUME NoDelete(n)' PROVE OrphanedAt(n)'
    BY DEF OrphanedAt
  <1>1. NoDelete(n) /\ met' = met
    BY DEF NoDelete, Quiet
  <1>2. At(w, n, Parsed \cup {"parse"})
    BY DEF Add, Parse, PutChannelNode, PutPipelineNode, PutTaskNode, FindExisting, Insert, At, Parsed
  <1>3. \A v \in Workers : ~At(v, n, Erasing)
    BY <1>1, <1>2, DeleteIsAlone
  <1>4. HandlersTyped /\ Points
    BY DEF Safe, TypeOK
  <1>5. wpc'[w] \in Parsed \cup {"idle"}
    BY <1>4 DEF HandlersTyped, Goto, Answer, Leave, Add, Parse, PutChannelNode, PutPipelineNode, PutTaskNode,
       FindExisting, Insert, Parsed
  <1>6. \A v \in Workers : ~At(v, n, Erasing)' /\ (At(v, n, {"getRead"})' => At(v, n, {"getRead"}))
    BY <1>3, <1>5 DEF Quiet, At, Erasing, Parsed
  <1>7. n \in DOMAIN m_channelConfigNodes => n \in DOMAIN m_channelConfigNodes'
    BY DEF Add, Parse, PutChannelNode, PutPipelineNode, PutTaskNode, FindExisting, Insert, Put,
       registries
  <1>8. ASSUME n \notin DOMAIN m_channelList', ~Coming(n)'
        PROVE  /\ Excused(n, m_channelConfigNodes)'
               /\ Excused(n, m_pipelineConfigNodes)'
               /\ Excused(n, m_taskConfigNodes)'
    <2>1. ~Insert(w)
      BY <1>8 DEF Insert, Put
    <2>2. m_channelList' = m_channelList
      BY <2>1 DEF Add, Parse, PutChannelNode, PutPipelineNode, PutTaskNode, FindExisting, registries
    <2>3. wpc'[w] # "idle" => body'[w] = body[w] /\ body[w].kind # "good"
      BY <1>5, <1>8 DEF Quiet, Coming, At, Parsed
    <2>4. wpc[w] # "parse" => body[w].kind = "unknown"
      <3>1. wpc[w] \in Parsed /\ wpc'[w] # "idle" => body[w].kind = "unknown"
        BY <1>4, <2>3 DEF Points
      <3>2. ASSUME FindExisting(w), wpc'[w] = "idle"
            PROVE  body[w].kind = "unknown"
        BY <1>4, <1>8, <2>2, <3>2 DEF FindExisting, Goto, HandlersTyped
      <3>3. wpc'[w] # "idle" \/ FindExisting(w) \/ Parse(w)
        BY <1>4, <2>1 DEF Add, PutChannelNode, PutPipelineNode, PutTaskNode, Goto, HandlersTyped
      <3> QED
        BY <1>2, <3>1, <3>2, <3>3 DEF At, Parse
    <2>5. ~Coming(n)
      <3> SUFFICES ASSUME NEW v \in Workers, At(v, n, Parsed), body[v].kind = "good"
                   PROVE  FALSE
        BY DEF Coming
      <3>1. v # w
        BY <2>4 DEF At, Parsed
      <3>2. At(v, n, Parsed)' /\ body'[v].kind = "good"
        BY <3>1 DEF Quiet, At
      <3> QED
        BY <1>8, <3>2 DEF Coming
    <2>6. /\ Excused(n, m_channelConfigNodes)
          /\ Excused(n, m_pipelineConfigNodes)
          /\ Excused(n, m_taskConfigNodes)
      BY <1>1, <1>8, <2>2, <2>5 DEF OrphanedAt
    <2>7. CASE PutChannelNode(w)
      <3>1. m_channelConfigNodes'[n].kind = "unknown"
        BY <2>4, <2>7 DEF PutChannelNode, Put
      <3> QED
        BY <1>1, <2>6, <2>7, <3>1 DEF PutChannelNode, Excused
    <2>8. CASE PutPipelineNode(w)
      <3>1. m_pipelineConfigNodes'[n].kind = "unknown"
        BY <2>4, <2>8 DEF PutPipelineNode, Put
      <3> QED
        BY <1>1, <2>6, <2>8, <3>1 DEF PutPipelineNode, Excused
    <2>9. CASE PutTaskNode(w)
      <3>1. m_taskConfigNodes'[n].kind = "unknown"
        BY <2>4, <2>9 DEF PutTaskNode, Put
      <3> QED
        BY <1>1, <2>6, <2>9, <3>1 DEF PutTaskNode, Excused
    <2>10. CASE Parse(w) \/ FindExisting(w)
      BY <1>1, <2>6, <2>10 DEF Parse, FindExisting, registries, Excused
    <2> QED
      BY <2>1, <2>7, <2>8, <2>9, <2>10 DEF Add
  <1>9. \A v \in Workers : At(v, n, {"getRead"})' =>
           n \in DOMAIN m_channelConfigNodes' \/ DeleteAndRead \in met'[n]
    BY <1>1, <1>6, <1>7 DEF OrphanedAt
  <1>10. \A v \in Workers : ~At(v, n, Emptied)' /\ ~At(v, n, {"eraseTaskNode", "deInit", "reset", "erase"})'
                            /\ ~At(v, n, {"deInit", "reset", "erase"})'
    BY <1>6 DEF At, Emptied, Erasing
  <1> QED
    BY <1>8, <1>9, <1>10 DEF OrphanedAt

\* A step of a delete on its own name.
LEMMA DeleteOrphaned ==
    ASSUME Safe, NEW w \in Workers, Quiet(w), NEW n \in Names, n = body[w].name, OrphanedAt(n),
           \/ EraseChannelNode(w) \/ ErasePipelineNode(w) \/ EraseTaskNode(w)
           \/ DeInitChannel(w) \/ ResetChannel(w) \/ EraseChannel(w)
    PROVE  OrphanedAt(n)'
  <1> SUFFICES ASSUME NoDelete(n)' PROVE OrphanedAt(n)'
    BY DEF OrphanedAt
  <1>1. NoDelete(n) /\ met' = met
    BY DEF NoDelete, Quiet
  <1>2. At(w, n, Erasing)
    BY DEF EraseChannelNode, ErasePipelineNode, EraseTaskNode, DeInitChannel, ResetChannel, EraseChannel, At, Erasing
  <1>3. ~Coming(n)
    BY <1>1, <1>2, DeleteIsAlone DEF Coming, At
  <1>4. HandlersTyped
    BY DEF Safe, TypeOK
  <1>5. \A v \in Workers : At(v, n, {"getRead"}) => DeleteAndRead \in met[n]
    <2> SUFFICES ASSUME NEW v \in Workers, At(v, n, {"getRead"})
                 PROVE  DeleteAndRead \in met[n]
      OBVIOUS
    <2>1. /\ v # w
          /\ wpc[v] # "idle" /\ wpc[w] # "idle" /\ body[v].name = n /\ body[w].name = n
          /\ op[w] = "delete" /\ op[v] = "getChannelConfig"
      BY <1>2 DEF At, Safe, Points, Erasing
    <2>2. {op[v], op[w]} = DeleteAndRead
      BY <2>1, Swap DEF DeleteAndRead
    <2> QED
      BY <2>1, <2>2 DEF Safe, Pairs, Disturbing
  <1>6. wpc'[w] # "getRead"
    BY <1>2, <1>4 DEF EraseChannelNode, ErasePipelineNode, EraseTaskNode, DeInitChannel, ResetChannel, EraseChannel, Goto, Answer, Leave,
       ReachUndefined, HandlersTyped, At, Erasing
  <1>7. \A v \in Workers : At(v, n, {"getRead"})' => DeleteAndRead \in met'[n]
    BY <1>1, <1>5, <1>6 DEF At, Quiet
  <1>8. \A points : \A v \in Workers : v # w => (At(v, n, points)' <=> At(v, n, points))
    BY DEF At, Quiet
  <1>9. CASE EraseChannelNode(w)
    <2>1. n \notin DOMAIN m_channelConfigNodes'
      BY <1>9 DEF EraseChannelNode, Erase, Restrict
    <2>2. UNCHANGED <<m_channelList, m_pipelineConfigNodes, m_taskConfigNodes>>
      BY <1>9 DEF EraseChannelNode
    <2>3. wpc'[w] = "erasePipelineNode"
      BY <1>4, <1>9 DEF EraseChannelNode, Goto, HandlersTyped
    <2> QED
      BY <1>1, <1>3, <1>7, <1>8, <2>1, <2>2, <2>3 DEF OrphanedAt, Excused, At
  <1>10. CASE ErasePipelineNode(w)
    <2>1. n \notin DOMAIN m_pipelineConfigNodes'
      BY <1>10 DEF ErasePipelineNode, Erase, Restrict
    <2>2. UNCHANGED <<m_channelList, m_channelConfigNodes, m_taskConfigNodes>>
      BY <1>10 DEF ErasePipelineNode
    <2>3. wpc'[w] = "eraseTaskNode" /\ wpc[w] \in Emptied
      BY <1>4, <1>10 DEF ErasePipelineNode, Goto, HandlersTyped, Emptied, Erasing
    <2>4. Excused(n, m_channelConfigNodes)
      BY <1>1, <2>3 DEF OrphanedAt, At
    <2> QED
      BY <1>1, <1>3, <1>7, <1>8, <2>1, <2>2, <2>3, <2>4 DEF OrphanedAt, Excused, At
  <1>11. CASE EraseTaskNode(w)
    <2>1. n \notin DOMAIN m_taskConfigNodes'
      BY <1>11 DEF EraseTaskNode, Erase, Restrict
    <2>2. UNCHANGED <<m_channelList, m_channelConfigNodes, m_pipelineConfigNodes>>
      BY <1>11 DEF EraseTaskNode
    <2>3. wpc'[w] = "deInit" /\ wpc[w] \in Emptied /\ wpc[w] \in {"eraseTaskNode", "deInit", "reset", "erase"}
      BY <1>4, <1>11 DEF EraseTaskNode, Goto, HandlersTyped, Emptied, Erasing
    <2>4. Excused(n, m_channelConfigNodes) /\ n \notin DOMAIN m_pipelineConfigNodes
      BY <1>1, <2>3 DEF OrphanedAt, At
    <2> QED
      BY <1>1, <1>3, <1>7, <1>8, <2>1, <2>2, <2>3, <2>4 DEF OrphanedAt, Excused, At
  <1>12. CASE DeInitChannel(w) \/ ResetChannel(w) \/ EraseChannel(w)
    <2>1. UNCHANGED <<m_channelConfigNodes, m_pipelineConfigNodes, m_taskConfigNodes>>
      BY <1>12 DEF DeInitChannel, ResetChannel, EraseChannel
    <2>2. wpc[w] \in Emptied /\ wpc[w] \in {"deInit", "reset", "erase"}
      BY <1>12 DEF DeInitChannel, ResetChannel, EraseChannel, Emptied, Erasing
    <2>3. /\ Excused(n, m_channelConfigNodes)
          /\ n \notin DOMAIN m_pipelineConfigNodes /\ n \notin DOMAIN m_taskConfigNodes
      BY <1>1, <2>2 DEF OrphanedAt, At
    <2> QED
      BY <1>1, <1>7, <2>1, <2>3 DEF OrphanedAt, Excused
  <1> QED
    BY <1>9, <1>10, <1>11, <1>12

\* A step of another handler on its own name.
LEMMA OtherOrphaned ==
    ASSUME Safe, NEW w \in Workers, Quiet(w), NEW n \in Names, n = body[w].name, OrphanedAt(n),
           Find(w) \/ Use(w) \/ GetFind(w) \/ GetRead(w)
    PROVE  OrphanedAt(n)'
  <1> SUFFICES ASSUME NoDelete(n)' PROVE OrphanedAt(n)'
    BY DEF OrphanedAt
  <1>1. NoDelete(n) /\ met' = met
    BY DEF NoDelete, Quiet
  <1>2. HandlersTyped
    BY DEF Safe, TypeOK
  <1>3. wpc'[w] \notin Parsed \cup Emptied /\ wpc[w] \notin Parsed \cup Emptied
    BY <1>2 DEF Find, Use, GetFind, GetRead, Parsed, Emptied, Erasing,
       HandlersTyped, Goto, Answer, Leave, ReachUndefined
  <1>4. \A v \in Workers :
            /\ At(v, n, Emptied)' <=> At(v, n, Emptied)
            /\ At(v, n, Parsed)' <=> At(v, n, Parsed)
            /\ At(v, n, {"eraseTaskNode", "deInit", "reset", "erase"})' <=> At(v, n, {"eraseTaskNode", "deInit", "reset", "erase"})
            /\ At(v, n, {"deInit", "reset", "erase"})' <=> At(v, n, {"deInit", "reset", "erase"})
            /\ At(v, n, Parsed) => body'[v] = body[v]
    BY <1>3 DEF Quiet, At, Emptied, Erasing
  <1>5. Coming(n)' <=> Coming(n)
    BY <1>4 DEF Coming
  <1>6. /\ m_channelList' = m_channelList
        /\ m_pipelineConfigNodes' = m_pipelineConfigNodes
        /\ m_taskConfigNodes' = m_taskConfigNodes
    BY DEF Find, Use, GetFind, GetRead, registries
  <1>7. CASE Find(w) \/ Use(w) \/ GetFind(w)
    <2>1. m_channelConfigNodes' = m_channelConfigNodes
      BY <1>7 DEF Find, Use, GetFind, registries
    <2>2. At(w, n, {"getRead"})' => n \in DOMAIN m_channelConfigNodes
      BY <1>2, <1>7 DEF Find, Use, GetFind, HandlersTyped, Goto, Answer, Leave, ReachUndefined, At
    <2>3. \A v \in Workers : v = w \/ (At(v, n, {"getRead"})' => At(v, n, {"getRead"}))
      BY DEF Quiet, At
    <2> QED
      BY <1>1, <1>4, <1>5, <1>6, <2>1, <2>2, <2>3 DEF OrphanedAt, Excused
  <1>8. CASE GetRead(w)
    <2>1. At(w, n, {"getRead"})
      BY <1>8 DEF GetRead, At
    <2>2. n \in DOMAIN m_channelConfigNodes'
      BY <1>8 DEF GetRead, Put
    <2>3. Excused(n, m_channelConfigNodes) => Excused(n, m_channelConfigNodes)'
      <3>1. CASE n \in DOMAIN m_channelConfigNodes
        BY <1>1, <1>8, <3>1 DEF GetRead, Excused
      <3>2. CASE n \notin DOMAIN m_channelConfigNodes
        <4>1. DeleteAndRead \in met[n]
          BY <1>1, <2>1, <3>2 DEF OrphanedAt
        <4>2. m_channelConfigNodes'[n] = NullNode(n)
          BY <1>8, <3>2 DEF GetRead, Put
        <4> QED
          BY <1>1, <4>1, <4>2 DEF Excused
      <3> QED
        BY <3>1, <3>2
    <2>4. /\ Excused(n, m_pipelineConfigNodes)' <=> Excused(n, m_pipelineConfigNodes)
          /\ Excused(n, m_taskConfigNodes)' <=> Excused(n, m_taskConfigNodes)
      BY <1>1, <1>6 DEF Excused
    <2> QED
      BY <1>1, <1>4, <1>5, <1>6, <2>2, <2>3, <2>4 DEF OrphanedAt
  <1> QED
    BY <1>7, <1>8

LEMMA HandleOrphaned ==
    ASSUME Safe, NEW w \in Workers, Handle(w), NEW n \in Names, OrphanedAt(n)
    PROVE  OrphanedAt(n)'
  <1>1. Quiet(w)
    BY HandleIsQuiet DEF Safe, TypeOK
  <1>2. CASE n # body[w].name
    BY <1>1, <1>2, SameElsewhere, OrphanedElsewhere
  <1>3. CASE n = body[w].name
    BY <1>1, <1>3, AddOrphaned, DeleteOrphaned, OtherOrphaned DEF Handle, ByName
  <1> QED
    BY <1>2, <1>3

\* For any number of workers and names, only an add that failed for its type
\* leaves a configuration without a channel, unless an add or a reading of its
\* name overlaps with a delete.
THEOREM OrphansAreFailedAdds == Spec => []OnlyFailedAddsAreOrphans
  <1> DEFINE Inv == Safe /\ Orphaned
  <1>1. Init => Inv
    <2> SUFFICES ASSUME Init PROVE Orphaned
      BY InitSafe
    <2> QED
      BY DEF Init, Nothing, Orphaned, OrphanedAt, Excused, At, Emptied, Erasing
  <1>2. Inv /\ [Next]_vars => Inv'
    <2> SUFFICES ASSUME Inv, [Next]_vars PROVE Orphaned'
      BY StepSafe
    <2>1. CASE UNCHANGED vars
      BY <2>1 DEF vars, registries, handlers, Orphaned, OrphanedAt, At, NoDelete, Excused, Coming
    <2>2. CASE Next
      BY <2>2, NextCases, ReceivedOrphaned, HandleOrphaned DEF Orphaned
    <2> QED
      BY <2>1, <2>2
  <1>3. Inv => OnlyFailedAddsAreOrphans
    <2> SUFFICES ASSUME Inv, NEW n \in Names \ DOMAIN m_channelList, ~Busy(n), NoDelete(n)
                 PROVE  /\ Excused(n, m_channelConfigNodes)
                        /\ Excused(n, m_pipelineConfigNodes)
                        /\ Excused(n, m_taskConfigNodes)
      BY DEF OnlyFailedAddsAreOrphans, NoDelete, Excused
    <2>1. ~Coming(n)
      BY DEF Busy, Coming, At
    <2> QED
      BY <2>1 DEF Orphaned, OrphanedAt
  <1> QED
    BY <1>1, <1>2, <1>3, PTL DEF Spec
=============================================================================
