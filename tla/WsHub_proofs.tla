--------------------------- MODULE WsHub_proofs ---------------------------
(***************************************************************************)
(* Safety of the websocket hub, for every number of clients and every      *)
(* capacity: the invariants of WsHub follow from the inductive invariant   *)
(* IInv.                                                                   *)
(***************************************************************************)
EXTENDS WsHub, SeqLemmas

(* A broadcast visits registered clients only, and has a message to send.  *)
Broadcasting ==
  /\ todo \subseteq clients
  /\ hub = "broadcast" <=> todo # {}
  /\ hub = "broadcast" => log # <<>>

(* Only what was registered is ever closed. *)
ClosedJoined == \A c \in closed : Joined(c)

IInv == TypeOK /\ NoPanic /\ OpenWhileRegistered /\ DrainReady
               /\ Broadcasting /\ ClosedJoined

USE SendCapAssumption, WsCapAssumption, BoundsAssumption

-----------------------------------------------------------------------------
LEMMA InitIInv == Init => IInv
BY DEF Init, IInv, TypeOK, ChanTypeOK, StreamTypeOK, ConnTypeOK, HubTypeOK,
       NoPanic, OpenWhileRegistered, DrainReady,
       Broadcasting, ClosedJoined, Joined, Kinds, Messages

LEMMA MessageType ==
  ASSUME NEW k \in Kinds, NEW i \in Nat, i < MaxPublished[k]
  PROVE  [kind |-> k, id |-> i + 1] \in Messages
<1>1. i + 1 \in 1..MaxPublished[k]
  OBVIOUS
<1>2. [kind |-> k, id |-> i + 1] \in [kind : {k}, id : 1..MaxPublished[k]]
  BY <1>1
<1>. QED
  BY <1>2 DEF Messages

(* The messages read() offers are messages, so every channel and buffer    *)
(* they pass through holds messages, within its capacity.                  *)
LEMMA ChanTypeStep ==
  ASSUME IInv, [Next]_vars
  PROVE  ChanTypeOK'
<1>. USE DEF IInv, TypeOK, ChanTypeOK
<1>1. ASSUME NEW k \in Kinds, Publish(k)
      PROVE  ChanTypeOK'
  <2>. DEFINE m == [kind |-> k, id |-> published[k] + 1]
  <2>1. m \in Messages
    BY <1>1, MessageType DEF Publish
  <2>. HIDE DEF m
  <2>2. Append(wsChan[k], m) \in Seq(Messages) /\ Len(Append(wsChan[k], m)) = Len(wsChan[k]) + 1
    BY <2>1, AppendProperties
  <2>3. wsChan' \in [Kinds -> Seq(Messages)] /\ \A j \in Kinds : Len(wsChan'[j]) <= WsCap
    <3>1. CASE Len(wsChan[k]) < WsCap
      <4>1. wsChan' = [wsChan EXCEPT ![k] = Append(@, m)]
        BY <1>1, <3>1 DEF Publish, m
      <4>2. Len(wsChan[k]) + 1 <= WsCap
        BY <3>1, LenProperties
      <4>. QED
        BY <4>1, <4>2, <2>2
    <3>2. CASE ~(Len(wsChan[k]) < WsCap)
      BY <1>1, <3>2 DEF Publish
    <3>. QED
      BY <3>1, <3>2
  <2>4. published' \in [Kinds -> Nat] /\ \A j \in Kinds : published'[j] <= MaxPublished[j]
    BY <1>1 DEF Publish
  <2>. QED
    BY <1>1, <2>3, <2>4 DEF Publish
<1>2. ASSUME NEW k \in Kinds, HubTake(k)
      PROVE  ChanTypeOK'
  <2>1. /\ Head(wsChan[k]) \in Messages /\ Tail(wsChan[k]) \in Seq(Messages)
        /\ Len(Tail(wsChan[k])) = Len(wsChan[k]) - 1 /\ Len(wsChan[k]) \in Nat
    BY <1>2, HeadTailProperties, LenProperties DEF HubTake
  <2>2. log' \in Seq(Messages)
    BY <1>2, <2>1, AppendProperties DEF HubTake
  <2>. QED
    BY <1>2, <2>1, <2>2 DEF HubTake
<1>3. CASE UNCHANGED chanVars
  BY <1>3 DEF chanVars
<1>. QED
  BY <1>1, <1>2, <1>3
     DEF Next, HubStep, HubRegister, HubUnregister, HubCommand, HubCommandDone, HubSend,
         HubDrop, Serving, Upgrade, StartPumps, PeerGone, ReadPump, ReadMessage,
         ReadFails, ReadPumpCloses, WritePump, Receive, CountQueued, DrainOne, Flush,
         SendClosed, PingFails, WritePumpCloses, Idle, vars

LEMMA StreamTypeStep ==
  ASSUME IInv, [Next]_vars
  PROVE  StreamTypeOK'
<1>. USE DEF IInv, TypeOK, StreamTypeOK
<1>1. ASSUME NEW c \in Clients, HubSend(c)
      PROVE  StreamTypeOK'
  <2>0. Len(send[c]) < SendCap
    BY <1>1 DEF HubSend, Visited, Broadcasting, OpenWhileRegistered
  <2>1. log[Len(log)] \in Messages
    BY <1>1, ElementOfSeq, LenProperties, EmptySeq DEF HubSend, Visited, Broadcasting, ChanTypeOK
  <2>2. /\ Append(send[c], log[Len(log)]) \in Seq(Messages)
        /\ Len(Append(send[c], log[Len(log)])) = Len(send[c]) + 1
    BY <2>1, AppendProperties
  <2>. QED
    BY <1>1, <2>0, <2>2, LenProperties DEF HubSend, Visited
<1>2. ASSUME NEW c \in Clients, Receive(c)
      PROVE  StreamTypeOK'
  <2>1. /\ <<Head(send[c])>> \in Seq(Messages) /\ Tail(send[c]) \in Seq(Messages)
        /\ Len(Tail(send[c])) = Len(send[c]) - 1 /\ Len(send[c]) \in Nat
    BY <1>2, HeadTailProperties, LenProperties DEF Receive
  <2>. QED
    BY <1>2, <2>1 DEF Receive
<1>3. ASSUME NEW c \in Clients, DrainOne(c)
      PROVE  StreamTypeOK'
  <2>1. /\ Head(send[c]) \in Messages /\ Tail(send[c]) \in Seq(Messages)
        /\ Len(Tail(send[c])) = Len(send[c]) - 1 /\ Len(send[c]) \in Nat
    BY <1>3, HeadTailProperties, LenProperties DEF DrainOne
  <2>2. Append(batch[c], Head(send[c])) \in Seq(Messages)
    BY <2>1, AppendProperties
  <2>. QED
    BY <1>3, <2>1, <2>2 DEF DrainOne
<1>4. ASSUME NEW c \in Clients, CountQueued(c)
      PROVE  StreamTypeOK'
  BY <1>4, LenProperties DEF CountQueued
<1>5. ASSUME NEW c \in Clients, Flush(c)
      PROVE  StreamTypeOK'
  <2>1. got[c] \o batch[c] \in Seq(Messages) /\ <<>> \in Seq(Messages)
    BY ConcatProperties, EmptySeq
  <2>. QED
    BY <1>5, <2>1 DEF Flush
<1>6. CASE UNCHANGED streamVars
  BY <1>6 DEF streamVars
<1>. QED
  BY <1>1, <1>2, <1>3, <1>4, <1>5, <1>6
     DEF Next, HubStep, HubTake, HubRegister, HubUnregister, HubCommand, HubCommandDone,
         HubDrop, Publish, Serving, Upgrade, StartPumps, PeerGone, ReadPump, ReadMessage,
         ReadFails, ReadPumpCloses, WritePump, SendClosed, PingFails, WritePumpCloses,
         Idle, vars

LEMMA ConnTypeStep ==
  ASSUME IInv, [Next]_vars
  PROVE  ConnTypeOK'
<1>. USE DEF IInv, TypeOK, ConnTypeOK, chanVars, streamVars, hubVars
<1>1. ASSUME NEW c \in Clients, Serving(c)
      PROVE  ConnTypeOK'
  <2>1. CASE Upgrade(c)    BY <2>1 DEF Upgrade
  <2>2. CASE StartPumps(c) BY <2>2 DEF StartPumps
  <2>3. CASE PeerGone(c)   BY <2>3 DEF PeerGone
  <2>. QED                 BY <1>1, <2>1, <2>2, <2>3 DEF Serving
<1>2. ASSUME NEW c \in Clients, HubRegister(c) \/ HubUnregister(c) \/ HubCommand(c)
      PROVE  ConnTypeOK'
  BY <1>2 DEF HubRegister, HubUnregister, HubCommand
<1>3. ASSUME NEW c \in Clients, ReadPump(c)
      PROVE  ConnTypeOK'
  <2>1. CASE ReadMessage(c)    BY <2>1 DEF ReadMessage
  <2>2. CASE ReadFails(c)      BY <2>2 DEF ReadFails
  <2>3. CASE ReadPumpCloses(c) BY <2>3 DEF ReadPumpCloses
  <2>. QED                     BY <1>3, <2>1, <2>2, <2>3 DEF ReadPump
<1>4. ASSUME NEW c \in Clients, WritePump(c)
      PROVE  ConnTypeOK'
  <2>. USE DEF WpTo
  <2>1. CASE Receive(c)         BY <2>1 DEF Receive
  <2>2. CASE CountQueued(c)     BY <2>2 DEF CountQueued
  <2>3. CASE DrainOne(c)        BY <2>3 DEF DrainOne, connVars
  <2>4. CASE Flush(c)           BY <2>4 DEF Flush
  <2>5. CASE SendClosed(c)      BY <2>5 DEF SendClosed
  <2>6. CASE PingFails(c)       BY <2>6 DEF PingFails
  <2>7. CASE WritePumpCloses(c) BY <2>7 DEF WritePumpCloses
  <2>. QED
    BY <1>4, <2>1, <2>2, <2>3, <2>4, <2>5, <2>6, <2>7 DEF WritePump
<1>5. CASE UNCHANGED connVars
  BY <1>5 DEF connVars
<1>. QED
  BY <1>1, <1>2, <1>3, <1>4, <1>5
     DEF Next, HubStep, Publish, HubTake, HubCommandDone, HubSend, HubDrop, Idle, vars

LEMMA HubTypeStep ==
  ASSUME IInv, [Next]_vars
  PROVE  HubTypeOK'
<1>. USE DEF IInv, TypeOK, HubTypeOK
<1>1. ASSUME NEW k \in Kinds, HubTake(k)
      PROVE  HubTypeOK'
  BY <1>1 DEF HubTake
<1>2. CASE HubCommandDone
  BY <1>2 DEF HubCommandDone
<1>3. ASSUME NEW c \in Clients, HubRegister(c)
      PROVE  HubTypeOK'
  BY <1>3, LenProperties DEF HubRegister, ChanTypeOK
<1>4. ASSUME NEW c \in Clients, HubUnregister(c)
      PROVE  HubTypeOK'
  BY <1>4 DEF HubUnregister, CloseFault
<1>5. ASSUME NEW c \in Clients, HubCommand(c)
      PROVE  HubTypeOK'
  BY <1>5 DEF HubCommand
<1>6. ASSUME NEW c \in Clients, HubSend(c) \/ HubDrop(c)
      PROVE  HubTypeOK'
  BY <1>6 DEF HubSend, HubDrop, Visited, SendFault, CloseFault
<1>7. CASE UNCHANGED hubVars
  BY <1>7 DEF hubVars
<1>. QED
  BY <1>1, <1>2, <1>3, <1>4, <1>5, <1>6, <1>7
     DEF Next, HubStep, Publish, Serving, Upgrade, StartPumps, PeerGone, ReadPump,
         ReadMessage, ReadFails, ReadPumpCloses, WritePump, Receive, CountQueued,
         DrainOne, Flush, SendClosed, PingFails, WritePumpCloses, Idle, vars

-----------------------------------------------------------------------------
(* What the hub's map, its broadcasts and the closed channels have to do   *)
(* with each other.  Only the hub changes them, and serveWs what Joined    *)
(* says of a client.                                                       *)
HubSafe == NoPanic /\ OpenWhileRegistered /\ Broadcasting /\ ClosedJoined

LEMMA HubSafeStep ==
  ASSUME IInv, [Next]_vars
  PROVE  HubSafe'
<1>. USE DEF IInv, TypeOK, HubSafe, NoPanic, OpenWhileRegistered, Broadcasting,
             ClosedJoined, Joined, ConnTypeOK, HubTypeOK
<1>1. ASSUME NEW k \in Kinds, HubTake(k)
      PROVE  HubSafe'
  <2>1. log' # <<>>
    <3>1. Head(wsChan[k]) \in Messages
      BY <1>1, HeadTailProperties DEF HubTake, ChanTypeOK
    <3>2. Len(Append(log, Head(wsChan[k]))) = Len(log) + 1 /\ Len(log) \in Nat
      BY <3>1, AppendProperties, LenProperties DEF ChanTypeOK
    <3>. QED
      BY <1>1, <3>2, EmptySeq DEF HubTake
  <2>. QED
    BY <1>1, <2>1 DEF HubTake, connVars
<1>2. CASE HubCommandDone
  BY <1>2 DEF HubCommandDone, chanVars, connVars
<1>3. ASSUME NEW c \in Clients, HubRegister(c)
      PROVE  HubSafe'
  BY <1>3 DEF HubRegister, chanVars
<1>4. ASSUME NEW c \in Clients, HubUnregister(c)
      PROVE  HubSafe'
  BY <1>4 DEF HubUnregister, CloseFault, chanVars
<1>5. ASSUME NEW c \in Clients, HubCommand(c)
      PROVE  HubSafe'
  BY <1>5 DEF HubCommand, chanVars
<1>6. ASSUME NEW c \in Clients, HubSend(c)
      PROVE  HubSafe'
  <2>1. c \notin closed /\ fault' = {} /\ clients' = clients /\ closed' = closed
    BY <1>6 DEF HubSend, Visited, SendFault
  <2>2. todo' = todo \ {c} /\ (hub' = "broadcast" <=> todo' # {}) /\ log' = log /\ serve' = serve
    BY <1>6 DEF HubSend, Visited, chanVars, connVars
  <2>. QED
    BY <1>6, <2>1, <2>2 DEF HubSend, Visited
<1>7. ASSUME NEW c \in Clients, HubDrop(c)
      PROVE  HubSafe'
  <2>1. /\ c \in clients /\ fault' = {}
        /\ clients' = clients \ {c} /\ closed' = closed \cup {c}
    BY <1>7 DEF HubDrop, Visited, CloseFault
  <2>2. todo' = todo \ {c} /\ (hub' = "broadcast" <=> todo' # {}) /\ log' = log /\ serve' = serve
    BY <1>7 DEF HubDrop, Visited, chanVars, connVars
  <2>. QED
    BY <1>7, <2>1, <2>2 DEF HubDrop, Visited
<1>8. ASSUME NEW c \in Clients, Upgrade(c) \/ StartPumps(c)
      PROVE  HubSafe'
  BY <1>8 DEF Upgrade, StartPumps, chanVars, hubVars
<1>9. ASSUME NEW k \in Kinds, Publish(k)
      PROVE  HubSafe'
  BY <1>9 DEF Publish, connVars, hubVars
<1>10. CASE UNCHANGED <<hubVars, serve, log>>
  BY <1>10 DEF hubVars
<1>. QED
  BY <1>1, <1>2, <1>3, <1>4, <1>5, <1>6, <1>7, <1>8, <1>9, <1>10
     DEF Next, HubStep, Serving, PeerGone, ReadPump, ReadMessage, ReadFails,
         ReadPumpCloses, WritePump, Receive, CountQueued, DrainOne, Flush, SendClosed,
         PingFails, WritePumpCloses, Idle, vars, chanVars, connVars

(* While writePump receives what it has counted, nobody else takes a       *)
(* message from the channel; the hub may add one.                          *)
LEMMA DrainReadyStep ==
  ASSUME IInv, [Next]_vars
  PROVE  DrainReady'
<1>. USE DEF IInv, TypeOK, DrainReady, StreamTypeOK, ConnTypeOK
<1>1. ASSUME NEW c \in Clients, HubSend(c)
      PROVE  DrainReady'
  <2>1. log[Len(log)] \in Messages
    BY <1>1, ElementOfSeq, LenProperties, EmptySeq DEF HubSend, Visited, Broadcasting, ChanTypeOK
  <2>2. /\ Len(Append(send[c], log[Len(log)])) = Len(send[c]) + 1
        /\ Len(send[c]) \in Nat
    BY <2>1, AppendProperties, LenProperties
  <2>. QED
    BY <1>1, <2>2 DEF HubSend, connVars
<1>2. ASSUME NEW c \in Clients, DrainOne(c)
      PROVE  DrainReady'
  <2>1. Len(Tail(send[c])) = Len(send[c]) - 1 /\ Len(send[c]) \in Nat
    BY <1>2, HeadTailProperties, LenProperties DEF DrainOne
  <2>. QED
    BY <1>2, <2>1 DEF DrainOne, connVars
<1>3. ASSUME NEW c \in Clients, CountQueued(c)
      PROVE  DrainReady'
  BY <1>3, LenProperties DEF CountQueued, WpTo
<1>4. ASSUME NEW c \in Clients,
             Receive(c) \/ Flush(c) \/ SendClosed(c) \/ PingFails(c) \/ WritePumpCloses(c)
      PROVE  DrainReady'
  BY <1>4 DEF Receive, Flush, SendClosed, PingFails, WritePumpCloses, WpTo, streamVars
<1>5. ASSUME NEW c \in Clients, StartPumps(c)
      PROVE  DrainReady'
  BY <1>5 DEF StartPumps, streamVars
<1>6. CASE UNCHANGED <<streamVars, wp>>
  BY <1>6 DEF streamVars
<1>. QED
  BY <1>1, <1>2, <1>3, <1>4, <1>5, <1>6
     DEF Next, HubStep, Publish, HubTake, HubCommandDone, HubRegister, HubUnregister,
         HubCommand, HubDrop, Serving, Upgrade, PeerGone, ReadPump, ReadMessage,
         ReadFails, ReadPumpCloses, WritePump, Idle, vars, connVars, hubVars

(* IInv is an invariant of the hub. *)
THEOREM Inductive == Spec => []IInv
<1>1. Init => IInv
  BY InitIInv
<1>2. IInv /\ [Next]_vars => IInv'
  BY ChanTypeStep, StreamTypeStep, ConnTypeStep, HubTypeStep, HubSafeStep,
     DrainReadyStep
     DEF IInv, TypeOK, HubSafe
<1>. QED
  BY <1>1, <1>2, PTL DEF Spec

-----------------------------------------------------------------------------
(* NoGap needs to know, besides, where the streams start: the frame is     *)
(* empty whenever writePump waits for a message, and nothing is queued for *)
(* a client before it is registered.                                       *)
Starts ==
  \A c \in Clients :
    /\ wp[c] \in {"none", "select"} => batch[c] = <<>>
    /\ serve[c] # "done" => wp[c] = "none"
    /\ ~Joined(c) => View(c) = <<>>

GapInv == IInv /\ Starts /\ NoGap

LEMMA InitGapInv == Init => Starts /\ NoGap
<1>1. SUFFICES ASSUME Init PROVE Starts /\ NoGap
  OBVIOUS
<1>2. \A c \in Clients : View(c) = <<>> /\ Len(View(c)) = 0
  <2>1. (<<>> \o <<>>) \o <<>> = <<>> /\ Len(<<>>) = 0
    BY ConcatEmptySeq, EmptySeq
  <2>. QED
    BY <1>1, <2>1 DEF Init, View
<1>3. Starts
  BY <1>1, <1>2 DEF Init, Starts, Joined
<1>4. ASSUME NEW c \in Clients
      PROVE  /\ from[c] + Len(View(c)) = 0 /\ Len(log) = 0
             /\ View(c) = SubSeq(log, from[c] + 1, from[c] + Len(View(c)))
  <2>1. from[c] = 0 /\ Len(log) = 0
    BY <1>1, EmptySeq DEF Init
  <2>2. /\ from[c] + 1 \in Int /\ from[c] + Len(View(c)) \in Int
        /\ from[c] + Len(View(c)) < from[c] + 1
    BY <1>2, <2>1
  <2>3. SubSeq(log, from[c] + 1, from[c] + Len(View(c))) = <<>>
    BY <2>2, SubSeqEmpty
  <2>4. View(c) = SubSeq(log, from[c] + 1, from[c] + Len(View(c)))
    BY <1>2, <2>3, Zenon
  <2>5. from[c] + Len(View(c)) = 0
    BY <1>2, <2>1
  <2>. QED
    BY <2>1, <2>4, <2>5
<1>5. clients = {} /\ todo = {}
  BY <1>1 DEF Init
<1>. QED
  BY <1>2, <1>3, <1>4, <1>5 DEF NoGap

LEMMA ViewType ==
  ASSUME IInv, NEW c \in Clients
  PROVE  View(c) \in Seq(Messages) /\ Len(View(c)) \in Nat
<1>1. got[c] \o batch[c] \in Seq(Messages)
  BY ConcatProperties DEF IInv, TypeOK, StreamTypeOK
<1>2. View(c) \in Seq(Messages)
  BY <1>1, ConcatProperties DEF IInv, TypeOK, StreamTypeOK, View
<1>. QED
  BY <1>2, LenProperties

(* writePump passes messages on, it does not change what has been accepted *)
(* for its client; only a broadcast does.                                  *)
LEMMA ViewStep ==
  ASSUME IInv, Starts, [Next]_vars, NEW d \in Clients, ~HubSend(d)
  PROVE  View(d)' = View(d)
<1>. USE DEF IInv, TypeOK, StreamTypeOK, ConnTypeOK, View
<1>1. CASE Receive(d)
  <2>1. /\ batch[d] = <<>> /\ send[d] # <<>>
        /\ got'[d] = got[d] /\ batch'[d] = <<Head(send[d])>> /\ send'[d] = Tail(send[d])
    BY <1>1 DEF Receive, Starts
  <2>2. /\ got[d] \in Seq(Messages) /\ send[d] \in Seq(Messages)
        /\ got[d] \o batch[d] = got[d] /\ Head(send[d]) \in Messages
    BY <2>1, ConcatEmptySeq, HeadTailProperties
  <2>3. got[d] \o <<Head(send[d])>> = Append(got[d], Head(send[d]))
    BY <2>2, AppendIsConcat
  <2>4. Append(got[d], Head(send[d])) \o Tail(send[d]) = got[d] \o send[d]
    BY <2>1, <2>2, MoveHead, ZenonT(40)
  <2>. QED
    BY <2>1, <2>2, <2>3, <2>4
<1>2. CASE DrainOne(d)
  <2>1. /\ send[d] # <<>> /\ got'[d] = got[d]
        /\ batch'[d] = Append(batch[d], Head(send[d])) /\ send'[d] = Tail(send[d])
    BY <1>2 DEF DrainOne
  <2>2. Head(send[d]) \in Messages /\ got[d] \o batch[d] \in Seq(Messages)
    BY <2>1, HeadTailProperties, ConcatProperties
  <2>3. got[d] \o Append(batch[d], Head(send[d])) = Append(got[d] \o batch[d], Head(send[d]))
    BY <2>2, AppendEnd
  <2>4. Append(got[d] \o batch[d], Head(send[d])) \o Tail(send[d])
          = (got[d] \o batch[d]) \o send[d]
    BY <2>1, <2>2, MoveHead, ZenonT(40)
  <2>. QED
    BY <2>1, <2>3, <2>4
<1>3. CASE Flush(d)
  <2>1. CASE got' = [got EXCEPT ![d] = @ \o batch[d]] /\ batch' = [batch EXCEPT ![d] = <<>>]
    <3>1. got'[d] = got[d] \o batch[d] /\ batch'[d] = <<>> /\ send'[d] = send[d]
      BY <1>3, <2>1 DEF Flush
    <3>2. (got[d] \o batch[d]) \o <<>> = got[d] \o batch[d]
      BY ConcatProperties, ConcatEmptySeq
    <3>. QED
      BY <3>1, <3>2
  <2>2. CASE UNCHANGED <<got, batch>>
    BY <1>3, <2>2 DEF Flush
  <2>. QED
    BY <1>3, <2>1, <2>2 DEF Flush
<1>4. CASE got'[d] = got[d] /\ batch'[d] = batch[d] /\ send'[d] = send[d]
  BY <1>4
<1>5. ASSUME NEW c \in Clients, c # d, HubSend(c) \/ WritePump(c)
      PROVE  got'[d] = got[d] /\ batch'[d] = batch[d] /\ send'[d] = send[d]
  BY <1>5 DEF HubSend, WritePump, Receive, CountQueued, DrainOne, Flush, SendClosed,
              PingFails, WritePumpCloses, streamVars
<1>6. ASSUME UNCHANGED <<got, batch, send>>
      PROVE  got'[d] = got[d] /\ batch'[d] = batch[d] /\ send'[d] = send[d]
  BY <1>6
<1>. QED
  BY <1>1, <1>2, <1>3, <1>4, <1>5, <1>6
     DEF Next, HubStep, HubTake, HubRegister, HubUnregister, HubCommand, HubCommandDone,
         HubDrop, Publish, Serving, Upgrade, StartPumps, PeerGone, ReadPump, ReadMessage,
         ReadFails, ReadPumpCloses, WritePump, CountQueued, SendClosed, PingFails,
         WritePumpCloses, Idle, vars, streamVars

LEMMA StartsStep ==
  ASSUME IInv, Starts, [Next]_vars
  PROVE  Starts'
<1>. USE DEF IInv, TypeOK, StreamTypeOK, ConnTypeOK, Starts, Joined
<1>1. \A d \in Clients : (~Joined(d))' => View(d)' = <<>>
  <2>1. SUFFICES ASSUME NEW d \in Clients, (~Joined(d))' PROVE View(d)' = <<>>
    OBVIOUS
  <2>2. ~Joined(d)
    BY <2>1, ZenonT(40) DEF Next, HubStep, HubTake, HubRegister, HubUnregister, HubCommand,
       HubCommandDone, HubSend, HubDrop, Publish, Serving, Upgrade, StartPumps, PeerGone,
       ReadPump, ReadMessage, ReadFails, ReadPumpCloses, WritePump, Receive,
       CountQueued, DrainOne, Flush, SendClosed, PingFails, WritePumpCloses, Idle, vars,
       connVars
  <2>3. ~HubSend(d)
    BY <2>2 DEF HubSend, Visited, Broadcasting, OpenWhileRegistered
  <2>. QED
    BY <2>2, <2>3, ViewStep
<1>. DEFINE Waits == \A d \in Clients :
                      /\ wp[d] \in {"none", "select"} => batch[d] = <<>>
                      /\ serve[d] # "done" => wp[d] = "none"
<1>2. Waits'
  <2>1. ASSUME NEW c \in Clients, Serving(c)
        PROVE  Waits'
    BY <2>1 DEF Serving, Upgrade, StartPumps, PeerGone, streamVars
  <2>2. ASSUME NEW c \in Clients, HubRegister(c)
        PROVE  Waits'
    BY <2>2 DEF HubRegister, streamVars
  <2>3. ASSUME NEW c \in Clients, WritePump(c)
        PROVE  Waits'
    BY <2>3 DEF WritePump, Receive, CountQueued, DrainOne, Flush, SendClosed, PingFails,
                WritePumpCloses, WpTo, streamVars, connVars
  <2>4. CASE UNCHANGED <<wp, serve, batch>>
    BY <2>4
  <2>. QED
    BY <2>1, <2>2, <2>3, <2>4
       DEF Next, HubStep, HubTake, HubUnregister, HubCommand, HubCommandDone, HubSend,
           HubDrop, Publish, ReadPump, ReadMessage, ReadFails, ReadPumpCloses,
           Idle, vars, streamVars, connVars
<1>. QED
  BY <1>1, <1>2

LEMMA NoGapStep ==
  ASSUME GapInv, [Next]_vars
  PROVE  NoGap'
<1>. DEFINE End(c) == from[c] + Len(View(c))
            Gapless(c) == /\ End(c) <= Len(log)
                          /\ View(c) = SubSeq(log, from[c] + 1, End(c))
                          /\ c \in clients \ todo => End(c) = Len(log)
                          /\ c \in todo => End(c) + 1 = Len(log)
<1>1. (\A c \in Clients : Gapless(c)) /\ Len(log) \in Nat /\ log \in Seq(Messages)
  BY LenProperties DEF GapInv, NoGap, IInv, TypeOK, ChanTypeOK
<1>2. SUFFICES ASSUME NEW d \in Clients
               PROVE  Gapless(d)'
  BY DEF NoGap
<1>3. /\ Gapless(d) /\ from[d] \in Nat
      /\ View(d) \in Seq(Messages) /\ Len(View(d)) \in Nat
  BY <1>1, ViewType DEF GapInv, IInv, TypeOK, HubTypeOK
(* i and e name the bounds of the client's part of the log. *)
<1>4. PICK i \in Nat \ {0}, e \in Nat : i = from[d] + 1 /\ e = End(d)
  BY <1>3
<1>5. /\ View(d) = SubSeq(log, i, e) /\ i <= e + 1 /\ e <= Len(log)
      /\ d \in clients \ todo => e = Len(log)
      /\ d \in todo => e + 1 = Len(log)
  <2>1. View(d) = SubSeq(log, i, e)
    BY <1>3, <1>4, Zenon
  <2>2. i <= e + 1
    BY <1>3, <1>4
  <2>3. /\ e <= Len(log)
        /\ d \in clients \ todo => e = Len(log)
        /\ d \in todo => e + 1 = Len(log)
    BY <1>3, <1>4, Zenon
  <2>. QED
    BY <2>1, <2>2, <2>3
<1>6. CASE HubSend(d)
  <2>1. /\ d \in todo /\ d \notin todo' /\ log' = log /\ from' = from
        /\ send'[d] = Append(send[d], log[Len(log)])
        /\ got'[d] = got[d] /\ batch'[d] = batch[d]
    BY <1>6 DEF HubSend, Visited, chanVars, GapInv, IInv, TypeOK, StreamTypeOK, HubTypeOK
  <2>2. log[e + 1] \in Messages /\ Len(log) = e + 1
    BY <1>1, <1>5, <2>1, ElementOfSeq
  <2>3. View(d)' = Append(View(d), log[e + 1])
    <3>. DEFINE g == got[d] \o batch[d]
                m == log[e + 1]
    <3>1. g \in Seq(Messages) /\ send[d] \in Seq(Messages)
      BY ConcatProperties DEF GapInv, IInv, TypeOK, StreamTypeOK
    <3>2. View(d)' = g \o Append(send[d], m)
      BY <2>1, <2>2 DEF View
    <3>3. View(d) = g \o send[d]
      BY DEF View
    <3>4. m \in Messages
      BY <2>2, Zenon
    <3>. HIDE DEF g, m
    <3>5. g \o Append(send[d], m) = Append(g \o send[d], m)
      BY <3>1, <3>4, AppendEnd
    <3>. QED
      BY <3>2, <3>3, <3>5, Zenon DEF m
  <2>4. Len(View(d)') = Len(View(d)) + 1
    BY <1>3, <2>2, <2>3, AppendProperties
  <2>5. View(d)' = SubSeq(log, i, e + 1)
    BY <1>1, <1>5, <2>2, <2>3, SubSeqExtend
  <2>6. from'[d] + 1 = i /\ from'[d] + Len(View(d)') = e + 1
    <3>1. from'[d] = from[d]
      BY <2>1, Zenon
    <3>2. from[d] + (Len(View(d)) + 1) = e + 1
      <4>1. e = from[d] + Len(View(d)) /\ from[d] \in Nat /\ Len(View(d)) \in Nat
        BY <1>3, <1>4, Zenon
      <4>. HIDE DEF End
      <4>. QED
        BY <4>1
    <3>. QED
      BY <1>4, <2>4, <3>1, <3>2, Zenon
  <2>. QED
    BY <2>1, <2>2, <2>5, <2>6, SMTT(30)
<1>7. CASE View(d)' = View(d)
  <2>1. ASSUME NEW k \in Kinds, HubTake(k)
        PROVE  Gapless(d)'
    <3>1. /\ log' = Append(log, Head(wsChan[k])) /\ wsChan[k] # <<>>
          /\ from' = from /\ clients' = clients /\ todo' = clients /\ todo = {}
      BY <2>1 DEF HubTake, GapInv, IInv, Broadcasting
    <3>2. Head(wsChan[k]) \in Messages
      BY <3>1, HeadTailProperties DEF GapInv, IInv, TypeOK, ChanTypeOK
    <3>3. Len(log') = Len(log) + 1
      BY <1>1, <3>1, <3>2, AppendProperties
    <3>4. View(d)' = SubSeq(log', i, e)
      BY <1>1, <1>5, <1>7, <3>1, <3>2, SubSeqOfAppend
    <3>5. from'[d] + 1 = i /\ from'[d] + Len(View(d)') = e
      BY <1>4, <1>7, <3>1
    <3>6. e <= Len(log') /\ (d \in todo' => e + 1 = Len(log'))
      BY <1>1, <1>5, <3>1, <3>3
    <3>. QED
      BY <3>1, <3>4, <3>5, <3>6
  <2>2. ASSUME NEW c \in Clients, HubRegister(c)
        PROVE  Gapless(d)'
    <3>1. /\ log' = log /\ todo = {} /\ todo' = {} /\ clients' = clients \cup {c}
          /\ from' = [from EXCEPT ![c] = Len(log)] /\ serve[c] = "register"
      BY <2>2 DEF HubRegister, chanVars, GapInv, IInv, Broadcasting
    <3>2. CASE c = d
      <4>1. View(d) = <<>> /\ Len(View(d)) = 0 /\ from'[d] = Len(log)
        BY <3>1, <3>2, EmptySeq DEF GapInv, Starts, Joined, IInv, TypeOK, HubTypeOK
      <4>2. SubSeq(log, Len(log) + 1, Len(log)) = <<>>
        BY <1>1, SubSeqEmpty
      <4>. QED
        BY <1>1, <1>7, <3>1, <4>1, <4>2
    <3>3. CASE c # d
      BY <1>3, <1>7, <3>1, <3>3 DEF GapInv, IInv, TypeOK, HubTypeOK
    <3>. QED
      BY <3>2, <3>3
  <2>3. ASSUME NEW c \in Clients, HubUnregister(c)
        PROVE  Gapless(d)'
    <3>1. log' = log /\ from' = from /\ todo' = todo /\ clients' \subseteq clients
      BY <2>3 DEF HubUnregister, chanVars
    <3>. QED
      BY <1>3, <1>7, <3>1
  <2>4. ASSUME NEW c \in Clients, HubDrop(c) \/ (HubSend(c) /\ c # d)
        PROVE  Gapless(d)'
    <3>1. /\ log' = log /\ from' = from /\ todo' = todo \ {c}
          /\ clients' \subseteq clients /\ (c = d => d \notin clients')
      BY <2>4 DEF HubDrop, HubSend, Visited, chanVars
    <3>. QED
      BY <1>3, <1>7, <3>1
  <2>5. CASE UNCHANGED <<log, from, todo, clients>>
    BY <1>3, <1>7, <2>5
  <2>6. CASE HubSend(d)
    BY <1>6, <2>6
  <2>. QED
    BY <2>1, <2>2, <2>3, <2>4, <2>5, <2>6
       DEF GapInv, Next, HubStep, HubCommand, HubCommandDone, Publish, Serving, Upgrade,
           StartPumps, PeerGone, ReadPump, ReadMessage, ReadFails, ReadPumpCloses,
           WritePump, Receive, CountQueued, DrainOne, Flush, SendClosed, PingFails,
           WritePumpCloses, Idle, vars, chanVars, hubVars
<1>. QED
  BY <1>6, <1>7, ViewStep DEF GapInv

(* Types: in particular no channel ever holds more than its capacity. *)
THEOREM TypeCorrect == Spec => []TypeOK
<1>1. IInv => TypeOK
  BY DEF IInv
<1>. QED
  BY <1>1, Inductive, PTL

(* The hub never closes a send channel twice and never sends on a closed   *)
(* one, however registrations, disconnections and broadcasts interleave.   *)
THEOREM HubNeverPanics == Spec => []NoPanic
<1>1. IInv => NoPanic
  BY DEF IInv
<1>. QED
  BY <1>1, Inductive, PTL

(* A client is in the hub's map exactly as long as its channel is open, so *)
(* a client that is dropped is always told to stop.                        *)
THEOREM RegisteredIsOpen == Spec => []OpenWhileRegistered
<1>1. IInv => OpenWhileRegistered
  BY DEF IInv
<1>. QED
  BY <1>1, Inductive, PTL

(* The inner loop of writePump never waits for a message. *)
THEOREM DrainNeverBlocks == Spec => []DrainReady
<1>1. IInv => DrainReady
  BY DEF IInv
<1>. QED
  BY <1>1, Inductive, PTL

(* GapInv is an invariant of the hub. *)
THEOREM GapInductive == Spec => []GapInv
<1>1. Init => GapInv
  BY InitIInv, InitGapInv DEF GapInv
<1>2. GapInv /\ [Next]_vars => GapInv'
  BY ChanTypeStep, StreamTypeStep, ConnTypeStep, HubTypeStep, HubSafeStep,
     DrainReadyStep, StartsStep, NoGapStep
     DEF GapInv, IInv, TypeOK, HubSafe
<1>. QED
  BY <1>1, <1>2, PTL DEF Spec

(* No client misses or repeats a message while it is registered: what it   *)
(* has been sent, and what is on its way to it, is the part of the hub's   *)
(* log that starts at its registration, up to the last broadcast.          *)
THEOREM ClientsMissNothing == Spec => []NoGap
<1>1. GapInv => NoGap
  BY DEF GapInv
<1>. QED
  BY <1>1, GapInductive, PTL

-----------------------------------------------------------------------------
(* The hub implements the fan-out.  Its two queues keep the messages of a  *)
(* kind in the order read() offered them, so a message the hub takes is    *)
(* newer than those of its kind in the log.  Here q is the queue and p the *)
(* number of messages offered, of kind k.                                  *)
Rising(q, k, p) ==
  \A i \in 1..Len(q) :
    /\ q[i].kind = k
    /\ q[i].id <= p
    /\ \A j \in 1..Len(q) : j < i => q[j].id < q[i].id

Behind(g, q, k, p) ==
  \A j \in 1..Len(g) :
    g[j].kind = k => g[j].id <= p /\ \A i \in 1..Len(q) : g[j].id < q[i].id

Ordered ==
  \A k \in Kinds : /\ Rising(wsChan[k], k, published[k])
                   /\ Behind(log, wsChan[k], k, published[k])

LEMMA MessageFields ==
  ASSUME NEW m \in Messages
  PROVE  m.kind \in Kinds /\ m.id \in Nat
<1>1. PICK k \in Kinds : m \in [kind : {k}, id : 1..MaxPublished[k]]
  BY DEF Messages
<1>. QED
  BY <1>1

LEMMA IdsOf ==
  ASSUME NEW q \in Seq(Messages)
  PROVE  /\ Len(q) \in Nat
         /\ \A i \in 1..Len(q) : q[i] \in Messages /\ q[i].kind \in Kinds /\ q[i].id \in Nat
<1>1. \A i \in 1..Len(q) : q[i] \in Messages
  BY ElementOfSeq
<1>. QED
  BY <1>1, LenProperties, MessageFields

(* read() offers the next message of a kind. *)
LEMMA OfferOrdered ==
  ASSUME NEW g \in Seq(Messages), NEW q \in Seq(Messages), NEW k \in Kinds, NEW p \in Nat,
         NEW m \in Messages, m.kind = k, m.id = p + 1,
         Rising(q, k, p), Behind(g, q, k, p)
  PROVE  /\ Rising(q, k, p + 1) /\ Behind(g, q, k, p + 1)
         /\ Rising(Append(q, m), k, p + 1) /\ Behind(g, Append(q, m), k, p + 1)
<1>1. PICK r \in Seq(Messages) : r = Append(q, m)
  BY AppendProperties
<1>2. /\ Len(r) = Len(q) + 1
      /\ \A i \in 1..Len(q) : r[i] = q[i]
      /\ r[Len(q) + 1] = m
  BY <1>1, AppendProperties
<1>3. \A i \in 1..Len(r) : i \in 1..Len(q) \/ i = Len(q) + 1
  BY <1>2, IdsOf
<1>4. Rising(q, k, p + 1)
  BY IdsOf DEF Rising
<1>5. Behind(g, q, k, p + 1)
  BY IdsOf DEF Behind
<1>6. ASSUME NEW i \in 1..Len(r)
      PROVE  /\ r[i].kind = k /\ r[i].id <= p + 1
             /\ \A j \in 1..Len(r) : j < i => r[j].id < r[i].id
  <2>1. CASE i \in 1..Len(q)
    <3>1. \A j \in 1..Len(r) : j < i => j \in 1..Len(q)
      BY <1>2, <2>1, IdsOf
    <3>2. q[i].kind = k /\ q[i].id <= p /\ q[i].id \in Nat /\ r[i] = q[i]
      BY <1>2, <2>1, IdsOf DEF Rising
    <3>3. \A j \in 1..Len(q) : j < i => q[j].id < q[i].id /\ r[j] = q[j]
      BY <1>2, <2>1 DEF Rising
    <3>4. q[i].id <= p + 1
      BY <3>2
    <3>. QED
      BY <3>1, <3>2, <3>3, <3>4
  <2>2. CASE i = Len(q) + 1
    <3>1. \A j \in 1..Len(r) : j < i => j \in 1..Len(q)
      BY <1>2, <2>2, IdsOf
    <3>. QED
      BY <1>2, <2>2, <3>1, IdsOf DEF Rising
  <2>. QED
    BY <1>3, <2>1, <2>2
<1>7. Rising(r, k, p + 1)
  BY <1>6 DEF Rising
<1>8. Behind(g, r, k, p + 1)
  <2>1. ASSUME NEW j \in 1..Len(g), g[j].kind = k, NEW i \in 1..Len(r)
        PROVE  g[j].id <= p + 1 /\ g[j].id < r[i].id
    <3>1. g[j].id <= p /\ g[j].id \in Nat
      BY <2>1, IdsOf DEF Behind
    <3>2. CASE i \in 1..Len(q)
      BY <1>2, <2>1, <3>1, <3>2 DEF Behind
    <3>3. CASE i = Len(q) + 1
      BY <1>2, <3>1, <3>3
    <3>. QED
      BY <1>3, <3>2, <3>3
  <2>2. \A j \in 1..Len(g) : g[j].kind = k => g[j].id <= p + 1
    BY <1>5 DEF Behind
  <2>. QED
    BY <2>1, <2>2 DEF Behind
<1>. QED
  BY <1>1, <1>4, <1>5, <1>7, <1>8

(* The hub takes the first message of a queue and puts it into the log. *)
LEMMA TakeOrdered ==
  ASSUME NEW g \in Seq(Messages), NEW q \in Seq(Messages), NEW k \in Kinds, NEW p \in Nat,
         q # <<>>, Rising(q, k, p), Behind(g, q, k, p)
  PROVE  /\ Head(q) \in Messages /\ Head(q).kind = k
         /\ \A j \in 1..Len(g) : g[j].kind = k => g[j].id < Head(q).id
         /\ Rising(Tail(q), k, p) /\ Behind(Append(g, Head(q)), Tail(q), k, p)
<1>1. PICK m \in Messages, r \in Seq(Messages), h \in Seq(Messages) :
        m = Head(q) /\ r = Tail(q) /\ h = Append(g, m)
  BY HeadTailProperties, AppendProperties
<1>2. /\ Len(q) \in Nat \ {0} /\ m = q[1] /\ Len(r) = Len(q) - 1
      /\ \A i \in 1..Len(r) : r[i] = q[i + 1]
  BY <1>1, EmptySeq, HeadTailProperties
<1>3. /\ Len(h) = Len(g) + 1 /\ Len(g) \in Nat
      /\ \A j \in 1..Len(g) : h[j] = g[j]
      /\ h[Len(g) + 1] = m
  BY <1>1, AppendProperties, IdsOf
<1>4. \A i \in 1..Len(r) : i + 1 \in 1..Len(q) /\ 1 < i + 1
  BY <1>2
<1>5. 1 \in 1..Len(q) /\ m.kind = k /\ m.id <= p /\ m.id \in Nat
  BY <1>2, IdsOf DEF Rising
<1>6. \A j \in 1..Len(g) : g[j].kind = k => g[j].id < m.id
  BY <1>2, <1>5 DEF Behind
<1>7. Rising(r, k, p)
  <2>1. ASSUME NEW i \in 1..Len(r), NEW j \in 1..Len(r), j < i
        PROVE  r[j].id < r[i].id
    <3>1. i + 1 \in 1..Len(q) /\ j + 1 \in 1..Len(q) /\ j + 1 < i + 1
      BY <1>4, <2>1
    <3>2. q[j + 1].id < q[i + 1].id
      BY <3>1 DEF Rising
    <3>. QED
      BY <1>2, <3>2
  <2>2. \A i \in 1..Len(r) : r[i].kind = k /\ r[i].id <= p
    BY <1>2, <1>4 DEF Rising
  <2>. QED
    BY <2>1, <2>2 DEF Rising
<1>8. \A i \in 1..Len(r) : m.id < r[i].id
  <2>1. ASSUME NEW i \in 1..Len(r)
        PROVE  m.id < r[i].id
    <3>1. q[1].id < q[i + 1].id
      BY <1>4, <1>5 DEF Rising
    <3>. QED
      BY <1>2, <3>1
  <2>. QED
    BY <2>1
<1>9. Behind(h, r, k, p)
  <2>1. ASSUME NEW j \in 1..Len(h), h[j].kind = k
        PROVE  h[j].id <= p /\ \A i \in 1..Len(r) : h[j].id < r[i].id
    <3>1. CASE j \in 1..Len(g)
      <4>1. h[j] = g[j]
        BY <1>3, <3>1
      <4>2. g[j].id <= p /\ \A i \in 1..Len(q) : g[j].id < q[i].id
        BY <2>1, <3>1, <4>1 DEF Behind
      <4>. QED
        BY <1>2, <1>4, <4>1, <4>2
    <3>2. CASE j = Len(g) + 1
      BY <1>3, <1>5, <1>8, <3>2
    <3>. QED
      BY <1>3, <3>1, <3>2
  <2>. QED
    BY <2>1 DEF Behind
<1>. QED
  BY <1>1, <1>5, <1>6, <1>7, <1>9

(* ... which is nothing to the other kind. *)
LEMMA OtherTaken ==
  ASSUME NEW g \in Seq(Messages), NEW q \in Seq(Messages), NEW k \in Kinds, NEW p \in Nat,
         NEW m \in Messages, m.kind # k, Behind(g, q, k, p)
  PROVE  Behind(Append(g, m), q, k, p)
<1>1. PICK h \in Seq(Messages) : h = Append(g, m)
  BY AppendProperties
<1>2. /\ Len(h) = Len(g) + 1 /\ Len(g) \in Nat
      /\ \A j \in 1..Len(g) : h[j] = g[j]
      /\ h[Len(g) + 1] = m
  BY <1>1, AppendProperties, IdsOf
<1>3. ASSUME NEW j \in 1..Len(h), h[j].kind = k
      PROVE  h[j].id <= p /\ \A i \in 1..Len(q) : h[j].id < q[i].id
  <2>1. j \in 1..Len(g)
    BY <1>2, <1>3
  <2>. QED
    BY <1>2, <1>3, <2>1 DEF Behind
<1>. QED
  BY <1>1, <1>3 DEF Behind

LEMMA OrderedStep ==
  ASSUME IInv, Ordered, [Next]_vars
  PROVE  Ordered'
<1>1. /\ log \in Seq(Messages)
      /\ \A l \in Kinds : wsChan[l] \in Seq(Messages) /\ published[l] \in Nat
  BY DEF IInv, TypeOK, ChanTypeOK
<1>2. ASSUME NEW k \in Kinds, Publish(k), NEW l \in Kinds
      PROVE  Rising(wsChan'[l], l, published'[l]) /\ Behind(log', wsChan'[l], l, published'[l])
  <2>. DEFINE m == [kind |-> k, id |-> published[k] + 1]
  <2>1. m \in Messages /\ m.kind = k /\ m.id = published[k] + 1
    BY <1>2, MessageType DEF Publish, IInv, TypeOK, ChanTypeOK
  <2>2. /\ log' = log /\ published'[k] = published[k] + 1
        /\ wsChan'[k] = wsChan[k] \/ wsChan'[k] = Append(wsChan[k], m)
        /\ l # k => published'[l] = published[l] /\ wsChan'[l] = wsChan[l]
    BY <1>2 DEF Publish, IInv, TypeOK, ChanTypeOK
  <2>3. CASE l = k
    <3>. HIDE DEF m
    <3>1. Rising(wsChan[k], k, published[k]) /\ Behind(log, wsChan[k], k, published[k])
      BY DEF Ordered
    <3>2. /\ Rising(wsChan[k], k, published[k] + 1) /\ Behind(log, wsChan[k], k, published[k] + 1)
          /\ Rising(Append(wsChan[k], m), k, published[k] + 1)
          /\ Behind(log, Append(wsChan[k], m), k, published[k] + 1)
      BY <1>1, <2>1, <3>1, OfferOrdered
    <3>. QED
      BY <2>2, <2>3, <3>2
  <2>4. CASE l # k
    BY <2>2, <2>4 DEF Ordered
  <2>. QED
    BY <2>3, <2>4
<1>3. ASSUME NEW k \in Kinds, HubTake(k), NEW l \in Kinds
      PROVE  Rising(wsChan'[l], l, published'[l]) /\ Behind(log', wsChan'[l], l, published'[l])
  <2>1. /\ wsChan[k] # <<>> /\ published' = published
        /\ log' = Append(log, Head(wsChan[k])) /\ wsChan'[k] = Tail(wsChan[k])
        /\ l # k => wsChan'[l] = wsChan[l]
    BY <1>3 DEF HubTake, IInv, TypeOK, ChanTypeOK
  <2>2. /\ Head(wsChan[k]) \in Messages /\ Head(wsChan[k]).kind = k
        /\ Rising(Tail(wsChan[k]), k, published[k])
        /\ Behind(Append(log, Head(wsChan[k])), Tail(wsChan[k]), k, published[k])
    BY <1>1, <2>1, TakeOrdered DEF Ordered
  <2>3. CASE l = k
    BY <2>1, <2>2, <2>3
  <2>4. CASE l # k
    <3>1. Behind(Append(log, Head(wsChan[k])), wsChan[l], l, published[l])
      BY <1>1, <2>2, <2>4, OtherTaken DEF Ordered
    <3>. QED
      BY <2>1, <2>4, <3>1 DEF Ordered
  <2>. QED
    BY <2>3, <2>4
<1>4. CASE UNCHANGED <<wsChan, published, log>>
  BY <1>4 DEF Ordered
<1>. QED
  BY <1>2, <1>3, <1>4
     DEF Ordered, Next, HubStep, HubRegister, HubUnregister, HubCommand, HubCommandDone,
         HubSend, HubDrop, Serving, Upgrade, StartPumps, PeerGone, ReadPump, ReadMessage,
         ReadFails, ReadPumpCloses, WritePump, Receive, CountQueued, DrainOne, Flush,
         SendClosed, PingFails, WritePumpCloses, Idle, vars, chanVars

LEMMA InitOrdered == Init => Ordered
<1>1. SUFFICES ASSUME Init, NEW k \in Kinds
               PROVE  Rising(wsChan[k], k, published[k]) /\ Behind(log, wsChan[k], k, published[k])
  BY DEF Ordered
<1>2. wsChan[k] = <<>> /\ log = <<>> /\ Len(<<>>) = 0
  BY <1>1, EmptySeq DEF Init
<1>3. \A i \in 1..0 : FALSE
  OBVIOUS
<1>4. Len(wsChan[k]) = 0 /\ Len(log) = 0
  BY <1>2, Zenon
<1>. QED
  BY <1>3, <1>4, Zenon DEF Rising, Behind

(* So the log has the messages of each kind in their order. *)
LogInOrder ==
  \A i, j \in 1..Len(log) : i < j /\ log[i].kind = log[j].kind => log[i].id < log[j].id

LEMMA LogInOrderStep ==
  ASSUME IInv, Ordered, LogInOrder, [Next]_vars
  PROVE  LogInOrder'
<1>1. log \in Seq(Messages) /\ \A l \in Kinds : wsChan[l] \in Seq(Messages) /\ published[l] \in Nat
  BY DEF IInv, TypeOK, ChanTypeOK
<1>2. ASSUME NEW k \in Kinds, HubTake(k)
      PROVE  LogInOrder'
  <2>1. wsChan[k] # <<>> /\ log' = Append(log, Head(wsChan[k]))
    BY <1>2 DEF HubTake
  <2>2. PICK m \in Messages : /\ m = Head(wsChan[k]) /\ m.kind = k
                             /\ \A j \in 1..Len(log) : log[j].kind = k => log[j].id < m.id
    BY <1>1, <2>1, TakeOrdered DEF Ordered
  <2>3. log' = Append(log, m)
    BY <2>1, <2>2
  <2>4. /\ Len(log) \in Nat /\ Len(log') = Len(log) + 1
        /\ \A i \in 1..Len(log) : log'[i] = log[i]
        /\ log'[Len(log) + 1] = m
    BY <1>1, <2>2, <2>3, AppendProperties, LenProperties
  <2>5. SUFFICES ASSUME NEW i \in 1..Len(log'), NEW j \in 1..Len(log'), i < j,
                        log'[i].kind = log'[j].kind
                 PROVE  log'[i].id < log'[j].id
    BY DEF LogInOrder
  <2>6. i \in 1..Len(log)
    BY <2>4, <2>5
  <2>7. CASE j \in 1..Len(log)
    BY <2>4, <2>5, <2>6, <2>7 DEF LogInOrder
  <2>8. CASE j = Len(log) + 1
    BY <2>2, <2>4, <2>5, <2>6, <2>8
  <2>. QED
    BY <2>4, <2>5, <2>7, <2>8
<1>3. CASE UNCHANGED log
  BY <1>3 DEF LogInOrder
<1>. QED
  BY <1>2, <1>3
     DEF Next, HubStep, HubRegister, HubUnregister, HubCommand, HubCommandDone, HubSend,
         HubDrop, Publish, Serving, Upgrade, StartPumps, PeerGone, ReadPump, ReadMessage,
         ReadFails, ReadPumpCloses, WritePump, Receive, CountQueued, DrainOne, Flush,
         SendClosed, PingFails, WritePumpCloses, Idle, vars, chanVars

(* What the hub has taken of a kind is in the order read() offered it, and *)
(* none of it is newer than the last one offered.                          *)
THEOREM LogFollowsReader == Spec => [](Ordered /\ LogInOrder)
<1>1. Init => Ordered /\ LogInOrder
  <2>1. ASSUME Init
        PROVE  LogInOrder
    <3>1. Len(log) = 0
      BY <2>1, EmptySeq DEF Init
    <3>. QED
      BY <3>1 DEF LogInOrder
  <2>. QED
    BY <2>1, InitOrdered
<1>2. IInv /\ Ordered /\ LogInOrder /\ [Next]_vars => Ordered' /\ LogInOrder'
  BY OrderedStep, LogInOrderStep
<1>. QED
  BY <1>1, <1>2, Inductive, PTL DEF Spec

(* The three phases of a client, before and after a step.                  *)
LEMMA PhaseIs ==
  ASSUME Starts, Starts', NEW c \in Clients
  PROVE  /\ Phase(c) = "new" <=> ~Joined(c)
         /\ Phase(c) = "left" <=> wp[c] \in {"close", "done"}
         /\ Phase(c) \in {"new", "live", "left"}
         /\ Phase(c)' = "new" <=> ~Joined(c)'
         /\ Phase(c)' = "left" <=> wp'[c] \in {"close", "done"}
         /\ Phase(c)' \in {"new", "live", "left"}
<1>1. wp[c] \in {"close", "done"} => Joined(c)
  BY DEF Starts, Joined
<1>2. wp'[c] \in {"close", "done"} => Joined(c)'
  BY DEF Starts, Joined
<1>. QED
  BY <1>1, <1>2 DEF Phase

LEMMA PhaseKept ==
  ASSUME \A c \in Clients : Phase(c)' = Phase(c)
  PROVE  [c \in Clients |-> Phase(c)]' = [c \in Clients |-> Phase(c)]
BY Zenon

LEMMA PhaseMoved ==
  ASSUME NEW c \in Clients, NEW v, Phase(c)' = v,
         \A d \in Clients : d # c => Phase(d)' = Phase(d)
  PROVE  [d \in Clients |-> Phase(d)]' = [[d \in Clients |-> Phase(d)] EXCEPT ![c] = v]
OBVIOUS

Maps == GapInv /\ Ordered

(* A step that changes neither the log nor what clients have got, and      *)
(* takes none of them into another phase, is not visible in the fan-out.   *)
LEMMA Unseen ==
  ASSUME Starts, Starts', UNCHANGED <<log, from, got>>,
         \A c \in Clients : /\ Joined(c)' <=> Joined(c)
                            /\ wp'[c] \in {"close", "done"} <=> wp[c] \in {"close", "done"}
  PROVE  UNCHANGED F!vars
<1>1. \A c \in Clients : Phase(c)' = Phase(c)
  BY PhaseIs
<1>. QED
  BY <1>1, PhaseKept DEF F!vars

(* The hub takes a message: it is published.                               *)
LEMMA TakePublishes ==
  ASSUME Maps, Starts', NEW k \in Kinds, HubTake(k)
  PROVE  F!Next
<1>1. PICK m \in Messages : m = Head(wsChan[k]) /\ F!Newest(m)
  <2>1. wsChan[k] # <<>> /\ wsChan[k] \in Seq(Messages) /\ log \in Seq(Messages) /\ published[k] \in Nat
    BY DEF HubTake, Maps, GapInv, IInv, TypeOK, ChanTypeOK
  <2>2. /\ Head(wsChan[k]) \in Messages /\ Head(wsChan[k]).kind = k
        /\ \A j \in 1..Len(log) : log[j].kind = k => log[j].id < Head(wsChan[k]).id
    BY <2>1, TakeOrdered DEF Maps, Ordered
  <2>. QED
    BY <2>2 DEF F!Newest
<1>2. log' = Append(log, m) /\ UNCHANGED <<serve, wp, from, got>>
  BY <1>1 DEF HubTake, streamVars, connVars
<1>3. \A c \in Clients : Phase(c)' = Phase(c)
  BY <1>2 DEF Phase, Joined
<1>4. [c \in Clients |-> Phase(c)]' = [c \in Clients |-> Phase(c)]
  BY <1>3, PhaseKept
<1>. QED
  BY <1>1, <1>2, <1>4 DEF F!Next, F!Publish

(* A client is registered: it joins.                                       *)
LEMMA RegisterJoins ==
  ASSUME Maps, Starts', NEW c \in Clients, HubRegister(c)
  PROVE  F!Next
<1>. USE DEF Maps, GapInv, IInv, TypeOK, ConnTypeOK
<1>1. /\ ~Joined(c) /\ wp' = wp /\ wp[c] = "none"
      /\ serve' = [serve EXCEPT ![c] = "start"]
      /\ from' = [from EXCEPT ![c] = Len(log)] /\ UNCHANGED <<log, got>>
  BY DEF HubRegister, Starts, Joined, chanVars, streamVars
<1>2. Joined(c)' /\ \A d \in Clients : d # c => (Joined(d)' <=> Joined(d))
  BY <1>1 DEF Joined
<1>3. Phase(c) = "new" /\ Phase(c)' = "live"
  BY <1>1, <1>2, PhaseIs
<1>4. \A d \in Clients : d # c => Phase(d)' = Phase(d)
  BY <1>1, <1>2, PhaseIs
<1>5. [d \in Clients |-> Phase(d)]' = [[d \in Clients |-> Phase(d)] EXCEPT ![c] = "live"]
  BY <1>3, <1>4, PhaseMoved
<1>6. [d \in Clients |-> Phase(d)][c] = "new"
  BY <1>3
<1>. QED
  BY <1>1, <1>5, <1>6 DEF F!Next, F!Join

(* writePump gives the connection up: the client leaves.                   *)
LEMMA ClosingLeaves ==
  ASSUME Maps, Starts', NEW c \in Clients,
         wp[c] \in {"select", "drain"}, wp' = [wp EXCEPT ![c] = "close"],
         UNCHANGED <<log, from, got, serve>>
  PROVE  F!Next
<1>. USE DEF Maps, GapInv, IInv, TypeOK, ConnTypeOK
<1>1. Joined(c)
  BY DEF Starts, Joined
<1>2. Phase(c) = "live"
  BY <1>1, PhaseIs
<1>3. Phase(c)' = "left" /\ \A d \in Clients : d # c => Phase(d)' = Phase(d)
  <2>1. wp'[c] = "close" /\ \A d \in Clients : d # c => wp'[d] = wp[d]
    OBVIOUS
  <2>2. \A d \in Clients : Joined(d)' <=> Joined(d)
    BY DEF Joined
  <2>. QED
    BY <2>1, <2>2, PhaseIs
<1>4. [d \in Clients |-> Phase(d)]' = [[d \in Clients |-> Phase(d)] EXCEPT ![c] = "left"]
  BY <1>3, PhaseMoved
<1>5. [d \in Clients |-> Phase(d)][c] = "live"
  BY <1>2
<1>. QED
  BY <1>4, <1>5 DEF F!Next, F!Leave

(* writePump completes a frame: the messages in it are delivered.          *)
LEMMA FrameDelivers ==
  ASSUME Maps, Starts', NEW c \in Clients,
         wp[c] = "drain", wp' = [wp EXCEPT ![c] = "select"], batch[c] # <<>>,
         got' = [got EXCEPT ![c] = @ \o batch[c]], UNCHANGED <<log, from, serve>>
  PROVE  F!Next
<1>. USE DEF Maps, GapInv
<1>1. /\ got[c] \in Seq(Messages) /\ batch[c] \in Seq(Messages) /\ send[c] \in Seq(Messages)
      /\ log \in Seq(Messages) /\ Len(log) \in Nat /\ from[c] \in Nat
  BY LenProperties DEF IInv, TypeOK, StreamTypeOK, ChanTypeOK, HubTypeOK
<1>2. PICK u \in Seq(Messages) : u = got[c] \o batch[c]
  BY <1>1, ConcatProperties
<1>3. /\ from[c] + Len(u \o send[c]) <= Len(log)
      /\ u \o send[c] = SubSeq(log, from[c] + 1, from[c] + Len(u \o send[c]))
  BY <1>2 DEF NoGap, View
<1>4. /\ from[c] + Len(u) <= Len(log)
      /\ u = SubSeq(log, from[c] + 1, from[c] + Len(u))
  <2>1. PICK i \in Nat, v \in Seq(Messages) : i = from[c] /\ v = send[c]
    BY <1>1
  <2>2. FoundAt(log, i, u \o v)
    BY <2>1, <1>3 DEF FoundAt
  <2>3. log \in Seq(Messages)
    BY <1>1
  <2>4. FoundAt(log, i, u)
    BY <2>2, <2>3, StartOfSubSeq
  <2>. QED
    BY <2>1, <2>4 DEF FoundAt
<1>5. Len(u) \in (Len(got[c]) + 1)..(Len(log) - from[c])
  <2>1. /\ Len(u) = Len(got[c]) + Len(batch[c])
        /\ Len(u) \in Nat /\ Len(got[c]) \in Nat /\ Len(batch[c]) \in Nat /\ Len(batch[c]) # 0
    BY <1>1, <1>2, ConcatProperties, LenProperties, EmptySeq
  <2>2. \A f, n, l, g, b \in Nat : b # 0 /\ n = g + b /\ f + n <= l => n \in (g + 1)..(l - f)
    OBVIOUS
  <2>. QED
    BY <1>1, <1>4, <2>1, <2>2, Zenon
<1>6. got' = [got EXCEPT ![c] = SubSeq(log, from[c] + 1, from[c] + Len(u))]
  BY <1>2, <1>4
<1>7. Joined(c) /\ Phase(c) = "live"
  <2>1. Joined(c)
    BY DEF Starts, Joined
  <2>. QED
    BY <2>1, PhaseIs
<1>8. [d \in Clients |-> Phase(d)]' = [d \in Clients |-> Phase(d)]
  <2>1. ASSUME NEW d \in Clients
        PROVE  Phase(d)' = Phase(d)
    <3>1. (Joined(d)' <=> Joined(d)) /\ (wp'[d] \in {"close", "done"} <=> wp[d] \in {"close", "done"})
      BY DEF Joined, IInv, TypeOK, ConnTypeOK
    <3>. QED
      BY <3>1, PhaseIs
  <2>. QED
    BY <2>1, PhaseKept
<1>9. [d \in Clients |-> Phase(d)][c] = "live"
  BY <1>7
<1>10. F!Deliver(c)
  BY <1>5, <1>6, <1>8, <1>9 DEF F!Deliver
<1>. QED
  BY <1>10 DEF F!Next

LEMMA WritePumpMaps ==
  ASSUME Maps, Starts', NEW c \in Clients, WritePump(c)
  PROVE  F!Next \/ UNCHANGED F!vars
<1>. DEFINE Closes == /\ wp[c] \in {"select", "drain"} /\ wp' = [wp EXCEPT ![c] = "close"]
                      /\ UNCHANGED <<log, from, got, serve>>
<1>1. ASSUME NEW t \in {"select", "count", "drain", "close", "done"}, wp' = [wp EXCEPT ![c] = t],
             wp[c] \in {"close", "done"} <=> t \in {"close", "done"},
             UNCHANGED <<log, from, got, serve>>
      PROVE  UNCHANGED F!vars
  <2>1. \A d \in Clients : (Joined(d)' <=> Joined(d)) /\ (wp'[d] \in {"close", "done"} <=> wp[d] \in {"close", "done"})
    BY <1>1 DEF Joined, Maps, GapInv, IInv, TypeOK, ConnTypeOK
  <2>. QED
    BY <1>1, <2>1, Unseen DEF Maps, GapInv
<1>. USE DEF WpTo, chanVars, streamVars, connVars, hubVars
<1>2. CASE Receive(c)
  <2>1. UNCHANGED <<log, from, got, serve>> /\ wp[c] = "select"
    BY <1>2 DEF Receive
  <2>2. wp' = [wp EXCEPT ![c] = "count"] \/ Closes
    BY <1>2, <2>1 DEF Receive
  <2>. QED
    BY <1>1, <2>1, <2>2, ClosingLeaves
<1>3. CASE CountQueued(c)
  BY <1>1, <1>3 DEF CountQueued
<1>4. CASE DrainOne(c)
  <2>1. UNCHANGED <<log, from, got, serve, wp>>
    BY <1>4 DEF DrainOne
  <2>2. \A d \in Clients : (Joined(d)' <=> Joined(d)) /\ (wp'[d] \in {"close", "done"} <=> wp[d] \in {"close", "done"})
    BY <2>1 DEF Joined
  <2>. QED
    BY <2>1, <2>2, Unseen DEF Maps, GapInv
<1>5. CASE Flush(c)
  <2>1. wp[c] = "drain" /\ UNCHANGED <<log, from, serve>>
    BY <1>5 DEF Flush
  <2>2. CASE got' = [got EXCEPT ![c] = @ \o batch[c]] /\ wp' = [wp EXCEPT ![c] = "select"]
    <3>1. CASE batch[c] # <<>>
      BY <2>1, <2>2, <3>1, FrameDelivers
    <3>2. CASE batch[c] = <<>>
      <4>1. got[c] \o batch[c] = got[c] /\ got \in [Clients -> Seq(Messages)]
        BY <3>2, ConcatEmptySeq DEF Maps, GapInv, IInv, TypeOK, StreamTypeOK
      <4>2. got' = got
        BY <2>2, <4>1
      <4>. QED
        BY <1>1, <2>1, <2>2, <4>2
    <3>. QED
      BY <3>1, <3>2
  <2>3. CASE Closes
    BY <2>3, ClosingLeaves
  <2>. QED
    BY <1>5, <2>1, <2>2, <2>3 DEF Flush
<1>6. CASE SendClosed(c) \/ PingFails(c)
  BY <1>6, ClosingLeaves DEF SendClosed, PingFails
<1>7. CASE WritePumpCloses(c)
  BY <1>1, <1>7 DEF WritePumpCloses
<1>. QED
  BY <1>2, <1>3, <1>4, <1>5, <1>6, <1>7 DEF WritePump

(* Everything else is the hub's own business. *)
LEMMA StepMaps ==
  ASSUME Maps, Starts', [Next]_vars
  PROVE  F!Next \/ UNCHANGED F!vars
<1>. DEFINE Hidden == /\ UNCHANGED <<log, from, got>>
                      /\ \A d \in Clients :
                           /\ Joined(d)' <=> Joined(d)
                           /\ wp'[d] \in {"close", "done"} <=> wp[d] \in {"close", "done"}
<1>1. Hidden => UNCHANGED F!vars
  BY Unseen DEF Maps, GapInv
<1>2. UNCHANGED <<log, from, got, serve, wp>> => Hidden
  BY DEF Joined
<1>3. ASSUME NEW c \in Clients, Serving(c)
      PROVE  Hidden
  <2>1. wp[c] \in {"close", "done"} => serve[c] = "done"
    BY DEF Maps, GapInv, Starts
  <2>. QED
    BY <1>3, <2>1 DEF Serving, Upgrade, StartPumps, PeerGone, Joined, chanVars, streamVars,
       hubVars, Maps, GapInv, IInv, TypeOK, ConnTypeOK
<1>. HIDE DEF Hidden
<1>4. ASSUME NEW k \in Kinds, Publish(k)
      PROVE  Hidden
  BY <1>2, <1>4 DEF Publish, streamVars, connVars, hubVars
<1>5. ASSUME NEW c \in Clients, ReadPump(c)
      PROVE  Hidden
  BY <1>2, <1>5 DEF ReadPump, ReadMessage, ReadFails, ReadPumpCloses, chanVars, streamVars, hubVars
<1>6. CASE UNCHANGED vars
  BY <1>1, <1>2, <1>6 DEF vars, chanVars, streamVars, connVars, hubVars
<1>7. ASSUME NEW c \in Clients, HubUnregister(c) \/ HubCommand(c) \/ HubSend(c) \/ HubDrop(c)
      PROVE  Hidden
  BY <1>2, <1>7 DEF HubUnregister, HubCommand, HubSend, HubDrop, Visited, chanVars, streamVars, connVars
<1>8. CASE HubCommandDone
  BY <1>1, <1>2, <1>8 DEF HubCommandDone, chanVars, streamVars, connVars
<1>. QED
  BY <1>1, <1>3, <1>4, <1>5, <1>6, <1>7, <1>8, TakePublishes, RegisterJoins, WritePumpMaps
     DEF Next, HubStep, Idle

(* The websocket side, with its channels, buffers and goroutines, does     *)
(* nothing but what the fan-out allows: one log in which every kind keeps  *)
(* its order, and to every client what follows its registration, in that   *)
(* order and without a gap, until it leaves.                               *)
THEOREM HubIsFanout == Spec => ImplementsFanout
<1>1. Init => Ordered
  BY InitOrdered
<1>2. IInv /\ Ordered /\ [Next]_vars => Ordered'
  BY OrderedStep
<1>3. GapInv => IInv /\ Starts
  BY DEF GapInv
<1>4. Init => F!Init
  <2>1. ASSUME Init
        PROVE  [c \in Clients |-> Phase(c)] = [c \in Clients |-> "new"]
    BY <2>1 DEF Init, Phase, Joined
  <2>. QED
    BY <2>1 DEF Init, F!Init
<1>5. GapInv /\ Ordered /\ Starts' /\ [Next]_vars => [F!Next]_(F!vars)
  BY StepMaps DEF Maps
<1>. QED
  BY <1>1, <1>2, <1>3, <1>4, <1>5, GapInductive, PTL DEF Spec, ImplementsFanout, F!Spec
=============================================================================
