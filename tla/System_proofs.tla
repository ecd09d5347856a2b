--------------------------- MODULE System_proofs ---------------------------
(***************************************************************************)
(* The control connection and the hub, each as its own module has it, are  *)
(* what the system consists of: a behaviour of System is one of CtrlClient *)
(* and, seen through the mapping H, one of WsHub.  So what is proved of    *)
(* either holds in the system, for any parameters, and the two together    *)
(* give what neither can say: where a browser is, compared with the        *)
(* application.                                                            *)
(***************************************************************************)
EXTENDS System, CtrlClient_proofs

(* The theorems about WsHub, for the hub of this system. *)
HP == INSTANCE WsHub_proofs WITH wsChan    <- BriefChan,
                                 published <- [k \in Kinds |-> Published(k)],
                                 closed    <- cut,
                                 got       <- seen,
                                 fault     <- hubFault

USE HubAssumption, SendAssumption, LimitAssumption

-----------------------------------------------------------------------------
(* The control connection.                                                 *)
LEMMA ConnectionStep == [SysNext]_sysVars => [Next]_vars
<1>1. SysNext => Next \/ UNCHANGED vars
  <2>1. ASSUME Process, fault = {}
        PROVE  Next
    BY <2>1 DEF Process, Baresip, Next
  <2>2. ASSUME NEW k \in Kinds, TakeWs(k), fault = {}
        PROVE  Next
    BY <2>2 DEF TakeWs, Next
  <2>3. ASSUME NEW c \in Clients, CmdWs(c), fault = {}
        PROVE  Next \/ UNCHANGED vars
    BY <2>3 DEF CmdWs, Next
  <2>4. ASSUME CmdWsCalls, fault = {}
        PROVE  Next
    BY <2>4 DEF CmdWsCalls, Next
  <2>5. ASSUME Ended
        PROVE  Next
    BY <2>5 DEF Next
  <2>. QED
    BY <2>1, <2>2, <2>3, <2>4, <2>5 DEF SysNext, CmdWsReturns
<1>. QED
  BY <1>1 DEF sysVars

(* Whatever the hub and the browsers do, the connection is CtrlClient's    *)
(* (gobaresip.go and Cmd, with the hub as one of the callers).             *)
THEOREM ConnectionRefined == SysSpec => ImplementsCtrlClient
<1>1. SysInit => Init
  BY DEF SysInit
<1>. QED
  BY <1>1, ConnectionStep, PTL DEF SysSpec, Spec, ImplementsCtrlClient

-----------------------------------------------------------------------------
(* The bound on what baresip sends. *)
Bounded == \A k \in Kinds : arrived[k] <= MaxPublished[k]

LEMMA BoundedStep ==
  ASSUME Bounded, [SysNext]_sysVars
  PROVE  Bounded'
<1>1. CASE UNCHANGED arrived
  BY <1>1 DEF Bounded
<1>2. CASE Baresip
  BY <1>2 DEF Baresip, Bounded
<1>3. Process => Baresip \/ UNCHANGED arrived
  BY DEF Process, ConnEnds, Read, Keep, Close, Cmd, Hangup, ReadCheck, ReadNetstring, ReadError,
         ReadHandle, ReadPut, ReadWs, KeepWake, KeepPing, RunStart, RunReturns, CloseStart,
         CloseConn, CloseChan, AppTake, CallPlain, CallAuto, CmdCheck, CmdWrite, HangupDue,
         HangupWrite, streamVars
<1>4. SysNext => Process \/ UNCHANGED arrived
  BY DEF SysNext, TakeWs, HubTake, CmdWs, CallPlain, CallAuto, CmdWsCalls, Cmd, CmdCheck,
         CmdWrite, CmdWsReturns, Ended, vars, streamVars
<1>. QED
  BY <1>1, <1>2, <1>3, <1>4 DEF sysVars, vars, streamVars

SysInv == IInv /\ Bounded

LEMMA SystemInductive == SysSpec => []SysInv
<1>1. SysInit => Bounded
  <2>1. Init => \A k \in Kinds : arrived[k] = 0
    BY DEF Init
  <2>2. \A k \in Kinds : MaxPublished[k] \in Nat
    OBVIOUS
  <2>. QED
    BY <2>1, <2>2 DEF SysInit, Bounded
<1>2. Bounded /\ [SysNext]_sysVars => Bounded'
  BY BoundedStep
<1>3. Spec => []IInv
  BY Inductive
<1>. QED
  BY <1>1, <1>2, <1>3, ConnectionRefined, PTL DEF SysSpec, SysInv, ImplementsCtrlClient

-----------------------------------------------------------------------------
(* The channels to the hub, in brief. *)
LEMMA BriefLen ==
  ASSUME WsTypeOK, NEW k \in Kinds
  PROVE  Len(BriefChan[k]) = Len(wsChan[k])
<1>1. Len(wsChan[k]) \in Nat
  BY LenProperties DEF WsTypeOK
<1>. QED
  BY <1>1 DEF BriefChan

LEMMA BriefAppend ==
  ASSUME NEW s \in Seq(Messages), NEW m \in Messages
  PROVE  [i \in 1..Len(Append(s, m)) |-> Brief(Append(s, m)[i])]
           = Append([i \in 1..Len(s) |-> Brief(s[i])], Brief(m))
<1>1. PICK t \in Seq(Messages) : t = Append(s, m)
  BY AppendProperties
<1>2. PICK n \in Nat : n = Len(s)
  BY LenProperties
<1>3. /\ Len(t) = n + 1
      /\ \A i \in 1..n : t[i] = s[i]
      /\ t[n + 1] = m
  BY <1>1, <1>2, AppendProperties
<1>4. PICK T : T = {Brief(x) : x \in Messages}
  OBVIOUS
<1>5. PICK b \in Seq(T), e \in T : b = [i \in 1..n |-> Brief(s[i])] /\ e = Brief(m) /\ Len(b) = n
  <2>1. \A i \in 1..n : s[i] \in Messages
    BY <1>2, ElementOfSeq
  <2>2. \A i \in 1..n : Brief(s[i]) \in T
    BY <1>4, <2>1
  <2>3. [i \in 1..n |-> Brief(s[i])] \in Seq(T) /\ Len([i \in 1..n |-> Brief(s[i])]) = n
    BY <1>2, <2>2
  <2>. QED
    BY <1>4, <2>3
<1>6. PICK a \in Seq(T) : a = Append(b, e)
  BY AppendProperties
<1>7. /\ a = [i \in 1..(n + 1) |-> a[i]]
      /\ \A i \in 1..n : a[i] = b[i]
      /\ a[n + 1] = e
  <2>1. Len(a) = n + 1 /\ a = [i \in 1..Len(a) |-> a[i]]
    BY <1>5, <1>6, AppendProperties
  <2>. QED
    BY <1>5, <1>6, <2>1, AppendProperties
<1>8. \A i \in 1..(n + 1) : a[i] = Brief(t[i])
  <2>1. \A i \in 1..n : a[i] = Brief(t[i])
    BY <1>3, <1>5, <1>7
  <2>2. a[n + 1] = Brief(t[n + 1])
    BY <1>3, <1>5, <1>7
  <2>. QED
    BY <2>1, <2>2
<1>9. a = [i \in 1..(n + 1) |-> Brief(t[i])]
  BY <1>7, <1>8
<1>. QED
  BY <1>1, <1>2, <1>3, <1>5, <1>6, <1>9

-----------------------------------------------------------------------------
(* Of the connection's own steps the hub notices only read()'s offer.      *)
Offers(k) == Published(k)' = Published(k)

Hidden == UNCHANGED wsChan /\ \A k \in Kinds : Offers(k)

LEMMA HiddenStep ==
  ASSUME UNCHANGED hubVars, Hidden
  PROVE  UNCHANGED HP!vars
<1>1. UNCHANGED BriefChan
  BY DEF Hidden, BriefChan
<1>2. UNCHANGED [k \in Kinds |-> Published(k)]
  BY DEF Hidden, Offers
<1>. QED
  BY <1>1, <1>2 DEF HP!vars, HP!chanVars, HP!streamVars, HP!connVars, HP!hubVars, hubVars

LEMMA AsideHidden ==
  ASSUME UNCHANGED <<rd, cur, chan, got, wsChan>>
  PROVE  Hidden
BY DEF Hidden, Offers, Published, Offering, Queued

LEMMA ReadHidden ==
  ASSUME rd # "ws", rd' # "ws", UNCHANGED <<chan, got, wsChan>>
  PROVE  Hidden
BY DEF Hidden, Offers, Published, Offering, Queued

LEMMA AppTakeHidden ==
  ASSUME TypeOK, NEW j \in Kinds, AppTake(j)
  PROVE  Hidden
<1>1. \A k \in Kinds : Queued(k)' = Queued(k)
  BY TakeKeepsQueue DEF TypeOK
<1>2. UNCHANGED <<rd, cur, wsChan>>
  BY DEF AppTake, readVars, wsVars
<1>. QED
  BY <1>1, <1>2 DEF Hidden, Offers, Published, Offering

(* The message that read() puts into the application's channel becomes the *)
(* one it is about to offer.                                               *)
LEMMA PutHidden ==
  ASSUME TypeOK, ReadPut
  PROVE  Hidden
<1>1. rd = "put" /\ UNCHANGED wsChan
  BY DEF ReadPut, wsVars
<1>2. CASE rd' # "ws"
  BY <1>1, <1>2, ReadHidden DEF ReadPut
<1>3. CASE rd' = "ws"
  <2>1. cur[1] \in Messages /\ cur[1].kind \in Kinds
    BY <1>1, CurType DEF Handling, TypeOK
  <2>2. ASSUME NEW k \in Kinds
        PROVE  Offers(k)
    <3>1. /\ k = cur[1].kind => Queued(k)' = Append(Queued(k), cur[1])
          /\ k # cur[1].kind => Queued(k)' = Queued(k)
          /\ UNCHANGED cur
      BY <1>3, PutExtendsQueue DEF TypeOK
    <3>2. PICK q \in Seq(Messages) : q = Queued(k) /\ Len(q) \in Nat
      BY QueuedType DEF TypeOK
    <3>3. Published(k) = Len(q)
      BY <1>1, <3>2 DEF Published, Offering
    <3>4. CASE k = cur[1].kind
      <4>1. Len(Append(q, cur[1])) = Len(q) + 1
        BY <2>1, AppendProperties
      <4>2. Published(k)' = Len(Queued(k)') - 1
        BY <1>3, <3>1, <3>4 DEF Published, Offering
      <4>. QED
        BY <3>1, <3>2, <3>3, <3>4, <4>1, <4>2 DEF Offers
    <3>5. CASE k # cur[1].kind
      BY <3>1, <3>2, <3>3, <3>5 DEF Published, Offering, Offers
    <3>. QED
      BY <3>4, <3>5
  <2>. QED
    BY <1>1, <2>2 DEF Hidden
<1>. QED
  BY <1>2, <1>3

LEMMA ProcessHidden ==
  ASSUME IInv, Process
  PROVE  Hidden \/ ReadWs
<1>1. TypeOK /\ ReadAfterRun
  BY DEF IInv
<1>2. CASE Baresip \/ ConnEnds \/ Keep \/ Close \/ RunReturns \/ CloseStart
  BY <1>2, AsideHidden
     DEF Baresip, Emit, Reply, ConnEnds, Keep, KeepWake, KeepPing, Close, CloseConn, CloseChan,
         RunReturns, CloseStart, readVars, appVars, wsVars
<1>3. CASE RunStart
  BY <1>1, <1>3, ReadHidden DEF RunStart, ReadAfterRun, appVars, wsVars
<1>4. ASSUME NEW k \in Kinds, AppTake(k)
      PROVE  Hidden
  BY <1>1, <1>4, AppTakeHidden
<1>5. ASSUME NEW c \in Callers, CallPlain(c) \/ CallAuto(c) \/ Cmd(c)
      PROVE  Hidden
  BY <1>5, AsideHidden
     DEF CallPlain, CallAuto, Cmd, CmdCheck, CmdWrite, readVars, appVars, wsVars
<1>6. ASSUME NEW i \in DOMAIN timer, Hangup(i)
      PROVE  Hidden
  BY <1>6, AsideHidden DEF Hangup, HangupDue, HangupWrite, readVars, appVars, wsVars
<1>7. CASE ReadCheck \/ ReadNetstring \/ ReadError \/ ReadHandle
  BY <1>7, ReadHidden
     DEF ReadCheck, ReadNetstring, ReadError, ReadHandle, appVars, wsVars
<1>8. CASE ReadPut
  BY <1>1, <1>8, PutHidden
<1>. QED
  BY <1>2, <1>3, <1>4, <1>5, <1>6, <1>7, <1>8 DEF Process, Read

(* read()'s offer is the next message of its kind: it is numbered as WsHub *)
(* numbers them, and the bound on them is kept.                            *)
LEMMA OfferPublishes ==
  ASSUME SysInv, ReadWs, UNCHANGED hubVars
  PROVE  \E k \in Kinds : HP!Publish(k)
<1>1. TypeOK /\ \A k \in Kinds : Lossless(k) /\ Follows(k)
  BY DEF SysInv, IInv
<1>2. PICK k \in Kinds : k = cur[1].kind /\ cur[1] \in Messages
  BY <1>1, CurType DEF TypeOK, ReadWs, Handling
<1>3. /\ UNCHANGED <<got, chan>> /\ rd = "ws" /\ rd' = "check"
      /\ wsChan' = IF Len(wsChan[k]) < WsCap
                     THEN [wsChan EXCEPT ![k] = Append(@, cur[1])] ELSE wsChan
  BY <1>2 DEF ReadWs, appVars
<1>4. PICK n \in Nat : n = Len(Queued(k)) /\ n # 0 /\ cur[1].id = n
  BY <1>1, <1>2, <1>3, QueuedType DEF TypeOK, Follows, Offered
<1>5. /\ Published(k) = n - 1 /\ Published(k)' = n
      /\ \A l \in Kinds : l # k => Published(l)' = Published(l)
  BY <1>2, <1>3, <1>4 DEF Published, Offering, Queued
<1>6. n <= MaxPublished[k]
  <2>1. Taken(k) = n
    BY <1>3, <1>4 DEF Taken, Holds
  <2>2. Taken(k) <= arrived[k] /\ arrived[k] <= MaxPublished[k]
    BY <1>1 DEF Lossless, SysInv, Bounded
  <2>3. arrived[k] \in Nat /\ MaxPublished[k] \in Nat
    BY <1>1 DEF TypeOK, StreamTypeOK
  <2>. QED
    BY <2>1, <2>2, <2>3
<1>7. Brief(cur[1]) = [kind |-> k, id |-> n]
  BY <1>2, <1>4 DEF Brief
<1>. DEFINE P == [l \in Kinds |-> Published(l)]
<1>8. P[k] < MaxPublished[k] /\ P' = [P EXCEPT ![k] = @ + 1] /\ P[k] + 1 = n
  <2>1. P[k] = n - 1 /\ P' = [l \in Kinds |-> Published(l)']
    BY <1>5
  <2>2. n - 1 < MaxPublished[k] /\ (n - 1) + 1 = n
    <3>1. PICK x \in Nat : x = MaxPublished[k]
      OBVIOUS
    <3>. QED
      BY <1>4, <1>6, <3>1
  <2>3. [l \in Kinds |-> Published(l)'] = [P EXCEPT ![k] = (n - 1) + 1]
    BY <1>5, <2>2
  <2>4. P' = [P EXCEPT ![k] = P[k] + 1]
    BY <2>1, <2>3, Zenon
  <2>. QED
    BY <2>1, <2>2, <2>4
<1>9. Len(BriefChan[k]) = Len(wsChan[k]) /\ wsChan[k] \in Seq(Messages)
  BY <1>1, BriefLen DEF TypeOK, WsTypeOK
<1>10. CASE Len(wsChan[k]) < WsCap
  <2>1. wsChan' = [wsChan EXCEPT ![k] = Append(@, cur[1])] /\ wsChan \in [Kinds -> Seq(Messages)]
    BY <1>1, <1>3, <1>10 DEF TypeOK, WsTypeOK
  <2>2. BriefChan'[k] = Append(BriefChan[k], Brief(cur[1]))
    <3>1. wsChan'[k] = Append(wsChan[k], cur[1])
      BY <2>1
    <3>2. BriefChan'[k] = [i \in 1..Len(wsChan'[k]) |-> Brief(wsChan'[k][i])]
      BY DEF BriefChan, Brief
    <3>. QED
      BY <1>2, <1>9, <3>1, <3>2, BriefAppend DEF BriefChan
  <2>3. \A l \in Kinds : l # k => BriefChan'[l] = BriefChan[l]
    BY <2>1 DEF BriefChan, Brief
  <2>4. BriefChan' = [BriefChan EXCEPT ![k] = Append(@, [kind |-> k, id |-> P[k] + 1])]
    BY <1>7, <1>8, <2>2, <2>3 DEF BriefChan
  <2>. QED
    BY <1>8, <1>9, <1>10, <2>4
       DEF HP!Publish, HP!streamVars, HP!connVars, HP!hubVars, hubVars
<1>11. CASE ~(Len(wsChan[k]) < WsCap)
  <2>1. UNCHANGED BriefChan
    BY <1>3, <1>11 DEF BriefChan, Brief
  <2>. QED
    BY <1>8, <1>9, <1>11, <2>1
       DEF HP!Publish, HP!streamVars, HP!connVars, HP!hubVars, hubVars
<1>. QED
  BY <1>10, <1>11

-----------------------------------------------------------------------------
(* The hub's and the pumps' own steps are WsHub's by definition. *)
LEMMA HubStepIs ==
  ASSUME \/ H!HubCommandDone
         \/ \E k \in Kinds : H!HubTake(k)
         \/ \E c \in Clients : H!HubRegister(c) \/ H!HubUnregister(c) \/ H!HubCommand(c)
                                \/ H!HubSend(c) \/ H!HubDrop(c)
  PROVE  HP!HubStep
<1>. USE DEF H!chanVars, H!streamVars, H!connVars, HP!chanVars, HP!streamVars, HP!connVars
<1>1. ASSUME NEW k \in Kinds, H!HubTake(k)
      PROVE  HP!HubTake(k)
  BY <1>1 DEF H!HubTake, HP!HubTake
<1>2. ASSUME H!HubCommandDone
      PROVE  HP!HubCommandDone
  BY <1>2 DEF H!HubCommandDone, HP!HubCommandDone
<1>3. ASSUME NEW c \in Clients, H!HubRegister(c)
      PROVE  HP!HubRegister(c)
  BY <1>3 DEF H!HubRegister, HP!HubRegister
<1>4. ASSUME NEW c \in Clients, H!HubUnregister(c)
      PROVE  HP!HubUnregister(c)
  BY <1>4 DEF H!HubUnregister, HP!HubUnregister, H!CloseFault, HP!CloseFault
<1>5. ASSUME NEW c \in Clients, H!HubCommand(c)
      PROVE  HP!HubCommand(c)
  BY <1>5 DEF H!HubCommand, HP!HubCommand
<1>6. ASSUME NEW c \in Clients, H!HubSend(c)
      PROVE  HP!HubSend(c)
  BY <1>6 DEF H!HubSend, HP!HubSend, H!Visited, HP!Visited, H!SendFault, HP!SendFault
<1>7. ASSUME NEW c \in Clients, H!HubDrop(c)
      PROVE  HP!HubDrop(c)
  BY <1>7 DEF H!HubDrop, HP!HubDrop, H!Visited, HP!Visited, H!CloseFault, HP!CloseFault
<1>8. HP!Kinds = Kinds
  BY DEF HP!Kinds, Kinds
<1>. QED
  BY <1>1, <1>2, <1>3, <1>4, <1>5, <1>6, <1>7, <1>8 DEF HP!HubStep

LEMMA PumpStepIs ==
  ASSUME NEW c \in Clients, H!Serving(c) \/ H!ReadPump(c) \/ H!WritePump(c)
  PROVE  HP!Serving(c) \/ HP!ReadPump(c) \/ HP!WritePump(c)
<1>. USE DEF H!chanVars, H!streamVars, H!connVars, H!hubVars,
             HP!chanVars, HP!streamVars, HP!connVars, HP!hubVars, H!WpTo, HP!WpTo
<1>1. ASSUME H!Serving(c)
      PROVE  HP!Serving(c)
  BY <1>1 DEF H!Serving, HP!Serving, H!Upgrade, HP!Upgrade, H!StartPumps, HP!StartPumps,
              H!PeerGone, HP!PeerGone
<1>2. ASSUME H!ReadPump(c)
      PROVE  HP!ReadPump(c)
  BY <1>2 DEF H!ReadPump, HP!ReadPump, H!ReadMessage, HP!ReadMessage, H!ReadFails,
              HP!ReadFails, H!ReadPumpCloses, HP!ReadPumpCloses
<1>3. ASSUME H!WritePump(c)
      PROVE  HP!WritePump(c)
  BY <1>3 DEF H!WritePump, HP!WritePump, H!Receive, HP!Receive, H!CountQueued,
              HP!CountQueued, H!DrainOne, HP!DrainOne, H!Flush, HP!Flush, H!SendClosed,
              HP!SendClosed, H!PingFails, HP!PingFails, H!WritePumpCloses,
              HP!WritePumpCloses
<1>. QED
  BY <1>1, <1>2, <1>3

LEMMA HubIs ==
  ASSUME SysInv, [SysNext]_sysVars
  PROVE  [HP!Next]_(HP!vars)
<1>1. Hidden /\ UNCHANGED hubVars => UNCHANGED HP!vars
  BY HiddenStep
<1>2. UNCHANGED vars => Hidden
  BY AsideHidden DEF vars, readVars, appVars, wsVars
<1>3. HP!Kinds = Kinds
  BY DEF HP!Kinds, Kinds
<1>4. CASE Process /\ UNCHANGED hubVars
  BY <1>1, <1>3, <1>4, ProcessHidden, OfferPublishes DEF SysInv, HP!Next
<1>5. CASE Pumps
  BY <1>5, HubStepIs, PumpStepIs DEF Pumps, HP!Next
<1>6. ASSUME NEW k \in Kinds, TakeWs(k)
      PROVE  HP!Next
  BY <1>6, HubStepIs DEF TakeWs, HP!Next
<1>7. ASSUME NEW c \in Clients, CmdWs(c)
      PROVE  HP!Next
  BY <1>7, HubStepIs DEF CmdWs, HP!Next
<1>8. CASE CmdWsCalls
  <2>1. UNCHANGED hubVars
    BY <1>8 DEF CmdWsCalls
  <2>2. Hidden
    BY <1>8, AsideHidden
       DEF CmdWsCalls, Cmd, CmdCheck, CmdWrite, readVars, appVars, wsVars
  <2>. QED
    BY <1>1, <2>1, <2>2
<1>9. CASE CmdWsReturns
  BY <1>9, HubStepIs DEF CmdWsReturns, HP!Next
<1>10. CASE Ended /\ UNCHANGED hubVars
  BY <1>1, <1>2, <1>10 DEF Ended
<1>11. CASE UNCHANGED sysVars
  BY <1>1, <1>2, <1>11 DEF sysVars
<1>. QED
  BY <1>4, <1>5, <1>6, <1>7, <1>8, <1>9, <1>10, <1>11 DEF SysNext

LEMMA HubRefined == SysSpec => HP!Spec
<1>1. SysInit => HP!Init
  BY DEF SysInit, H!Init, HP!Init, H!Kinds, HP!Kinds
<1>2. SysInv /\ [SysNext]_sysVars => [HP!Next]_(HP!vars)
  BY HubIs
<1>. QED
  BY <1>1, <1>2, SystemInductive, PTL DEF SysSpec, HP!Spec
(* HP is WsHub_proofs, and with it WsHub, under the mapping that H is of    *)
(* WsHub: the two have the same steps.                                     *)
LEMMA VarsAre == UNCHANGED HP!vars => UNCHANGED H!vars
BY DEF HP!vars, HP!chanVars, HP!streamVars, HP!connVars, HP!hubVars,
       H!vars, H!chanVars, H!streamVars, H!connVars, H!hubVars

LEMMA NextIs == HP!Next => H!Next
<1>. USE DEF H!chanVars, H!streamVars, H!connVars, H!hubVars,
             HP!chanVars, HP!streamVars, HP!connVars, HP!hubVars
<1>1. ASSUME NEW k \in Kinds, HP!Publish(k)
      PROVE  H!Publish(k)
  BY <1>1 DEF HP!Publish, H!Publish
<1>2. ASSUME HP!HubStep
      PROVE  H!HubStep
  <2>1. ASSUME NEW k \in Kinds, HP!HubTake(k)
        PROVE  H!HubTake(k)
    BY <2>1 DEF H!HubTake, HP!HubTake
  <2>2. ASSUME HP!HubCommandDone
        PROVE  H!HubCommandDone
    BY <2>2 DEF H!HubCommandDone, HP!HubCommandDone
  <2>3. ASSUME NEW c \in Clients, HP!HubRegister(c)
        PROVE  H!HubRegister(c)
    BY <2>3 DEF H!HubRegister, HP!HubRegister
  <2>4. ASSUME NEW c \in Clients, HP!HubUnregister(c)
        PROVE  H!HubUnregister(c)
    BY <2>4 DEF H!HubUnregister, HP!HubUnregister, H!CloseFault, HP!CloseFault
  <2>5. ASSUME NEW c \in Clients, HP!HubCommand(c)
        PROVE  H!HubCommand(c)
    BY <2>5 DEF H!HubCommand, HP!HubCommand
  <2>6. ASSUME NEW c \in Clients, HP!HubSend(c)
        PROVE  H!HubSend(c)
    BY <2>6 DEF H!HubSend, HP!HubSend, H!Visited, HP!Visited, H!SendFault, HP!SendFault
  <2>7. ASSUME NEW c \in Clients, HP!HubDrop(c)
        PROVE  H!HubDrop(c)
    BY <2>7 DEF H!HubDrop, HP!HubDrop, H!Visited, HP!Visited, H!CloseFault, HP!CloseFault
  <2>8. HP!Kinds = Kinds /\ H!Kinds = Kinds
    BY DEF HP!Kinds, H!Kinds, Kinds
  <2>. QED
    BY <1>2, <2>1, <2>2, <2>3, <2>4, <2>5, <2>6, <2>7, <2>8 DEF HP!HubStep, H!HubStep
<1>3. ASSUME NEW c \in Clients, HP!Serving(c)
      PROVE  H!Serving(c)
  BY <1>3 DEF H!Serving, HP!Serving, H!Upgrade, HP!Upgrade, H!StartPumps, HP!StartPumps,
              H!PeerGone, HP!PeerGone
<1>4. ASSUME NEW c \in Clients, HP!ReadPump(c)
      PROVE  H!ReadPump(c)
  BY <1>4 DEF H!ReadPump, HP!ReadPump, H!ReadMessage, HP!ReadMessage, H!ReadFails,
              HP!ReadFails, H!ReadPumpCloses, HP!ReadPumpCloses
<1>5. ASSUME NEW c \in Clients, HP!WritePump(c)
      PROVE  H!WritePump(c)
  BY <1>5 DEF H!WritePump, HP!WritePump, H!Receive, HP!Receive, H!CountQueued,
              HP!CountQueued, H!DrainOne, HP!DrainOne, H!Flush, HP!Flush, H!SendClosed,
              HP!SendClosed, H!PingFails, HP!PingFails, H!WritePumpCloses,
              HP!WritePumpCloses, H!WpTo, HP!WpTo
<1>6. ASSUME HP!Idle
      PROVE  H!Idle
  BY <1>6, VarsAre DEF HP!Idle, H!Idle, HP!Quiet, H!Quiet, HP!Kinds, H!Kinds
<1>7. HP!Kinds = Kinds /\ H!Kinds = Kinds
  BY DEF HP!Kinds, H!Kinds, Kinds
<1>. QED
  BY <1>1, <1>2, <1>3, <1>4, <1>5, <1>6, <1>7 DEF HP!Next, H!Next

(* The hub, fed by read() and served by CmdWs, is WsHub's (ws.go): read()  *)
(* waits for the application before it offers a message, Close and a       *)
(* failing connection end it anywhere, and CmdWs waits for the connection, *)
(* but what the hub and the browsers may see is what WsHub allows.         *)
THEOREM HubIsRefined == SysSpec => ImplementsWsHub
<1>1. SysInit => H!Init
  BY DEF SysInit
<1>2. SysInv /\ [SysNext]_sysVars => [H!Next]_(H!vars)
  BY HubIs, NextIs, VarsAre
<1>. QED
  BY <1>1, <1>2, SystemInductive, PTL DEF SysSpec, ImplementsWsHub, H!Spec
-----------------------------------------------------------------------------
(* What is proved of the hub holds in the system. *)
HubInv == HP!TypeOK /\ HP!Ordered /\ HP!LogInOrder /\ HP!NoGap

LEMMA HubInductive == SysSpec => []HubInv
<1>1. /\ SendCap \in Nat \ {0} /\ WsCap \in Nat \ {0}
      /\ MaxPublished \in [HP!Kinds -> Nat] /\ MaxCommands \in Nat
  BY CapAssumption DEF HP!Kinds, Kinds
<1>2. HP!Spec => []HP!TypeOK
  BY <1>1, HP!TypeCorrect
<1>3. HP!Spec => [](HP!Ordered /\ HP!LogInOrder)
  BY <1>1, HP!LogFollowsReader
<1>4. HP!Spec => []HP!NoGap
  BY <1>1, HP!ClientsMissNothing
<1>. QED
  BY <1>2, <1>3, <1>4, HubRefined, PTL DEF HubInv

(* How far the hub has got in the messages of a kind, compared with the    *)
(* application.                                                            *)
LEMMA LogAfterTheApp ==
  ASSUME SysInv, HubInv, NEW i \in 1..Len(log)
  PROVE  log[i].kind \in Kinds /\ log[i].id \in 1..Len(Queued(log[i].kind))
<1>1. log[i] \in HP!Messages
  BY ElementOfSeq DEF HubInv, HP!TypeOK, HP!ChanTypeOK
<1>2. PICK k \in Kinds : log[i].kind = k /\ log[i].id \in 1..MaxPublished[k]
  <2>1. PICK k \in Kinds : log[i] \in [kind : {k}, id : 1..MaxPublished[k]]
    BY <1>1 DEF HP!Messages, HP!Kinds, Kinds
  <2>. QED
    BY <2>1
<1>3. log[i].id <= Published(k)
  <2>1. HP!Behind(log, BriefChan[k], k, [l \in Kinds |-> Published(l)][k])
    BY DEF HubInv, HP!Ordered, HP!Kinds, Kinds
  <2>. QED
    BY <1>2, <2>1 DEF HP!Behind
<1>4. Len(Queued(k)) \in Nat
  BY QueuedType DEF SysInv, IInv, TypeOK
<1>5. Published(k) <= Len(Queued(k)) /\ Published(k) \in Int
  BY <1>4 DEF Published
<1>6. log[i].id \in Nat /\ 1 <= log[i].id
  BY <1>2
<1>. QED
  BY <1>2, <1>3, <1>4, <1>5, <1>6

LEMMA ViewAfterTheApp ==
  ASSUME SysInv, HubInv
  PROVE  AfterTheApp
<1>1. SUFFICES ASSUME NEW c \in Clients, NEW i \in 1..Len(H!View(c))
               PROVE  /\ H!View(c)[i].id \in 1..Len(Queued(H!View(c)[i].kind))
                      /\ \A j \in 1..(i - 1) :
                           H!View(c)[j].kind = H!View(c)[i].kind
                             => H!View(c)[j].id < H!View(c)[i].id
  BY DEF AfterTheApp
<1>2. PICK v : v = H!View(c) /\ v = HP!View(c)
  BY DEF H!View, HP!View
<1>3. PICK a \in Nat, n \in Nat, g \in Seq(HP!Messages) : a = from[c] /\ n = Len(log) /\ g = log
  BY LenProperties DEF HubInv, HP!TypeOK, HP!ChanTypeOK, HP!HubTypeOK
<1>4. PICK l \in Nat : l = Len(v) /\ a + l <= n /\ v = SubSeq(g, a + 1, a + l)
  <2>1. v \in Seq(HP!Messages)
    <3>1. /\ seen[c] \in Seq(HP!Messages) /\ batch[c] \in Seq(HP!Messages)
          /\ send[c] \in Seq(HP!Messages)
      BY DEF HubInv, HP!TypeOK, HP!StreamTypeOK
    <3>. QED
      BY <1>2, <3>1, ConcatProperties DEF HP!View
  <2>2. Len(v) \in Nat
    BY <2>1, LenProperties
  <2>. QED
    BY <1>2, <1>3, <2>2 DEF HubInv, HP!NoGap
<1>5. \A k \in 1..l : v[k] = g[a + k] /\ a + k \in 1..n
  <2>1. a + 1 \in 1..(Len(g) + 1) /\ a + l \in ((a + 1) - 1)..Len(g)
    <3>1. Len(g) = n /\ a + l <= n
      BY <1>3, <1>4
    <3>2. a + 1 \in 1..(n + 1) /\ a + l \in ((a + 1) - 1)..n
      BY <3>1
    <3>. QED
      BY <3>1, <3>2
  <2>2. \A k \in 1..((a + l) - (a + 1) + 1) : SubSeq(g, a + 1, a + l)[k] = g[(a + 1) + k - 1]
    BY <2>1, SubSeqIn
  <2>3. \A k \in 1..l : k \in 1..((a + l) - (a + 1) + 1) /\ (a + 1) + k - 1 = a + k
    OBVIOUS
  <2>. QED
    BY <1>4, <2>2, <2>3
<1>6. i \in 1..l /\ v[i] = g[a + i] /\ a + i \in 1..n
  BY <1>1, <1>2, <1>4, <1>5
<1>7. v[i].id \in 1..Len(Queued(v[i].kind))
  BY <1>3, <1>6, LogAfterTheApp
<1>8. ASSUME NEW j \in 1..(i - 1), v[j].kind = v[i].kind
      PROVE  v[j].id < v[i].id
  <2>1. j \in 1..l /\ a + j < a + i
    BY <1>6
  <2>2. v[j] = g[a + j] /\ a + j \in 1..n
    BY <1>5, <2>1
  <2>. QED
    BY <1>3, <1>6, <1>8, <2>1, <2>2 DEF HubInv, HP!LogInOrder
<1>. QED
  BY <1>2, <1>7, <1>8

(* A browser never has a message that the application's channel has not    *)
(* had before, and has the messages of a kind in the order baresip sent    *)
(* them (read() fills the application's channel first, gobaresip.go:222;   *)
(* the hub may be any number of messages behind, and drop some).           *)
THEOREM BrowsersFollowTheApp == SysSpec => []AfterTheApp
<1>1. SysInv /\ HubInv => AfterTheApp
  BY ViewAfterTheApp
<1>. QED
  BY <1>1, SystemInductive, HubInductive, PTL

(* What CtrlClient says of the application's channels, of the answers to   *)
(* "auto" commands and of the websocket side holds also when the hub is    *)
(* one of the callers and takes the messages when ws.go does.              *)
THEOREM ConnectionKeepsPromises ==
  SysSpec => [](AppLossless /\ AutoReplyFresh /\ WsFollowsApp)
<1>1. Spec => []AppLossless
  BY NothingLost
<1>2. Spec => []AutoReplyFresh
  BY AnswersFresh
<1>3. Spec => []WsFollowsApp
  BY HubFollows
<1>. QED
  BY <1>1, <1>2, <1>3, ConnectionRefined, PTL DEF ImplementsCtrlClient

(* The hub and the pumps do not panic in the system, and each browser is   *)
(* sent a gapless part of what the hub broadcast.                          *)
THEOREM HubKeepsPromises == SysSpec => [](H!NoPanic /\ H!NoGap)
<1>1. /\ SendCap \in Nat \ {0} /\ WsCap \in Nat \ {0}
      /\ MaxPublished \in [HP!Kinds -> Nat] /\ MaxCommands \in Nat
  BY CapAssumption DEF HP!Kinds, Kinds
<1>2. HP!Spec => []HP!NoPanic
  BY <1>1, HP!HubNeverPanics
<1>3. HP!Spec => []HP!NoGap
  BY <1>1, HP!ClientsMissNothing
<1>4. HP!NoPanic /\ HP!NoGap => H!NoPanic /\ H!NoGap
  BY DEF HP!NoPanic, H!NoPanic, HP!NoGap, H!NoGap, HP!View, H!View
<1>. QED
  BY <1>2, <1>3, <1>4, HubRefined, PTL

(* So the browsers see what Fanout promises: one sequence of messages,     *)
(* each browser a gapless piece of it from its registration on, read()     *)
(* and the connection included.                                            *)
THEOREM BrowsersSeeAFanout == SysSpec => HP!ImplementsFanout
<1>1. /\ SendCap \in Nat \ {0} /\ WsCap \in Nat \ {0}
      /\ MaxPublished \in [HP!Kinds -> Nat] /\ MaxCommands \in Nat
  BY CapAssumption DEF HP!Kinds, Kinds
<1>2. HP!Spec => HP!ImplementsFanout
  BY <1>1, HP!HubIsFanout
<1>. QED
  BY <1>2, HubRefined, PTL
=============================================================================
