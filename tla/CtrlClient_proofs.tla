------------------------- MODULE CtrlClient_proofs -------------------------
(***************************************************************************)
(* Safety of the control connection, for any number of goroutines, any     *)
(* capacities and any number of messages.                                  *)
(***************************************************************************)
EXTENDS CtrlClient, SeqLemmas

(* read() is started by Run. *)
ReadAfterRun == main = "new" => rd = "idle"

(* keepActive is within its bound. *)
PingDue == keep = "write" => pings < MaxPings

USE CapAssumption, WsAssumption, BoundAssumption

-----------------------------------------------------------------------------
LEMMA PingType == Ping \in Commands
BY DEF Ping, Commands, Tokens

LEMMA InitTypeOK == Init => TypeOK
<1>. SUFFICES ASSUME Init
              PROVE  TypeOK
  OBVIOUS
<1>1. /\ \A S : <<>> \in Seq(S)
      /\ Len(<<>>) = 0
      /\ 0 \in 0..MaxEmitted /\ 0 \in 0..MaxPings /\ 0 \in 0..MaxCalls
  BY EmptySeq
<1>2. StreamTypeOK
  BY <1>1 DEF Init, StreamTypeOK
<1>3. ReadTypeOK
  BY <1>1 DEF Init, ReadTypeOK, Handling
<1>4. ChanTypeOK
  BY <1>1 DEF Init, ChanTypeOK
<1>5. WsTypeOK
  BY <1>1 DEF Init, WsTypeOK
<1>6. CallTypeOK
  BY <1>1, PingType DEF Init, CallTypeOK
<1>7. MainTypeOK
  BY <1>1 DEF Init, MainTypeOK
<1>. QED
  BY <1>2, <1>3, <1>4, <1>5, <1>6, <1>7 DEF TypeOK

(* The message read() is handling. *)
LEMMA CurType ==
  ASSUME ReadTypeOK, Handling
  PROVE  cur[1] \in Messages /\ cur[1].kind \in Kinds
<1>1. Len(cur) = 1 /\ cur \in Seq(Messages) /\ cur[1].kind \in Kinds
  BY DEF ReadTypeOK
<1>2. 1 \in 1..Len(cur)
  BY <1>1
<1>3. cur[1] \in Messages
  BY <1>1, <1>2, ElementOfSeq
<1>. QED
  BY <1>1, <1>3

LEMMA WriteType ==
  ASSUME StreamTypeOK, NEW m \in Commands, NEW ok \in BOOLEAN, Write(m, ok)
  PROVE  out' \in Seq(Commands)
<1>1. Append(out, m) \in Seq(Commands)
  BY AppendProperties DEF StreamTypeOK
<1>. QED
  BY <1>1 DEF Write, StreamTypeOK

LEMMA SendType ==
  ASSUME StreamTypeOK, NEW m \in Messages, Send(m)
  PROVE  /\ wire' \in Seq(Messages)
         /\ arrived' \in [Kinds -> Nat]
<1>1. Append(wire, m) \in Seq(Messages)
  BY AppendProperties DEF StreamTypeOK
<1>. QED
  BY <1>1 DEF Send, StreamTypeOK

LEMMA StreamTypeStep ==
  ASSUME TypeOK, [Next]_vars
  PROVE  StreamTypeOK'
<1>. USE DEF TypeOK
<1>1. CASE Emit
  <2>. DEFINE e == [kind |-> "event", id |-> arrived["event"] + 1, tok |-> "plain",
                    callid |-> FALSE, since |-> 0, ver |-> 0]
              o(j) == [kind |-> j, id |-> 0, tok |-> "plain",
                       callid |-> FALSE, since |-> 0, ver |-> 0]
  <2>a. e \in Messages /\ \A j \in {"other", "bad"} : o(j) \in Messages
    BY DEF Messages, StreamTypeOK, Kinds, Tokens
  <2>b. Send(e) \/ \E j \in {"other", "bad"} : Send(o(j))
    BY <1>1 DEF Emit
  <2>1. PICK m \in Messages : Send(m)
    BY <2>a, <2>b
  <2>. QED
    BY <1>1, <2>1, SendType DEF Emit, StreamTypeOK
<1>2. CASE Reply
  <2>1. Head(out) \in Commands /\ Tail(out) \in Seq(Commands)
    BY <1>2, HeadTailProperties DEF Reply, StreamTypeOK
  <2>. DEFINE r(b) == [kind |-> "response", id |-> arrived["response"] + 1,
                       tok |-> Head(out).tok, callid |-> b,
                       since |-> Head(out).since, ver |-> 0]
  <2>a. \A b \in BOOLEAN : r(b) \in Messages
    BY <2>1 DEF Messages, Commands, StreamTypeOK, Kinds
  <2>b. PICK b \in BOOLEAN : Send(r(b))
    BY <1>2 DEF Reply
  <2>2. PICK m \in Messages : Send(m)
    BY <2>a, <2>b
  <2>. QED
    BY <1>2, <2>1, <2>2, SendType DEF Reply, StreamTypeOK
<1>3. CASE ReadNetstring
  <2>1. Tail(wire) \in Seq(Messages)
    BY <1>3, HeadTailProperties DEF ReadNetstring, StreamTypeOK
  <2>. QED
    BY <1>3, <2>1 DEF ReadNetstring, StreamTypeOK
<1>4. ASSUME NEW c \in Callers, CmdWrite(c)
      PROVE  StreamTypeOK'
  <2>1. op[c] \in Commands
    BY DEF CallTypeOK
  <2>. QED
    BY <1>4, <2>1, WriteType DEF CmdWrite, StreamTypeOK
<1>5. ASSUME NEW i \in DOMAIN timer, HangupWrite(i)
      PROVE  StreamTypeOK'
  <2>1. [Ping EXCEPT !.hangs = i] \in Commands
    BY LenProperties DEF CallTypeOK, Ping, Commands, Tokens
  <2>. QED
    BY <1>5, <2>1, WriteType DEF HangupWrite, StreamTypeOK
<1>6. CASE KeepPing
  BY <1>6, PingType, WriteType DEF KeepPing, StreamTypeOK
<1>7. CASE UNCHANGED streamVars
  BY <1>7 DEF streamVars, StreamTypeOK
<1>. QED
  BY <1>1, <1>2, <1>3, <1>4, <1>5, <1>6, <1>7
     DEF Next, Read, ReadCheck, ReadError, ReadHandle, ReadPut, ReadWs, Keep, KeepWake,
         Close, CloseConn, CloseChan, RunStart, RunReturns, ConnEnds, CloseStart, AppTake, HubTake,
         CallPlain, CallAuto, Cmd, CmdCheck, Hangup, HangupDue, Ended, vars

LEMMA ReadTypeStep ==
  ASSUME TypeOK, ReadAfterRun, [Next]_vars
  PROVE  ReadTypeOK' /\ ReadAfterRun'
<1>0. ReadAfterRun'
  BY DEF ReadAfterRun, Next, Emit, Reply, Read, ReadCheck, ReadNetstring, ReadError,
         ReadHandle, ReadPut, ReadWs, Keep, KeepWake, KeepPing, Close, CloseConn,
         CloseChan, RunStart, RunReturns, ConnEnds, CloseStart, AppTake, HubTake, CallPlain,
         CallAuto, Cmd, CmdCheck, CmdWrite, Hangup, HangupDue, HangupWrite, Ended, vars,
         mainVars, readVars
<1>. USE DEF TypeOK, ReadTypeOK, Handling
<1>1. ASSUME ReadCheck
      PROVE  ReadTypeOK'
  BY <1>1 DEF ReadCheck
<1>2. ASSUME ReadNetstring
      PROVE  ReadTypeOK'
  <2>1. Head(wire) \in Messages
    BY <1>2, HeadTailProperties DEF ReadNetstring, StreamTypeOK
  <2>2. <<Head(wire)>> \in Seq(Messages) /\ Len(<<Head(wire)>>) = 1
        /\ <<Head(wire)>>[1] = Head(wire)
    BY <2>1
  <2>. QED
    BY <1>2, <2>2 DEF ReadNetstring
<1>3. ASSUME ReadError
      PROVE  ReadTypeOK'
  BY <1>3 DEF ReadError
<1>4. ASSUME ReadHandle
      PROVE  ReadTypeOK'
  <2>. DEFINE m == [cur[1] EXCEPT !.ver = ver]
  <2>1. m \in Messages /\ m.kind = cur[1].kind
    BY <1>4, CurType DEF ReadHandle, Messages, CallTypeOK
  <2>2. cur' = <<m>> \/ cur' = cur
    BY <1>4 DEF ReadHandle
  <2>. HIDE DEF m
  <2>3. <<m>> \in Seq(Messages) /\ Len(<<m>>) = 1 /\ <<m>>[1] = m
    BY <2>1
  <2>. QED
    BY <1>4, <2>1, <2>2, <2>3 DEF ReadHandle
<1>5. ASSUME ReadPut
      PROVE  ReadTypeOK'
  BY <1>5 DEF ReadPut
<1>6. ASSUME ReadWs
      PROVE  ReadTypeOK'
  BY <1>6, EmptySeq DEF ReadWs
<1>7. ASSUME RunStart
      PROVE  ReadTypeOK'
  <2>1. rd' = "check" /\ cur' = cur /\ rd = "idle"
    BY <1>7 DEF RunStart, ReadAfterRun
  <2>. QED
    BY <2>1
<1>8. ASSUME UNCHANGED readVars
      PROVE  ReadTypeOK'
  BY <1>8 DEF readVars
<1>9. ReadTypeOK'
  BY <1>1, <1>2, <1>3, <1>4, <1>5, <1>6, <1>7, <1>8
     DEF Next, Emit, Reply, Read, Keep, KeepWake, KeepPing, Close, CloseConn, CloseChan,
         RunReturns, ConnEnds, CloseStart, AppTake, HubTake, CallPlain, CallAuto, Cmd, CmdCheck,
         CmdWrite, Hangup, HangupDue, HangupWrite, Ended, vars
<1>. QED
  BY <1>0, <1>9

LEMMA ChanTypeStep ==
  ASSUME TypeOK, [Next]_vars
  PROVE  ChanTypeOK' /\ WsTypeOK'
<1>. USE DEF TypeOK, ChanTypeOK, WsTypeOK
<1>1. ASSUME ReadPut
      PROVE  ChanTypeOK'
  <2>1. cur[1] \in Messages /\ cur[1].kind \in Kinds
    BY <1>1, CurType DEF ReadPut, Handling
  <2>. DEFINE k == cur[1].kind
              q == Append(chan[k], cur[1])
  <2>2. q \in Seq(Messages) /\ Len(q) = Len(chan[k]) + 1 /\ Len(chan[k]) \in Nat
    BY <2>1, AppendProperties, LenProperties
  <2>3. UNCHANGED chan \/ (Len(chan[k]) < ChanCap /\ chan' = [chan EXCEPT ![k] = q])
    BY <1>1 DEF ReadPut
  <2>4. UNCHANGED <<got, closed>>
    BY <1>1 DEF ReadPut
  <2>. HIDE DEF q
  <2>5. CASE UNCHANGED chan
    BY <2>4, <2>5
  <2>6. CASE Len(chan[k]) < ChanCap /\ chan' = [chan EXCEPT ![k] = q]
    <3>1. Len(q) <= ChanCap
      BY <2>2, <2>6
    <3>. QED
      BY <2>1, <2>2, <2>4, <2>6, <3>1
  <2>. QED
    BY <2>3, <2>5, <2>6
<1>2. ASSUME ReadWs
      PROVE  WsTypeOK'
  <2>1. cur[1] \in Messages /\ cur[1].kind \in Kinds
    BY <1>2, CurType DEF ReadWs, Handling
  <2>. DEFINE k == cur[1].kind
              q == Append(wsChan[k], cur[1])
  <2>2. q \in Seq(Messages) /\ Len(q) = Len(wsChan[k]) + 1 /\ Len(wsChan[k]) \in Nat
    BY <2>1, AppendProperties, LenProperties
  <2>3. UNCHANGED wsChan \/ (Len(wsChan[k]) < WsCap /\ wsChan' = [wsChan EXCEPT ![k] = q])
    BY <1>2 DEF ReadWs
  <2>. HIDE DEF q
  <2>. QED
    BY <1>2, <2>1, <2>2, <2>3, SMTT(30) DEF ReadWs
<1>3. ASSUME NEW k \in Kinds, AppTake(k)
      PROVE  ChanTypeOK'
  <2>1. /\ Head(chan[k]) \in Messages /\ Tail(chan[k]) \in Seq(Messages)
        /\ Len(Tail(chan[k])) = Len(chan[k]) - 1 /\ Len(chan[k]) \in Nat
    BY <1>3, HeadTailProperties, LenProperties DEF AppTake
  <2>2. Append(got[k], Head(chan[k])) \in Seq(Messages)
    BY <2>1, AppendProperties
  <2>. QED
    BY <1>3, <2>1, <2>2 DEF AppTake
<1>4. ASSUME NEW k \in Kinds, HubTake(k)
      PROVE  WsTypeOK'
  <2>1. /\ Head(wsChan[k]) \in Messages /\ Tail(wsChan[k]) \in Seq(Messages)
        /\ Len(Tail(wsChan[k])) = Len(wsChan[k]) - 1 /\ Len(wsChan[k]) \in Nat
    BY <1>4, HeadTailProperties, LenProperties DEF HubTake
  <2>2. Append(wsGot[k], Head(wsChan[k])) \in Seq(Messages)
    BY <2>1, AppendProperties
  <2>. QED
    BY <1>4, <2>1, <2>2 DEF HubTake
<1>5. ASSUME NEW k \in Kinds, CloseChan(k)
      PROVE  ChanTypeOK'
  BY <1>5 DEF CloseChan
<1>6. ASSUME UNCHANGED appVars
      PROVE  ChanTypeOK'
  BY <1>6 DEF appVars
<1>7. ASSUME UNCHANGED wsVars
      PROVE  WsTypeOK'
  BY <1>7 DEF wsVars
<1>8. ChanTypeOK'
  BY <1>1, <1>3, <1>5, <1>6
     DEF Next, Emit, Reply, Read, ReadCheck, ReadNetstring, ReadError, ReadHandle, ReadWs,
         Keep, KeepWake, KeepPing, Close, CloseConn, RunStart, RunReturns, ConnEnds, CloseStart,
         HubTake, CallPlain, CallAuto, Cmd, CmdCheck, CmdWrite, Hangup, HangupDue,
         HangupWrite, Ended, vars
<1>9. WsTypeOK'
  BY <1>2, <1>4, <1>7
     DEF Next, Emit, Reply, Read, ReadCheck, ReadNetstring, ReadError, ReadHandle, ReadPut,
         Keep, KeepWake, KeepPing, Close, CloseConn, CloseChan, RunStart, RunReturns, ConnEnds,
         CloseStart, AppTake, CallPlain, CallAuto, Cmd, CmdCheck, CmdWrite, Hangup,
         HangupDue, HangupWrite, Ended, vars
<1>. QED
  BY <1>8, <1>9

LEMMA CallTypeStep ==
  ASSUME TypeOK, [Next]_vars
  PROVE  CallTypeOK'
<1>. USE DEF TypeOK, CallTypeOK
<1>1. ASSUME ReadHandle
      PROVE  CallTypeOK'
  <2>1. Append(timer, "sleep") \in Seq({"sleep", "write", "done", "failed"})
    BY AppendProperties
  <2>2. timer' \in Seq({"sleep", "write", "done", "failed"})
    BY <1>1, <2>1 DEF ReadHandle, HangupTimer
  <2>. QED
    BY <1>1, <2>2 DEF ReadHandle, autoVars
<1>2. ASSUME NEW c \in Callers, NEW m \in Commands, Issue(c, m)
      PROVE  /\ call' \in [Callers -> {"idle", "check", "write"}]
             /\ op' \in [Callers -> Commands] /\ calls' \in 0..MaxCalls
  BY <1>2 DEF Issue
<1>3. ASSUME NEW c \in Callers, CallPlain(c)
      PROVE  CallTypeOK'
  <2>1. \A t \in {"dial", "plain"} : [Ping EXCEPT !.tok = t] \in Commands
    BY DEF Ping, Commands, Tokens
  <2>. QED
    BY <1>2, <1>3, <2>1 DEF CallPlain, autoVars
<1>4. ASSUME NEW c \in Callers, CallAuto(c)
      PROVE  CallTypeOK'
  <2>1. ver' \in Nat /\ gapOn' \in BOOLEAN
    BY <1>4 DEF CallAuto
  <2>2. [Ping EXCEPT !.tok = "auto", !.since = ver'] \in Commands
    BY <2>1 DEF Ping, Commands, Tokens
  <2>. QED
    BY <1>2, <1>4, <2>1, <2>2 DEF CallAuto
<1>5. ASSUME NEW c \in Callers, Cmd(c)
      PROVE  CallTypeOK'
  BY <1>5 DEF Cmd, CmdCheck, CmdWrite, autoVars
<1>6. ASSUME NEW i \in DOMAIN timer, Hangup(i)
      PROVE  CallTypeOK'
  <2>1. PICK t \in {"write", "done", "failed"} : timer' = [timer EXCEPT ![i] = t]
    BY <1>6 DEF Hangup, HangupDue, HangupWrite
  <2>2. timer' \in Seq({"sleep", "write", "done", "failed"})
    BY <2>1, LenProperties, ExceptSeq
  <2>. QED
    BY <1>6, <2>2 DEF Hangup, HangupDue, HangupWrite, autoVars
<1>7. ASSUME UNCHANGED callVars, UNCHANGED autoVars
      PROVE  CallTypeOK'
  BY <1>7 DEF callVars, autoVars
<1>. QED
  BY <1>1, <1>3, <1>4, <1>5, <1>6, <1>7
     DEF Next, Emit, Reply, Read, ReadCheck, ReadNetstring, ReadError, ReadPut, ReadWs,
         Keep, KeepWake, KeepPing, Close, CloseConn, CloseChan, RunStart, RunReturns, ConnEnds,
         CloseStart, AppTake, HubTake, Ended, vars

LEMMA MainTypeStep ==
  ASSUME TypeOK, PingDue, [Next]_vars
  PROVE  MainTypeOK' /\ PingDue'
<1>. USE DEF TypeOK, MainTypeOK, PingDue
<1>1. ASSUME Keep
      PROVE  MainTypeOK' /\ PingDue'
  <2>1. CASE KeepWake
    BY <2>1 DEF KeepWake, mainVars
  <2>2. CASE KeepPing
    <3>1. pings + 1 \in 0..MaxPings
      BY <2>2 DEF KeepPing
    <3>. QED
      BY <2>2, <3>1 DEF KeepPing, mainVars
  <2>. QED
    BY <1>1, <2>1, <2>2 DEF Keep
<1>2. ASSUME RunStart \/ RunReturns \/ ConnEnds \/ CloseStart \/ Close
      PROVE  MainTypeOK' /\ PingDue'
  BY <1>2 DEF RunStart, RunReturns, ConnEnds, CloseStart, Close, CloseConn, CloseChan,
              keepVars, Kinds
<1>3. ASSUME ReadPut
      PROVE  MainTypeOK' /\ PingDue'
  BY <1>3 DEF ReadPut, keepVars, mainVars
<1>4. ASSUME UNCHANGED keepVars, UNCHANGED mainVars, UNCHANGED fault
      PROVE  MainTypeOK' /\ PingDue'
  BY <1>4 DEF keepVars, mainVars
<1>. QED
  BY <1>1, <1>2, <1>3, <1>4
     DEF Next, Emit, Reply, Read, ReadCheck, ReadNetstring, ReadError, ReadHandle, ReadWs,
         AppTake, HubTake, CallPlain, CallAuto, Cmd, CmdCheck, CmdWrite, Hangup,
         HangupDue, HangupWrite, Ended, vars
-----------------------------------------------------------------------------
(* Only read() changes what has been put into an application's channel,    *)
(* and only by adding the message it holds.                                *)
LEMMA TakeKeepsQueue ==
  ASSUME ChanTypeOK, NEW j \in Kinds, AppTake(j), NEW k \in Kinds
  PROVE  Queued(k)' = Queued(k)
<1>1. CASE k = j
  <2>1. got[k] \in Seq(Messages) /\ chan[k] \in Seq(Messages) /\ chan[k] # <<>>
    BY <1>1 DEF AppTake, ChanTypeOK
  <2>2. Append(got[k], Head(chan[k])) \o Tail(chan[k]) = got[k] \o chan[k]
    BY <2>1, MoveHead
  <2>3. got'[k] = Append(got[k], Head(chan[k])) /\ chan'[k] = Tail(chan[k])
    BY <1>1 DEF AppTake, ChanTypeOK
  <2>. QED
    BY <2>2, <2>3 DEF Queued
<1>2. CASE k # j
  BY <1>2 DEF AppTake, ChanTypeOK, Queued
<1>. QED
  BY <1>1, <1>2

LEMMA QueuedType ==
  ASSUME ChanTypeOK, NEW k \in Kinds
  PROVE  Queued(k) \in Seq(Messages) /\ Len(Queued(k)) \in Nat
BY ConcatProperties, LenProperties DEF ChanTypeOK, Queued

LEMMA PutExtendsQueue ==
  ASSUME ChanTypeOK, ReadTypeOK, ReadPut, rd' = "ws", NEW k \in Kinds
  PROVE  /\ k = cur[1].kind => Queued(k)' = Append(Queued(k), cur[1])
         /\ k # cur[1].kind => Queued(k)' = Queued(k)
         /\ UNCHANGED cur
<1>1. cur[1] \in Messages /\ cur[1].kind \in Kinds
  BY CurType DEF ReadPut, Handling
<1>2. chan' = [chan EXCEPT ![cur[1].kind] = Append(@, cur[1])] /\ UNCHANGED <<got, cur>>
  BY DEF ReadPut
<1>3. CASE k = cur[1].kind
  <2>1. got[k] \o Append(chan[k], cur[1]) = Append(got[k] \o chan[k], cur[1])
    BY <1>1, AppendEnd DEF ChanTypeOK
  <2>2. chan'[k] = Append(chan[k], cur[1]) /\ got'[k] = got[k]
    BY <1>2, <1>3 DEF ChanTypeOK
  <2>. QED
    BY <1>2, <1>3, <2>1, <2>2 DEF Queued
<1>4. CASE k # cur[1].kind
  BY <1>2, <1>4 DEF ChanTypeOK, Queued
<1>. QED
  BY <1>3, <1>4

(* Nothing of kind k is lost, and read() has not taken more than was sent. *)
Lossless(k) == /\ QueueInOrder(k) /\ HeldIsNext(k)
               /\ WireIsNew(k) /\ WireInOrder(k) /\ WireHasRest(k)
               /\ Taken(k) <= arrived[k]

LEMMA TakenType ==
  ASSUME ChanTypeOK, NEW k \in Kinds
  PROVE  Taken(k) \in Nat
BY QueuedType DEF Taken

(* A step that moves nothing of kind k between the channel, read() and the *)
(* wire.                                                                   *)
LEMMA LosslessSame ==
  ASSUME NEW k \in Kinds, Lossless(k), UNCHANGED <<wire, arrived>>,
         Queued(k)' = Queued(k), Holds(k)' <=> Holds(k), Holds(k) => cur'[1].id = cur[1].id
  PROVE  Lossless(k)'
<1>1. Taken(k)' = Taken(k)
  BY DEF Taken
<1>. QED
  BY <1>1 DEF Lossless, QueueInOrder, HeldIsNext, WireIsNew, WireInOrder, WireHasRest

LEMMA WireType ==
  ASSUME StreamTypeOK, NEW i \in 1..Len(wire)
  PROVE  wire[i] \in Messages /\ wire[i].id \in Nat /\ wire[i].ver \in Nat
         /\ wire[i].since \in Nat
<1>1. wire[i] \in Messages
  BY ElementOfSeq DEF StreamTypeOK
<1>. QED
  BY <1>1 DEF Messages

LEMMA LosslessSend ==
  ASSUME StreamTypeOK, ChanTypeOK, NEW k \in Kinds, Lossless(k), NEW m \in Messages,
         Send(m), m.kind \in Kinds => m.id = arrived[m.kind] + 1,
         UNCHANGED <<appVars, readVars>>
  PROVE  Lossless(k)'
<1>1. Queued(k)' = Queued(k) /\ Holds(k)' = Holds(k) /\ Taken(k)' = Taken(k)
  BY DEF Queued, Holds, Taken, appVars, readVars
<1>2. QueueInOrder(k)' /\ HeldIsNext(k)'
  BY <1>1 DEF Lossless, QueueInOrder, HeldIsNext, readVars
<1>3. /\ wire' = Append(wire, m) /\ wire' \in Seq(Messages)
      /\ Len(wire) \in Nat /\ Len(wire') = Len(wire) + 1 /\ wire'[Len(wire) + 1] = m
      /\ \A i \in 1..Len(wire) : wire'[i] = wire[i]
  BY AppendProperties, LenProperties DEF Send, StreamTypeOK
<1>4. arrived[k] \in Nat /\ Taken(k) \in Nat /\ Taken(k) <= arrived[k]
  BY TakenType DEF StreamTypeOK, Lossless
<1>5. arrived'[k] = IF m.kind = k THEN arrived[k] + 1 ELSE arrived[k]
  BY DEF Send, StreamTypeOK
<1>6. m.kind = k => m.id = arrived[k] + 1
  OBVIOUS
<1>7. WireIsNew(k)'
  <2>. SUFFICES ASSUME NEW i \in 1..Len(wire'), wire'[i].kind = k
                PROVE  wire'[i].id > Taken(k)' /\ wire'[i].id <= arrived'[k]
    BY DEF WireIsNew
  <2>1. CASE i \in 1..Len(wire)
    <3>1. wire[i].id \in Nat
      BY <2>1, WireType
    <3>2. wire[i].id > Taken(k) /\ wire[i].id <= arrived[k]
      BY <1>3, <2>1 DEF Lossless, WireIsNew
    <3>. QED
      BY <1>1, <1>3, <1>4, <1>5, <2>1, <3>1, <3>2
  <2>2. CASE i = Len(wire) + 1
    BY <1>1, <1>3, <1>4, <1>5, <1>6, <2>2
  <2>. QED
    BY <1>3, <2>1, <2>2
<1>8. WireInOrder(k)'
  <2>. SUFFICES ASSUME NEW i \in 1..Len(wire'), NEW j \in 1..Len(wire'), i < j,
                       wire'[i].kind = k, wire'[j].kind = k
                PROVE  wire'[i].id < wire'[j].id
    BY DEF WireInOrder
  <2>1. i \in 1..Len(wire)
    BY <1>3
  <2>a. wire[i].id \in Nat
    BY <2>1, WireType
  <2>2. wire[i].id <= arrived[k] /\ wire[i].id \in Nat
    BY <1>3, <2>1, <2>a DEF Lossless, WireIsNew
  <2>3. CASE j \in 1..Len(wire)
    BY <1>3, <2>1, <2>3 DEF Lossless, WireInOrder
  <2>4. CASE j = Len(wire) + 1
    BY <1>3, <1>4, <1>6, <2>1, <2>2, <2>4
  <2>. QED
    BY <1>3, <2>3, <2>4
<1>9. WireHasRest(k)'
  <2>. SUFFICES ASSUME NEW n \in (Taken(k) + 1)..arrived'[k]
                PROVE  \E i \in 1..Len(wire') : wire'[i].kind = k /\ wire'[i].id = n
    BY <1>1 DEF WireHasRest
  <2>1. CASE n \in (Taken(k) + 1)..arrived[k]
    <3>1. PICK i \in 1..Len(wire) : wire[i].kind = k /\ wire[i].id = n
      BY <2>1 DEF Lossless, WireHasRest
    <3>2. i \in 1..Len(wire') /\ wire'[i] = wire[i]
      BY <1>3
    <3>. QED
      BY <3>1, <3>2
  <2>2. CASE n \notin (Taken(k) + 1)..arrived[k]
    <3>1. m.kind = k /\ n = arrived[k] + 1
      BY <1>4, <1>5, <2>2
    <3>2. Len(wire) + 1 \in 1..Len(wire')
      BY <1>3
    <3>. QED
      BY <1>3, <1>6, <3>1, <3>2
  <2>. QED
    BY <2>1, <2>2
<1>10. Taken(k)' <= arrived'[k]
  BY <1>1, <1>4, <1>5
<1>. QED
  BY <1>2, <1>7, <1>8, <1>9, <1>10 DEF Lossless

(* read() takes the first message of the wire: if it is of kind k, it is   *)
(* the next one of that kind.                                              *)
LEMMA LosslessTake ==
  ASSUME StreamTypeOK, ReadTypeOK, ChanTypeOK, NEW k \in Kinds, Lossless(k), ReadNetstring
  PROVE  Lossless(k)'
<1>. DEFINE h == wire[1]
<1>1. /\ Len(wire) \in Nat \ {0} /\ Head(wire) = h
      /\ wire' = Tail(wire) /\ Len(wire') = Len(wire) - 1
      /\ \A i \in 1..Len(wire') : wire'[i] = wire[i + 1]
  BY HeadTailProperties, EmptySeq DEF ReadNetstring, StreamTypeOK
<1>2. UNCHANGED <<arrived, got, chan>> /\ Queued(k)' = Queued(k)
  BY DEF ReadNetstring, appVars, Queued
<1>3. ~Holds(k) /\ Taken(k) = Len(Queued(k)) /\ Taken(k) \in Nat /\ arrived[k] \in Nat
  BY TakenType DEF ReadNetstring, Holds, Taken, StreamTypeOK
<1>4. Holds(k)' <=> h.kind = k
  BY <1>1 DEF ReadNetstring, Holds
<1>5. h.id \in Nat
  BY <1>1, WireType
<1>6. h.kind = k => h.id = Taken(k) + 1
  <2>. SUFFICES ASSUME h.kind = k
                PROVE  h.id = Taken(k) + 1
    OBVIOUS
  <2>1. h.id > Taken(k) /\ h.id <= arrived[k]
    BY <1>1 DEF Lossless, WireIsNew
  <2>2. Taken(k) + 1 \in (Taken(k) + 1)..arrived[k]
    BY <1>3, <1>5, <2>1
  <2>3. PICK i \in 1..Len(wire) : wire[i].kind = k /\ wire[i].id = Taken(k) + 1
    BY <2>2 DEF Lossless, WireHasRest
  <2>4. CASE i = 1
    BY <2>3, <2>4
  <2>5. CASE i # 1
    <3>1. 1 \in 1..Len(wire) /\ 1 < i
      BY <1>1, <2>5
    <3>2. h.id < wire[i].id
      BY <2>3, <3>1 DEF Lossless, WireInOrder
    <3>. QED
      BY <1>3, <1>5, <2>1, <2>3, <3>2
  <2>. QED
    BY <2>4, <2>5
<1>7. h.kind = k => cur'[1].id = h.id
  BY <1>1 DEF ReadNetstring
<1>8. Taken(k)' = IF h.kind = k THEN Taken(k) + 1 ELSE Taken(k)
  BY <1>2, <1>3, <1>4 DEF Taken
<1>. HIDE DEF h
<1>9. QueueInOrder(k)'
  BY <1>2 DEF Lossless, QueueInOrder
<1>10. HeldIsNext(k)'
  BY <1>4, <1>6, <1>7, <1>8 DEF HeldIsNext
<1>11. WireIsNew(k)'
  <2>. SUFFICES ASSUME NEW i \in 1..Len(wire'), wire'[i].kind = k
                PROVE  wire'[i].id > Taken(k)' /\ wire'[i].id <= arrived'[k]
    BY DEF WireIsNew
  <2>1. /\ i + 1 \in 1..Len(wire) /\ 1 \in 1..Len(wire) /\ 1 < i + 1
        /\ wire'[i] = wire[i + 1]
    BY <1>1
  <2>2. wire[i + 1].id > Taken(k) /\ wire[i + 1].id <= arrived[k]
    BY <2>1 DEF Lossless, WireIsNew
  <2>3. h.kind = k => h.id < wire[i + 1].id
    BY <2>1 DEF Lossless, WireInOrder, h
  <2>4. wire[i + 1].id \in Nat
    BY <2>1, WireType
  <2>5. wire'[i].id = wire[i + 1].id
    BY <2>1
  <2>6. CASE h.kind = k
    BY <1>2, <1>3, <1>5, <1>6, <1>8, <2>2, <2>3, <2>4, <2>5, <2>6
  <2>7. CASE h.kind # k
    BY <1>2, <1>8, <2>2, <2>5, <2>7
  <2>. QED
    BY <2>6, <2>7
<1>12. WireInOrder(k)'
  <2>. SUFFICES ASSUME NEW i \in 1..Len(wire'), NEW j \in 1..Len(wire'), i < j,
                       wire'[i].kind = k, wire'[j].kind = k
                PROVE  wire'[i].id < wire'[j].id
    BY DEF WireInOrder
  <2>1. /\ i + 1 \in 1..Len(wire) /\ j + 1 \in 1..Len(wire) /\ i + 1 < j + 1
        /\ wire'[i] = wire[i + 1] /\ wire'[j] = wire[j + 1]
    BY <1>1
  <2>2. wire[i + 1].kind = k /\ wire[j + 1].kind = k
    BY <2>1
  <2>3. wire[i + 1].id < wire[j + 1].id
    BY <2>1, <2>2 DEF Lossless, WireInOrder
  <2>. QED
    BY <2>1, <2>3
<1>13. WireHasRest(k)'
  <2>. SUFFICES ASSUME NEW n \in (Taken(k)' + 1)..arrived'[k]
                PROVE  \E i \in 1..Len(wire') : wire'[i].kind = k /\ wire'[i].id = n
    BY DEF WireHasRest
  <2>1. n \in (Taken(k) + 1)..arrived[k] /\ (h.kind = k => n # h.id)
    <3>1. CASE h.kind = k
      BY <1>2, <1>3, <1>6, <1>8, <3>1
    <3>2. CASE h.kind # k
      BY <1>2, <1>8, <3>2
    <3>. QED
      BY <3>1, <3>2
  <2>2. PICK i \in 1..Len(wire) : wire[i].kind = k /\ wire[i].id = n
    BY <2>1 DEF Lossless, WireHasRest
  <2>3. i # 1
    BY <2>1, <2>2 DEF h
  <2>4. i - 1 \in 1..Len(wire') /\ (i - 1) + 1 = i
    BY <1>1, <2>3
  <2>5. wire'[i - 1] = wire[i]
    BY <1>1, <2>4
  <2>. QED
    BY <2>2, <2>4, <2>5
<1>14. Taken(k)' <= arrived'[k]
  <2>1. CASE h.kind = k
    <3>1. h.id <= arrived[k]
      BY <1>1, <2>1 DEF Lossless, WireIsNew, h
    <3>. QED
      BY <1>2, <1>6, <1>8, <2>1, <3>1
  <2>2. CASE h.kind # k
    BY <1>2, <1>8, <2>2 DEF Lossless
  <2>. QED
    BY <2>1, <2>2
<1>. QED
  BY <1>9, <1>10, <1>11, <1>12, <1>13, <1>14 DEF Lossless

LEMMA LosslessPut ==
  ASSUME StreamTypeOK, ReadTypeOK, ChanTypeOK, NEW k \in Kinds, Lossless(k), ReadPut
  PROVE  Lossless(k)'
<1>1. UNCHANGED <<wire, arrived, cur>> /\ rd = "put"
  BY DEF ReadPut, streamVars
<1>2. CASE rd' # "ws"
  <2>1. UNCHANGED <<rd, chan, got>>
    BY <1>2 DEF ReadPut
  <2>2. Queued(k)' = Queued(k) /\ (Holds(k)' <=> Holds(k))
    BY <1>1, <2>1 DEF Queued, Holds
  <2>. QED
    BY <1>1, <2>2, LosslessSame
<1>3. CASE rd' = "ws"
  <2>1. ~Holds(k)'
    BY <1>3 DEF Holds
  <2>2. CASE k # cur[1].kind
    <3>1. Queued(k)' = Queued(k) /\ ~Holds(k)
      BY <1>3, <2>2, PutExtendsQueue DEF Holds
    <3>. QED
      BY <1>1, <2>1, <3>1, LosslessSame
  <2>3. CASE k = cur[1].kind
    <3>1. /\ Queued(k)' = Append(Queued(k), cur[1]) /\ Holds(k)
          /\ Taken(k) = Len(Queued(k)) + 1 /\ cur[1].id = Taken(k)
      BY <1>1, <1>3, <2>3, PutExtendsQueue DEF Holds, Taken, Lossless, HeldIsNext
    <3>2. /\ Queued(k) \in Seq(Messages) /\ cur[1] \in Messages
          /\ Len(Queued(k)) \in Nat
      BY <1>1, QueuedType, CurType DEF Handling
    <3>3. /\ Len(Queued(k)') = Len(Queued(k)) + 1
          /\ \A i \in 1..Len(Queued(k)) : Queued(k)'[i] = Queued(k)[i]
          /\ Queued(k)'[Len(Queued(k)) + 1] = cur[1]
      BY <3>1, <3>2, AppendProperties
    <3>4. Taken(k)' = Taken(k)
      BY <2>1, <3>1, <3>3 DEF Taken
    <3>5. QueueInOrder(k)'
      <4>. SUFFICES ASSUME NEW i \in 1..Len(Queued(k)')
                    PROVE  Queued(k)'[i].id = i
        BY DEF QueueInOrder
      <4>1. CASE i \in 1..Len(Queued(k))
        BY <3>3, <4>1 DEF Lossless, QueueInOrder
      <4>2. CASE i = Len(Queued(k)) + 1
        BY <3>1, <3>3, <4>2
      <4>. QED
        BY <3>2, <3>3, <4>1, <4>2
    <3>. QED
      BY <1>1, <2>1, <3>4, <3>5
         DEF Lossless, HeldIsNext, WireIsNew, WireInOrder, WireHasRest
  <2>. QED
    BY <2>2, <2>3
<1>. QED
  BY <1>2, <1>3

LEMMA LosslessStep ==
  ASSUME TypeOK, ReadAfterRun, [Next]_vars, NEW k \in Kinds, Lossless(k)
  PROVE  Lossless(k)'
<1>. USE DEF TypeOK
<1>1. ASSUME Emit
      PROVE  Lossless(k)'
  <2>. DEFINE e == [kind |-> "event", id |-> arrived["event"] + 1, tok |-> "plain",
                    callid |-> FALSE, since |-> 0, ver |-> 0]
              o(j) == [kind |-> j, id |-> 0, tok |-> "plain",
                       callid |-> FALSE, since |-> 0, ver |-> 0]
  <2>1. e \in Messages /\ \A j \in {"other", "bad"} : o(j) \in Messages
    BY DEF Messages, StreamTypeOK, Kinds, Tokens
  <2>2. /\ Send(e) \/ \E j \in {"other", "bad"} : Send(o(j))
        /\ UNCHANGED <<appVars, readVars>>
    BY <1>1 DEF Emit
  <2>3. e.id = arrived[e.kind] + 1 /\ \A j \in {"other", "bad"} : o(j).kind \notin Kinds
    BY DEF Kinds
  <2>. HIDE DEF e, o
  <2>. QED
    BY <2>1, <2>2, <2>3, LosslessSend
<1>2. ASSUME Reply
      PROVE  Lossless(k)'
  <2>. DEFINE r(b) == [kind |-> "response", id |-> arrived["response"] + 1,
                       tok |-> Head(out).tok, callid |-> b,
                       since |-> Head(out).since, ver |-> 0]
  <2>1. Head(out) \in Commands
    BY <1>2, HeadTailProperties DEF Reply, StreamTypeOK
  <2>2. \A b \in BOOLEAN : r(b) \in Messages /\ r(b).id = arrived[r(b).kind] + 1
    BY <2>1 DEF Messages, Commands, StreamTypeOK, Kinds
  <2>3. PICK b \in BOOLEAN : Send(r(b)) /\ UNCHANGED <<appVars, readVars>>
    BY <1>2 DEF Reply
  <2>. HIDE DEF r
  <2>. QED
    BY <2>2, <2>3, LosslessSend
<1>3. ASSUME ReadHandle
      PROVE  Lossless(k)'
  <2>. DEFINE m == [cur[1] EXCEPT !.ver = ver]
  <2>1. m.kind = cur[1].kind /\ m.id = cur[1].id
    BY <1>3, CurType DEF ReadHandle, Handling, Messages
  <2>2. cur' = <<m>> \/ cur' = cur
    BY <1>3 DEF ReadHandle
  <2>. HIDE DEF m
  <2>3. cur'[1].kind = cur[1].kind /\ cur'[1].id = cur[1].id
    BY <2>1, <2>2
  <2>4. Queued(k)' = Queued(k) /\ UNCHANGED <<wire, arrived>>
    BY <1>3 DEF ReadHandle, Queued, appVars, streamVars
  <2>5. Holds(k)' <=> Holds(k)
    BY <1>3, <2>3 DEF ReadHandle, Holds
  <2>. QED
    BY <2>3, <2>4, <2>5, LosslessSame
<1>4. ASSUME ReadCheck \/ ReadError \/ ReadWs \/ RunStart
      PROVE  Lossless(k)'
  <2>1. Queued(k)' = Queued(k) /\ UNCHANGED <<wire, arrived>>
    BY <1>4 DEF ReadCheck, ReadError, ReadWs, RunStart, Queued, appVars, streamVars
  <2>2. ~Holds(k) /\ ~Holds(k)'
    BY <1>4 DEF ReadCheck, ReadError, ReadWs, RunStart, Holds, ReadAfterRun
  <2>. QED
    BY <2>1, <2>2, LosslessSame
<1>5. ASSUME NEW j \in Kinds, AppTake(j)
      PROVE  Lossless(k)'
  <2>1. UNCHANGED <<wire, arrived, rd, cur>>
    BY <1>5 DEF AppTake, streamVars, readVars
  <2>2. Queued(k)' = Queued(k)
    BY <1>5, TakeKeepsQueue
  <2>3. Holds(k)' <=> Holds(k)
    BY <2>1 DEF Holds
  <2>. QED
    BY <2>1, <2>2, <2>3, LosslessSame
<1>6. ASSUME UNCHANGED <<wire, arrived, rd, cur, chan, got>>
      PROVE  Lossless(k)'
  <2>1. Queued(k)' = Queued(k) /\ (Holds(k)' <=> Holds(k))
    BY <1>6 DEF Queued, Holds
  <2>. QED
    BY <1>6, <2>1, LosslessSame
<1>7. ASSUME Keep \/ RunReturns \/ ConnEnds \/ CloseStart \/ Close \/ \E j \in Kinds : HubTake(j)
      PROVE  Lossless(k)'
  BY <1>6, <1>7
     DEF Keep, KeepWake, KeepPing, RunReturns, ConnEnds, CloseStart, Close, CloseConn, CloseChan,
         HubTake, streamVars, readVars, appVars
<1>8. ASSUME NEW c \in Callers, CallPlain(c) \/ CallAuto(c) \/ Cmd(c)
      PROVE  Lossless(k)'
  BY <1>6, <1>8 DEF CallPlain, CallAuto, Cmd, CmdCheck, CmdWrite, streamVars, readVars, appVars
<1>9. ASSUME NEW i \in DOMAIN timer, Hangup(i)
      PROVE  Lossless(k)'
  BY <1>6, <1>9 DEF Hangup, HangupDue, HangupWrite, streamVars, readVars, appVars
<1>10. ASSUME UNCHANGED vars
       PROVE  Lossless(k)'
  BY <1>6, <1>10 DEF vars, streamVars, readVars, appVars
<1>. QED
  BY <1>1, <1>2, <1>3, <1>4, <1>5, <1>7, <1>8, <1>9, <1>10, LosslessTake, LosslessPut
     DEF Next, Read, Ended

-----------------------------------------------------------------------------
(* What the browsers' side has seen of a kind, while read() is about to    *)
(* offer it the last message it has put into the application's channel.    *)
Offered(k) == rd = "ws" /\ cur[1].kind = k

Follows(k) ==
  /\ \A i \in 1..Len(Seen(k)) :
       /\ Seen(k)[i].id \in 1..Len(Queued(k))
       /\ Seen(k)[i] = Queued(k)[Seen(k)[i].id]
  /\ \A i, j \in 1..Len(Seen(k)) : i < j => Seen(k)[i].id < Seen(k)[j].id
  /\ Offered(k) => /\ Len(Queued(k)) # 0 /\ cur[1].id = Len(Queued(k))
                   /\ Queued(k)[Len(Queued(k))] = cur[1]
                   /\ \A i \in 1..Len(Seen(k)) : Seen(k)[i].id < Len(Queued(k))

LEMMA SeenType ==
  ASSUME WsTypeOK, NEW k \in Kinds
  PROVE  Seen(k) \in Seq(Messages) /\ Len(Seen(k)) \in Nat
BY ConcatProperties, LenProperties DEF WsTypeOK, Seen

LEMMA HubKeepsSeen ==
  ASSUME WsTypeOK, NEW j \in Kinds, HubTake(j), NEW k \in Kinds
  PROVE  Seen(k)' = Seen(k)
<1>1. CASE k = j
  <2>1. wsGot[k] \in Seq(Messages) /\ wsChan[k] \in Seq(Messages) /\ wsChan[k] # <<>>
    BY <1>1 DEF HubTake, WsTypeOK
  <2>2. Append(wsGot[k], Head(wsChan[k])) \o Tail(wsChan[k]) = wsGot[k] \o wsChan[k]
    BY <2>1, MoveHead
  <2>3. wsGot'[k] = Append(wsGot[k], Head(wsChan[k])) /\ wsChan'[k] = Tail(wsChan[k])
    BY <1>1 DEF HubTake, WsTypeOK
  <2>. QED
    BY <2>2, <2>3 DEF Seen
<1>2. CASE k # j
  BY <1>2 DEF HubTake, WsTypeOK, Seen
<1>. QED
  BY <1>1, <1>2

LEMMA FollowsSame ==
  ASSUME NEW k \in Kinds, Follows(k), Seen(k)' = Seen(k), Queued(k)' = Queued(k),
         Offered(k)' => Offered(k) /\ UNCHANGED cur
  PROVE  Follows(k)'
BY DEF Follows

LEMMA FollowsPut ==
  ASSUME TypeOK, NEW k \in Kinds, Lossless(k), Follows(k), ReadPut
  PROVE  Follows(k)'
<1>. USE DEF TypeOK
<1>1. Seen(k)' = Seen(k) /\ UNCHANGED cur /\ rd = "put"
  BY DEF ReadPut, Seen, wsVars
<1>2. CASE rd' # "ws"
  <2>1. Queued(k)' = Queued(k) /\ ~Offered(k)'
    BY <1>2 DEF ReadPut, Queued, Offered
  <2>. QED
    BY <1>1, <2>1, FollowsSame
<1>3. CASE rd' = "ws" /\ k # cur[1].kind
  <2>1. Queued(k)' = Queued(k) /\ ~Offered(k)'
    BY <1>1, <1>3, PutExtendsQueue DEF Offered
  <2>. QED
    BY <1>1, <2>1, FollowsSame
<1>4. CASE rd' = "ws" /\ k = cur[1].kind
  <2>. DEFINE q == Queued(k)
              r == Queued(k)'
  <2>1. r = Append(q, cur[1]) /\ cur[1] \in Messages /\ q \in Seq(Messages)
    BY <1>1, <1>4, PutExtendsQueue, CurType, QueuedType DEF Handling
  <2>2. cur[1].id = Len(q) + 1
    BY <1>1, <1>4 DEF Lossless, HeldIsNext, Holds, Taken
  <2>. HIDE DEF q, r
  <2>3. /\ Len(q) \in Nat /\ Len(r) = Len(q) + 1 /\ r[Len(q) + 1] = cur[1]
        /\ \A i \in 1..Len(q) : r[i] = q[i]
    BY <2>1, AppendProperties, LenProperties
  <2>4. \A i \in 1..Len(Seen(k)) :
          /\ Seen(k)[i].id \in 1..Len(q)
          /\ Seen(k)[i] = q[Seen(k)[i].id]
    BY DEF Follows, q
  <2>5. \A i \in 1..Len(Seen(k)) :
          /\ Seen(k)[i].id \in 1..Len(r)
          /\ Seen(k)[i] = r[Seen(k)[i].id]
          /\ Seen(k)[i].id < Len(r)
    BY <2>3, <2>4
  <2>6. \A i, j \in 1..Len(Seen(k)) : i < j => Seen(k)[i].id < Seen(k)[j].id
    BY DEF Follows
  <2>7. Len(r) # 0 /\ cur[1].id = Len(r) /\ r[Len(r)] = cur[1]
    BY <2>2, <2>3
  <2>. QED
    BY <1>1, <2>5, <2>6, <2>7 DEF Follows, r
<1>. QED
  BY <1>2, <1>3, <1>4

LEMMA FollowsWs ==
  ASSUME TypeOK, NEW k \in Kinds, Follows(k), ReadWs
  PROVE  Follows(k)'
<1>. USE DEF TypeOK
<1>1. Queued(k)' = Queued(k) /\ ~Offered(k)'
  BY DEF ReadWs, Queued, Offered, appVars
<1>2. cur[1] \in Messages /\ cur[1].kind \in Kinds /\ rd = "ws"
  BY CurType DEF ReadWs, Handling
<1>3. CASE UNCHANGED wsChan \/ k # cur[1].kind
  <2>1. Seen(k)' = Seen(k)
    BY <1>2, <1>3 DEF ReadWs, WsTypeOK, Seen
  <2>. QED
    BY <1>1, <2>1, FollowsSame
<1>4. CASE k = cur[1].kind /\ wsChan' = [wsChan EXCEPT ![k] = Append(@, cur[1])]
  <2>. DEFINE w == Seen(k)
              x == Seen(k)'
  <2>1. wsGot[k] \o Append(wsChan[k], cur[1]) = Append(wsGot[k] \o wsChan[k], cur[1])
    BY <1>2, AppendEnd, SMTT(30) DEF WsTypeOK
  <2>2. x = Append(w, cur[1]) /\ w \in Seq(Messages)
    BY <1>4, <2>1, SeenType DEF ReadWs, WsTypeOK, Seen
  <2>3. /\ \A i \in 1..Len(w) : /\ w[i].id \in 1..Len(Queued(k))
                                /\ w[i] = Queued(k)[w[i].id]
                                /\ w[i].id < Len(Queued(k))
        /\ \A i, j \in 1..Len(w) : i < j => w[i].id < w[j].id
    BY <1>2, <1>4 DEF Follows, Offered
  <2>4. /\ Len(Queued(k)) # 0 /\ cur[1].id = Len(Queued(k))
        /\ Queued(k)[Len(Queued(k))] = cur[1] /\ Len(Queued(k)) \in Nat
    BY <1>2, <1>4, QueuedType DEF Follows, Offered
  <2>. HIDE DEF w, x
  <2>5. /\ Len(w) \in Nat /\ Len(x) = Len(w) + 1 /\ x[Len(w) + 1] = cur[1]
        /\ \A i \in 1..Len(w) : x[i] = w[i]
    BY <1>2, <2>2, AppendProperties, LenProperties
  <2>6. ASSUME NEW i \in 1..Len(x)
        PROVE  x[i].id \in 1..Len(Queued(k)) /\ x[i] = Queued(k)[x[i].id]
    <3>1. CASE i \in 1..Len(w)
      BY <2>3, <2>5, <3>1
    <3>2. CASE i = Len(w) + 1
      BY <2>4, <2>5, <3>2
    <3>. QED
      BY <2>5, <3>1, <3>2
  <2>7. ASSUME NEW i \in 1..Len(x), NEW j \in 1..Len(x), i < j
        PROVE  x[i].id < x[j].id
    <3>1. i \in 1..Len(w) /\ x[i] = w[i]
      BY <2>5, <2>7
    <3>2. CASE j \in 1..Len(w)
      BY <2>3, <2>5, <2>7, <3>1, <3>2
    <3>3. CASE j = Len(w) + 1
      BY <2>3, <2>4, <2>5, <3>1, <3>3
    <3>. QED
      BY <2>5, <3>2, <3>3
  <2>. QED
    BY <1>1, <2>6, <2>7 DEF Follows, x
<1>5. wsChan' = wsChan \/ wsChan' = [wsChan EXCEPT ![cur[1].kind] = Append(@, cur[1])]
  BY DEF ReadWs
<1>. QED
  BY <1>3, <1>4, <1>5

LEMMA FollowsStep ==
  ASSUME TypeOK, [Next]_vars, NEW k \in Kinds, Lossless(k), Follows(k)
  PROVE  Follows(k)'
<1>. USE DEF TypeOK
<1>1. ASSUME NEW j \in Kinds, AppTake(j)
      PROVE  Follows(k)'
  <2>1. Queued(k)' = Queued(k) /\ Seen(k)' = Seen(k) /\ UNCHANGED <<rd, cur>>
    BY <1>1, TakeKeepsQueue DEF AppTake, Seen, wsVars, readVars
  <2>. QED
    BY <2>1, FollowsSame DEF Offered
<1>2. ASSUME NEW j \in Kinds, HubTake(j)
      PROVE  Follows(k)'
  <2>1. Queued(k)' = Queued(k) /\ Seen(k)' = Seen(k) /\ UNCHANGED <<rd, cur>>
    BY <1>2, HubKeepsSeen DEF HubTake, Queued, appVars, readVars
  <2>. QED
    BY <2>1, FollowsSame DEF Offered
<1>3. ASSUME UNCHANGED <<chan, got, wsChan, wsGot>>, rd' # "ws" \/ UNCHANGED <<rd, cur>>
      PROVE  Follows(k)'
  <2>1. Queued(k)' = Queued(k) /\ Seen(k)' = Seen(k)
    BY <1>3 DEF Queued, Seen
  <2>. QED
    BY <1>3, <2>1, FollowsSame DEF Offered
<1>4. ASSUME ReadCheck \/ ReadNetstring \/ ReadError \/ ReadHandle \/ RunStart
      PROVE  Follows(k)'
  BY <1>3, <1>4 DEF ReadCheck, ReadNetstring, ReadError, ReadHandle, RunStart, appVars, wsVars
<1>5. ASSUME \/ Emit \/ Reply \/ Keep \/ RunReturns \/ ConnEnds \/ CloseStart \/ Close
             \/ \E c \in Callers : CallPlain(c) \/ CallAuto(c) \/ Cmd(c)
             \/ \E i \in DOMAIN timer : Hangup(i)
             \/ UNCHANGED vars
      PROVE  Follows(k)'
  BY <1>3, <1>5
     DEF Emit, Reply, Keep, KeepWake, KeepPing, RunReturns, ConnEnds, CloseStart, Close, CloseConn,
         CloseChan, CallPlain, CallAuto, Cmd, CmdCheck, CmdWrite, Hangup, HangupDue,
         HangupWrite, vars, appVars, wsVars, readVars
<1>. QED
  BY <1>1, <1>2, <1>4, <1>5, FollowsPut, FollowsWs DEF Next, Read, Ended

-----------------------------------------------------------------------------
(* No question is younger than the state of autoCmd.                       *)
Asked == /\ \A c \in Callers : op[c].since <= ver
         /\ \A i \in 1..Len(out) : out[i].since <= ver
         /\ \A i \in 1..Len(wire) : wire[i].since <= ver
         /\ Handling => cur[1].since <= ver

(* The answer that read() is about to put into the channel shows a state   *)
(* no older than its question and than the answers already there.          *)
HeldFresh ==
  (rd = "put" /\ cur[1].tok = "auto") =>
     /\ cur[1].since <= cur[1].ver /\ cur[1].ver <= ver
     /\ \A i \in Answers : Shown(i) <= cur[1].ver

Fresh == /\ AutoReplyFresh /\ HeldFresh
         /\ \A i \in Answers : Shown(i) <= ver

LEMMA VerGrows ==
  ASSUME TypeOK, [Next]_vars
  PROVE  ver \in Nat /\ ver' \in Nat /\ ver <= ver'
<1>1. ver \in Nat
  BY DEF TypeOK, CallTypeOK
<1>2. ASSUME NEW c \in Callers, CallAuto(c)
      PROVE  ver' = ver + 1 \/ ver' = ver
  BY <1>2 DEF CallAuto
<1>3. ver' = ver + 1 \/ ver' = ver
  BY <1>2
     DEF Next, Emit, Reply, Read, ReadCheck, ReadNetstring, ReadError, ReadHandle, ReadPut,
         ReadWs, Keep, KeepWake, KeepPing, Close, CloseConn, CloseChan, RunStart,
         RunReturns, ConnEnds, CloseStart, AppTake, HubTake, CallPlain, Cmd, CmdCheck, CmdWrite,
         Hangup, HangupDue, HangupWrite, Ended, vars, autoVars
<1>. QED
  BY <1>1, <1>3

(* A command, or a message, that is no younger than ver joins others.      *)
LEMMA AppendOld ==
  ASSUME NEW S, NEW s \in Seq(S), NEW m \in S, NEW v \in Nat, m.since <= v,
         \A i \in 1..Len(s) : s[i].since <= v
  PROVE  \A i \in 1..Len(Append(s, m)) : Append(s, m)[i].since <= v
<1>1. /\ Len(s) \in Nat /\ Len(Append(s, m)) = Len(s) + 1
      /\ Append(s, m)[Len(s) + 1] = m
      /\ \A i \in 1..Len(s) : Append(s, m)[i] = s[i]
  BY AppendProperties, LenProperties
<1>. SUFFICES ASSUME NEW i \in 1..Len(Append(s, m))
              PROVE  Append(s, m)[i].since <= v
  OBVIOUS
<1>2. CASE i = Len(s) + 1
  BY <1>1, <1>2
<1>3. CASE i \in 1..Len(s)
  BY <1>1, <1>3
<1>. QED
  BY <1>1, <1>2, <1>3

LEMMA TailOld ==
  ASSUME NEW S, NEW s \in Seq(S), s # <<>>, NEW v \in Nat,
         \A i \in 1..Len(s) : s[i].since <= v
  PROVE  Head(s).since <= v /\ \A i \in 1..Len(Tail(s)) : Tail(s)[i].since <= v
<1>1. /\ Len(s) \in Nat \ {0} /\ Len(Tail(s)) = Len(s) - 1 /\ Head(s) = s[1]
      /\ \A i \in 1..Len(Tail(s)) : Tail(s)[i] = s[i + 1]
  BY HeadTailProperties, EmptySeq
<1>2. ASSUME NEW i \in 1..Len(Tail(s))
      PROVE  Tail(s)[i].since <= v
  <2>1. i + 1 \in 1..Len(s)
    BY <1>1
  <2>. QED
    BY <1>1, <2>1
<1>. QED
  BY <1>1, <1>2

(* In the parts of Asked a step leaves alone, a larger ver changes nothing.*)
LEMMA AskedLater ==
  ASSUME TypeOK, Asked, [Next]_vars
  PROVE  /\ \A c \in Callers : op[c].since <= ver'
         /\ \A i \in 1..Len(out) : out[i].since <= ver'
         /\ \A i \in 1..Len(wire) : wire[i].since <= ver'
         /\ Handling => cur[1].since <= ver'
<1>1. ver \in Nat /\ ver' \in Nat /\ ver <= ver'
  BY VerGrows
<1>2. ASSUME NEW c \in Callers
      PROVE  op[c].since <= ver'
  <2>1. op[c].since \in Nat /\ op[c].since <= ver
    BY DEF TypeOK, CallTypeOK, Commands, Asked
  <2>. QED
    BY <1>1, <2>1
<1>3. ASSUME NEW i \in 1..Len(out)
      PROVE  out[i].since <= ver'
  <2>0. out[i] \in Commands
    BY ElementOfSeq DEF TypeOK, StreamTypeOK
  <2>1. out[i].since \in Nat /\ out[i].since <= ver
    BY <2>0 DEF Commands, Asked
  <2>. QED
    BY <1>1, <2>1
<1>4. ASSUME NEW i \in 1..Len(wire)
      PROVE  wire[i].since <= ver'
  <2>0. wire[i] \in Messages
    BY ElementOfSeq DEF TypeOK, StreamTypeOK
  <2>1. wire[i].since \in Nat /\ wire[i].since <= ver
    BY <2>0 DEF Messages, Asked
  <2>. QED
    BY <1>1, <2>1
<1>5. ASSUME Handling
      PROVE  cur[1].since <= ver'
  <2>1. cur[1].since \in Nat /\ cur[1].since <= ver
    BY <1>5, CurType DEF Messages, TypeOK, Asked
  <2>. QED
    BY <1>1, <2>1
<1>. QED
  BY <1>2, <1>3, <1>4, <1>5

LEMMA AskedOp ==
  ASSUME TypeOK, Asked, [Next]_vars
  PROVE  \A c \in Callers : op'[c].since <= ver'
<1>0. ver' \in Nat /\ \A c \in Callers : op[c].since <= ver'
  BY VerGrows, AskedLater
<1>1. ASSUME NEW c \in Callers, NEW m \in Commands, m.since <= ver', Issue(c, m)
      PROVE  \A d \in Callers : op'[d].since <= ver'
  BY <1>0, <1>1 DEF Issue, TypeOK, CallTypeOK
<1>2. ASSUME NEW c \in Callers, CallPlain(c)
      PROVE  \A d \in Callers : op'[d].since <= ver'
  <2>1. PICK t \in {"dial", "plain"} : Issue(c, [Ping EXCEPT !.tok = t])
    BY <1>2 DEF CallPlain
  <2>. DEFINE m == [Ping EXCEPT !.tok = t]
  <2>2. m \in Commands /\ m.since = 0
    BY DEF Ping, Commands, Tokens
  <2>3. Issue(c, m)
    BY <2>1
  <2>. HIDE DEF m
  <2>4. m.since <= ver'
    BY <1>0, <2>2
  <2>. QED
    BY <1>1, <2>2, <2>3, <2>4
<1>3. ASSUME NEW c \in Callers, CallAuto(c)
      PROVE  \A d \in Callers : op'[d].since <= ver'
  <2>. DEFINE m == [Ping EXCEPT !.tok = "auto", !.since = ver']
  <2>1. m \in Commands /\ m.since = ver'
    BY <1>0 DEF Ping, Commands, Tokens
  <2>2. Issue(c, m)
    BY <1>3 DEF CallAuto
  <2>. HIDE DEF m
  <2>. QED
    BY <1>0, <1>1, <2>1, <2>2
<1>4. ASSUME UNCHANGED op
      PROVE  \A d \in Callers : op'[d].since <= ver'
  BY <1>0, <1>4
<1>. QED
  BY <1>2, <1>3, <1>4
     DEF Next, Emit, Reply, Read, ReadCheck, ReadNetstring, ReadError, ReadHandle, ReadPut,
         ReadWs, Keep, KeepWake, KeepPing, Close, CloseConn, CloseChan, RunStart,
         RunReturns, ConnEnds, CloseStart, AppTake, HubTake, Cmd, CmdCheck, CmdWrite, Hangup,
         HangupDue, HangupWrite, Ended, vars, callVars

LEMMA AskedOut ==
  ASSUME TypeOK, Asked, [Next]_vars
  PROVE  \A i \in 1..Len(out') : out'[i].since <= ver'
<1>0. /\ ver' \in Nat /\ out \in Seq(Commands)
      /\ \A i \in 1..Len(out) : out[i].since <= ver'
  BY VerGrows, AskedLater DEF TypeOK, StreamTypeOK
<1>1. ASSUME NEW m \in Commands, m.since <= ver', NEW ok \in BOOLEAN, Write(m, ok)
      PROVE  \A i \in 1..Len(out') : out'[i].since <= ver'
  <2>1. CASE out' = Append(out, m)
    BY <1>0, <1>1, <2>1, AppendOld
  <2>2. CASE out' = out
    BY <1>0, <2>2
  <2>. QED
    BY <1>1, <2>1, <2>2 DEF Write
<1>2. ASSUME NEW c \in Callers, CmdWrite(c)
      PROVE  \A i \in 1..Len(out') : out'[i].since <= ver'
  <2>1. op[c] \in Commands /\ op[c].since <= ver'
    BY AskedLater DEF TypeOK, CallTypeOK
  <2>. QED
    BY <1>1, <1>2, <2>1 DEF CmdWrite
<1>3. ASSUME NEW j \in DOMAIN timer, HangupWrite(j)
      PROVE  \A i \in 1..Len(out') : out'[i].since <= ver'
  <2>. DEFINE m == [Ping EXCEPT !.hangs = j]
  <2>1. m \in Commands /\ m.since = 0
    BY LenProperties DEF TypeOK, CallTypeOK, Ping, Commands, Tokens
  <2>2. PICK ok \in BOOLEAN : Write(m, ok)
    BY <1>3 DEF HangupWrite
  <2>. HIDE DEF m
  <2>. QED
    BY <1>0, <1>1, <2>1, <2>2
<1>4. ASSUME KeepPing
      PROVE  \A i \in 1..Len(out') : out'[i].since <= ver'
  <2>1. Ping.since = 0
    BY DEF Ping
  <2>. QED
    BY <1>0, <1>1, <1>4, <2>1, PingType DEF KeepPing
<1>5. ASSUME Reply
      PROVE  \A i \in 1..Len(out') : out'[i].since <= ver'
  BY <1>0, <1>5, TailOld DEF Reply
<1>6. ASSUME UNCHANGED out
      PROVE  \A i \in 1..Len(out') : out'[i].since <= ver'
  BY <1>0, <1>6
<1>. QED
  BY <1>2, <1>3, <1>4, <1>5, <1>6
     DEF Next, Emit, Read, ReadCheck, ReadNetstring, ReadError, ReadHandle, ReadPut,
         ReadWs, Keep, KeepWake, Close, CloseConn, CloseChan, RunStart, RunReturns, ConnEnds,
         CloseStart, AppTake, HubTake, CallPlain, CallAuto, Cmd, CmdCheck, Hangup,
         HangupDue, Ended, vars, streamVars

LEMMA AskedWire ==
  ASSUME TypeOK, Asked, [Next]_vars
  PROVE  \A i \in 1..Len(wire') : wire'[i].since <= ver'
<1>0. /\ ver' \in Nat /\ wire \in Seq(Messages)
      /\ \A i \in 1..Len(wire) : wire[i].since <= ver'
  BY VerGrows, AskedLater DEF TypeOK, StreamTypeOK
<1>1. ASSUME NEW m \in Messages, m.since <= ver', Send(m)
      PROVE  \A i \in 1..Len(wire') : wire'[i].since <= ver'
  <2>1. wire' = Append(wire, m)
    BY <1>1 DEF Send
  <2>. QED
    BY <1>0, <1>1, <2>1, AppendOld
<1>2. ASSUME Emit
      PROVE  \A i \in 1..Len(wire') : wire'[i].since <= ver'
  <2>. DEFINE e == [kind |-> "event", id |-> arrived["event"] + 1, tok |-> "plain",
                    callid |-> FALSE, since |-> 0, ver |-> 0]
              o(j) == [kind |-> j, id |-> 0, tok |-> "plain",
                       callid |-> FALSE, since |-> 0, ver |-> 0]
  <2>1. /\ e \in Messages /\ e.since = 0
        /\ \A j \in {"other", "bad"} : o(j) \in Messages /\ o(j).since = 0
    BY DEF TypeOK, Messages, StreamTypeOK, Kinds, Tokens
  <2>2. Send(e) \/ \E j \in {"other", "bad"} : Send(o(j))
    BY <1>2 DEF Emit
  <2>. HIDE DEF e, o
  <2>3. e.since <= ver' /\ \A j \in {"other", "bad"} : o(j).since <= ver'
    BY <1>0, <2>1
  <2>. QED
    BY <1>1, <2>1, <2>2, <2>3
<1>3. ASSUME Reply
      PROVE  \A i \in 1..Len(wire') : wire'[i].since <= ver'
  <2>. DEFINE r(b) == [kind |-> "response", id |-> arrived["response"] + 1,
                       tok |-> Head(out).tok, callid |-> b,
                       since |-> Head(out).since, ver |-> 0]
  <2>1. Head(out) \in Commands /\ Head(out).since <= ver'
    BY <1>0, <1>3, HeadTailProperties, TailOld, AskedLater DEF Reply, TypeOK, StreamTypeOK
  <2>2. \A b \in BOOLEAN : r(b) \in Messages /\ r(b).since = Head(out).since
    BY <2>1 DEF TypeOK, Messages, Commands, StreamTypeOK, Kinds
  <2>3. PICK b \in BOOLEAN : Send(r(b))
    BY <1>3 DEF Reply
  <2>. HIDE DEF r
  <2>4. r(b) \in Messages /\ r(b).since <= ver'
    BY <2>1, <2>2
  <2>. QED
    BY <1>1, <2>3, <2>4
<1>4. ASSUME ReadNetstring
      PROVE  \A i \in 1..Len(wire') : wire'[i].since <= ver'
  BY <1>0, <1>4, TailOld DEF ReadNetstring
<1>5. ASSUME UNCHANGED wire
      PROVE  \A i \in 1..Len(wire') : wire'[i].since <= ver'
  BY <1>0, <1>5
<1>. QED
  BY <1>2, <1>3, <1>4, <1>5
     DEF Next, Read, ReadCheck, ReadError, ReadHandle, ReadPut, ReadWs, Keep, KeepWake,
         KeepPing, Close, CloseConn, CloseChan, RunStart, RunReturns, ConnEnds, CloseStart, AppTake,
         HubTake, CallPlain, CallAuto, Cmd, CmdCheck, CmdWrite, Hangup, HangupDue,
         HangupWrite, Ended, vars, streamVars

LEMMA AskedCur ==
  ASSUME TypeOK, Asked, [Next]_vars
  PROVE  Handling' => cur'[1].since <= ver'
<1>0. /\ ver' \in Nat /\ wire \in Seq(Messages)
      /\ \A i \in 1..Len(wire) : wire[i].since <= ver'
      /\ Handling => cur[1].since <= ver'
  BY VerGrows, AskedLater DEF TypeOK, StreamTypeOK
<1>1. ASSUME ReadNetstring, Handling'
      PROVE  cur'[1].since <= ver'
  <2>1. Head(wire).since <= ver'
    BY <1>0, <1>1, TailOld DEF ReadNetstring
  <2>2. cur' = <<Head(wire)>>
    BY <1>1 DEF ReadNetstring, Handling
  <2>. QED
    BY <2>1, <2>2
<1>2. ASSUME ReadHandle
      PROVE  cur'[1].since <= ver'
  <2>. DEFINE m == [cur[1] EXCEPT !.ver = ver]
  <2>1. m.since = cur[1].since
    BY <1>2, CurType DEF ReadHandle, Handling, Messages, TypeOK
  <2>2. cur' = <<m>> \/ cur' = cur
    BY <1>2 DEF ReadHandle
  <2>. HIDE DEF m
  <2>. QED
    BY <1>0, <1>2, <2>1, <2>2 DEF ReadHandle, Handling
<1>3. ASSUME rd' \notin {"handle", "put", "ws"} \/ (UNCHANGED cur /\ Handling), Handling'
      PROVE  cur'[1].since <= ver'
  BY <1>0, <1>3 DEF Handling
<1>4. ASSUME ReadCheck \/ ReadError \/ ReadPut \/ ReadWs \/ RunStart, Handling'
      PROVE  cur'[1].since <= ver'
  BY <1>3, <1>4 DEF ReadCheck, ReadError, ReadPut, ReadWs, RunStart, Handling
<1>5. ASSUME UNCHANGED readVars, Handling'
      PROVE  cur'[1].since <= ver'
  BY <1>3, <1>5 DEF readVars, Handling
<1>. QED
  BY <1>1, <1>2, <1>4, <1>5
     DEF Next, Emit, Reply, Read, Keep, KeepWake, KeepPing, Close, CloseConn, CloseChan,
         RunReturns, ConnEnds, CloseStart, AppTake, HubTake, CallPlain, CallAuto, Cmd, CmdCheck,
         CmdWrite, Hangup, HangupDue, HangupWrite, Ended, vars

LEMMA AskedStep ==
  ASSUME TypeOK, Asked, [Next]_vars
  PROVE  Asked'
BY AskedOp, AskedOut, AskedWire, AskedCur DEF Asked

(* A step that adds nothing to the responses' channel and leaves nothing   *)
(* new for it in read()'s hands; the state of autoCmd only moves on.       *)
LEMMA FreshSame ==
  ASSUME TypeOK, [Next]_vars, Fresh, Queued("response")' = Queued("response"),
         HeldFresh'
  PROVE  Fresh'
<1>. DEFINE q == Queued("response")
<1>1. Answers' = Answers /\ \A i \in Answers : Shown(i)' = Shown(i)
  BY DEF Answers, Shown
<1>2. ASSUME NEW i \in Answers
      PROVE  Shown(i) \in Nat
  <2>1. q \in Seq(Messages) /\ i \in 1..Len(q)
    BY <1>2, QueuedType DEF Answers, TypeOK, Kinds
  <2>2. q[i] \in Messages
    BY <2>1, ElementOfSeq
  <2>. QED
    BY <2>2 DEF Shown, Messages
<1>3. ver \in Nat /\ ver' \in Nat /\ ver <= ver'
  BY VerGrows
<1>4. \A i \in Answers : Shown(i) <= ver'
  BY <1>2, <1>3 DEF Fresh
<1>5. AutoReplyFresh'
  BY <1>1 DEF Fresh, AutoReplyFresh
<1>. QED
  BY <1>1, <1>4, <1>5 DEF Fresh

LEMMA FreshHandle ==
  ASSUME TypeOK, Asked, [Next]_vars, Fresh, ReadHandle
  PROVE  Fresh'
<1>. DEFINE m == [cur[1] EXCEPT !.ver = ver]
<1>1. /\ Queued("response")' = Queued("response") /\ ver' = ver
      /\ cur[1].since <= ver /\ ver \in Nat
  BY DEF ReadHandle, Queued, appVars, autoVars, Asked, Handling, TypeOK, CallTypeOK
<1>2. m.since = cur[1].since /\ m.ver = ver /\ m.tok = cur[1].tok
  BY CurType DEF ReadHandle, Handling, Messages, TypeOK
<1>3. cur' = IF cur[1].tok = "auto" THEN <<m>> ELSE cur
  BY DEF ReadHandle
<1>4. Answers' = Answers /\ \A i \in Answers : Shown(i)' = Shown(i) /\ Shown(i) <= ver
  BY <1>1 DEF Answers, Shown, Fresh
<1>. HIDE DEF m
<1>5. cur'[1].tok = "auto" => cur'[1] = m
  BY <1>3
<1>6. HeldFresh'
  BY <1>1, <1>2, <1>4, <1>5 DEF HeldFresh
<1>. QED
  BY <1>1, <1>6, FreshSame

LEMMA FreshPut ==
  ASSUME TypeOK, Asked, [Next]_vars, Fresh, ReadPut
  PROVE  Fresh'
<1>. DEFINE q == Queued("response")
            r == Queued("response")'
            m == cur[1]
<1>0. UNCHANGED cur /\ ver' = ver /\ rd = "put" /\ ver \in Nat
  BY DEF ReadPut, autoVars, TypeOK, CallTypeOK
<1>1. CASE rd' # "ws"
  <2>1. r = q /\ rd' = rd
    BY <1>1 DEF ReadPut, Queued
  <2>2. Answers' = Answers /\ \A i \in Answers : Shown(i)' = Shown(i)
    BY <2>1 DEF Answers, Shown
  <2>3. HeldFresh'
    BY <1>0, <2>1, <2>2 DEF HeldFresh, Fresh
  <2>. QED
    BY <2>1, <2>3, FreshSame
<1>2. CASE rd' = "ws" /\ cur[1].kind # "response"
  <2>1. r = q
    BY <1>2, PutExtendsQueue DEF TypeOK, Kinds
  <2>. QED
    BY <1>2, <2>1, FreshSame DEF HeldFresh
<1>3. CASE rd' = "ws" /\ cur[1].kind = "response"
  <2>1. r = Append(q, m) /\ m \in Messages /\ q \in Seq(Messages)
    BY <1>0, <1>3, PutExtendsQueue, CurType, QueuedType DEF TypeOK, Kinds, Handling
  <2>2. m.tok = "auto" => /\ m.since <= m.ver /\ m.ver <= ver
                          /\ \A i \in Answers : Shown(i) <= m.ver
    BY <1>0 DEF Fresh, HeldFresh
  <2>3. /\ \A i \in Answers : q[i].since <= q[i].ver /\ q[i].ver <= ver
        /\ \A i, j \in Answers : i < j => q[i].ver <= q[j].ver
        /\ m.tok = "auto" => \A i \in Answers : q[i].ver <= m.ver
    BY <2>2 DEF Fresh, AutoReplyFresh, Shown
  <2>4. Answers = {i \in 1..Len(q) : q[i].tok = "auto"}
    BY DEF Answers
  <2>5. Answers' = {i \in 1..Len(r) : r[i].tok = "auto"}
    BY DEF Answers
  <2>6. \A i : Shown(i)' = r[i].ver
    BY DEF Shown
  <2>7. /\ Len(q) \in Nat /\ Len(r) = Len(q) + 1 /\ r[Len(q) + 1] = m
        /\ \A i \in 1..Len(q) : r[i] = q[i]
    BY <2>1, AppendProperties, LenProperties
  <2>. HIDE DEF q, m
  <2>8. ASSUME NEW i \in Answers'
        PROVE  \/ i \in Answers /\ r[i] = q[i]
               \/ i = Len(q) + 1 /\ r[i] = m /\ m.tok = "auto"
    <3>1. i \in 1..(Len(q) + 1) /\ r[i].tok = "auto"
      BY <2>5, <2>7
    <3>2. CASE i = Len(q) + 1
      BY <2>7, <3>1, <3>2
    <3>3. CASE i \in 1..Len(q)
      BY <2>4, <2>7, <3>1, <3>3
    <3>. QED
      BY <2>7, <3>1, <3>2, <3>3
  <2>9. ASSUME NEW i \in Answers'
        PROVE  r[i].since <= r[i].ver /\ r[i].ver <= ver
    BY <2>2, <2>3, <2>8
  <2>10. ASSUME NEW i \in Answers', NEW j \in Answers', i < j
         PROVE  r[i].ver <= r[j].ver
    <3>1. i \in 1..(Len(q) + 1) /\ j \in 1..(Len(q) + 1)
      BY <2>5, <2>7
    <3>2. i # Len(q) + 1
      BY <2>7, <2>10, <3>1
    <3>3. i \in Answers /\ r[i] = q[i]
      BY <2>8, <3>2
    <3>4. CASE j \in Answers /\ r[j] = q[j]
      BY <2>3, <2>10, <3>3, <3>4
    <3>5. CASE r[j] = m /\ m.tok = "auto"
      BY <2>3, <3>3, <3>5
    <3>. QED
      BY <2>8, <3>4, <3>5
  <2>11. AutoReplyFresh'
    <3>1. \A i \in Answers' : r[i].since <= r[i].ver
      BY <2>9
    <3>2. \A i, j \in Answers' : i < j => r[i].ver <= r[j].ver
      BY <2>10
    <3>. QED
      BY <2>6, <3>1, <3>2 DEF AutoReplyFresh
  <2>12. HeldFresh'
    BY <1>3 DEF HeldFresh
  <2>13. \A i \in Answers' : Shown(i)' <= ver'
    BY <1>0, <2>6, <2>9
  <2>. QED
    BY <2>11, <2>12, <2>13 DEF Fresh
<1>. QED
  BY <1>1, <1>2, <1>3

LEMMA FreshStep ==
  ASSUME TypeOK, Asked, Fresh, [Next]_vars
  PROVE  Fresh'
<1>0. ver \in Nat /\ ver' \in Nat /\ ver <= ver'
  BY VerGrows
<1>1. ASSUME Queued("response")' = Queued("response"), UNCHANGED <<rd, cur>>
      PROVE  Fresh'
  <2>1. Answers' = Answers /\ \A i \in Answers : Shown(i)' = Shown(i)
    BY <1>1 DEF Answers, Shown
  <2>2. ASSUME rd = "put"
        PROVE  cur[1].ver \in Nat
    BY <2>2, CurType DEF Handling, Messages, TypeOK
  <2>3. HeldFresh'
    BY <1>0, <1>1, <2>1, <2>2 DEF HeldFresh, Fresh
  <2>. QED
    BY <1>1, <2>3, FreshSame
<1>2. ASSUME UNCHANGED <<got, chan>>, rd' # "put" \/ UNCHANGED <<rd, cur>>
      PROVE  Fresh'
  <2>1. Queued("response")' = Queued("response")
    BY <1>2 DEF Queued
  <2>2. CASE rd' # "put"
    BY <2>1, <2>2, FreshSame DEF HeldFresh
  <2>. QED
    BY <1>1, <1>2, <2>1, <2>2
<1>3. ASSUME NEW k \in Kinds, AppTake(k)
      PROVE  Fresh'
  <2>1. Queued("response")' = Queued("response") /\ UNCHANGED <<rd, cur>>
    BY <1>3, TakeKeepsQueue DEF AppTake, readVars, TypeOK, Kinds
  <2>. QED
    BY <1>1, <2>1
<1>4. ASSUME ReadCheck \/ ReadNetstring \/ ReadError \/ ReadWs \/ RunStart
      PROVE  Fresh'
  BY <1>2, <1>4 DEF ReadCheck, ReadNetstring, ReadError, ReadWs, RunStart, appVars
<1>5. ASSUME \/ Emit \/ Reply \/ Keep \/ RunReturns \/ ConnEnds \/ CloseStart \/ Close
             \/ \E k \in Kinds : HubTake(k)
             \/ \E c \in Callers : CallPlain(c) \/ CallAuto(c) \/ Cmd(c)
             \/ \E i \in DOMAIN timer : Hangup(i)
             \/ UNCHANGED vars
      PROVE  Fresh'
  BY <1>2, <1>5
     DEF Emit, Reply, Keep, KeepWake, KeepPing, RunReturns, ConnEnds, CloseStart, Close, CloseConn,
         CloseChan, HubTake, CallPlain, CallAuto, Cmd, CmdCheck, CmdWrite, Hangup,
         HangupDue, HangupWrite, vars, appVars, readVars
<1>. QED
  BY <1>3, <1>4, <1>5, FreshHandle, FreshPut DEF Next, Read, Ended

-----------------------------------------------------------------------------
IInv == /\ TypeOK /\ ReadAfterRun /\ PingDue
        /\ \A k \in Kinds : Lossless(k) /\ Follows(k)
        /\ Asked /\ Fresh

LEMMA InitIInv == Init => IInv
<1>. SUFFICES ASSUME Init
              PROVE  IInv
  OBVIOUS
<1>1. TypeOK /\ ReadAfterRun /\ PingDue
  BY InitTypeOK DEF Init, ReadAfterRun, PingDue
<1>2. ASSUME NEW k \in Kinds
      PROVE  Len(Queued(k)) = 0 /\ Len(Seen(k)) = 0
  <2>1. got[k] = <<>> /\ chan[k] = <<>> /\ wsGot[k] = <<>> /\ wsChan[k] = <<>>
    BY DEF Init
  <2>2. <<>> \o <<>> = <<>> /\ Len(<<>>) = 0
    OBVIOUS
  <2>. QED
    BY <2>1, <2>2 DEF Queued, Seen
<1>3. Len(wire) = 0 /\ Len(out) = 0 /\ rd = "idle"
  BY DEF Init
<1>4. ASSUME NEW k \in Kinds
      PROVE  Lossless(k) /\ Follows(k)
  <2>1. Len(Queued(k)) = 0 /\ Len(Seen(k)) = 0 /\ ~Holds(k) /\ Taken(k) = 0
        /\ ~Offered(k) /\ arrived[k] = 0
    BY <1>2, <1>3 DEF Holds, Taken, Offered, Init
  <2>2. QueueInOrder(k) /\ HeldIsNext(k) /\ WireIsNew(k) /\ WireInOrder(k) /\ WireHasRest(k)
    BY <1>3, <2>1 DEF QueueInOrder, HeldIsNext, WireIsNew, WireInOrder, WireHasRest
  <2>3. Follows(k)
    BY <2>1 DEF Follows
  <2>. QED
    BY <2>1, <2>2, <2>3 DEF Lossless
<1>5. Asked
  <2>1. \A c \in Callers : op[c].since = 0
    BY DEF Init, Ping
  <2>2. ver = 0
    BY DEF Init
  <2>. QED
    BY <1>3, <2>1, <2>2 DEF Asked, Handling
<1>6. Fresh
  <2>1. Answers = {}
    BY <1>2 DEF Answers, Kinds
  <2>. QED
    BY <1>3, <2>1 DEF Fresh, AutoReplyFresh, HeldFresh
<1>. QED
  BY <1>1, <1>4, <1>5, <1>6 DEF IInv

(* The inductive invariant holds in every reachable state. *)
THEOREM Inductive == Spec => []IInv
<1>1. ASSUME IInv, [Next]_vars
      PROVE  IInv'
  <2>1. TypeOK /\ ReadAfterRun /\ PingDue /\ Asked /\ Fresh
    BY <1>1 DEF IInv
  <2>2. TypeOK' /\ ReadAfterRun' /\ PingDue'
    BY <1>1, <2>1, StreamTypeStep, ReadTypeStep, ChanTypeStep, CallTypeStep, MainTypeStep
       DEF TypeOK
  <2>3. ASSUME NEW k \in Kinds
        PROVE  Lossless(k)' /\ Follows(k)'
    <3>1. Lossless(k) /\ Follows(k)
      BY <1>1 DEF IInv
    <3>. QED
      BY <1>1, <2>1, <3>1, LosslessStep, FollowsStep
  <2>4. Asked' /\ Fresh'
    BY <1>1, <2>1, AskedStep, FreshStep
  <2>. QED
    BY <2>2, <2>3, <2>4 DEF IInv
<1>. QED
  BY <1>1, InitIInv, PTL DEF Spec

(* The connection, the goroutines on it and the channels between them keep *)
(* their types; no channel ever holds more than its capacity (read, Cmd,   *)
(* keepActive, Run, Close).                                                *)
THEOREM TypeCorrect == Spec => []TypeOK
<1>1. IInv => TypeOK
  BY DEF IInv
<1>. QED
  BY <1>1, Inductive, PTL

(* Whatever baresip sends, however the goroutines interleave and wherever  *)
(* Run and Close are, the application's channels have the first events and *)
(* responses in order, read() holds the next one and the rest are on the   *)
(* wire: read() loses, doubles and overtakes none.                         *)
THEOREM NothingLost == Spec => []AppLossless
<1>1. IInv => AppLossless
  BY DEF IInv, AppLossless, Lossless
<1>. QED
  BY <1>1, Inductive, PTL

(* The hub's channels carry a subsequence of what the application's have,  *)
(* message for message, and never run ahead of them (read).                *)
THEOREM HubFollows == Spec => []WsFollowsApp
<1>1. IInv => WsFollowsApp
  BY DEF IInv, WsFollowsApp, Follows
<1>. QED
  BY <1>1, Inductive, PTL

(* An answer to an auto command shows at least the change its command had  *)
(* made, and later answers never show an earlier state (read and the       *)
(* CmdAuto functions of commands.go).                                      *)
THEOREM AnswersFresh == Spec => []AutoReplyFresh
<1>1. IInv => AutoReplyFresh
  BY DEF IInv, Fresh
<1>. QED
  BY <1>1, Inductive, PTL
=============================================================================
