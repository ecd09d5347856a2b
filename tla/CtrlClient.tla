----------------------------- MODULE CtrlClient -----------------------------
(***************************************************************************)
(* The control connection of go-baresip (gobaresip.go and Cmd): one TCP    *)
(* connection to baresip's ctrl_tcp, the goroutine read() that receives    *)
(* from it and feeds the application's and the websocket hub's channels,   *)
(* keepActive, the goroutines that call Cmd, the hangup timers read()      *)
(* starts, and the main goroutine in Run and then Close.                   *)
(*                                                                         *)
(* baresip itself is outside: it answers the commands in order and emits   *)
(* events whenever it likes.  The websocket hub is reduced to its two      *)
(* channels (WsHub has the rest).  A panic ends the process.               *)
(***************************************************************************)
EXTENDS Naturals, Sequences, FiniteSets

CONSTANTS
  Callers,   \* goroutines that issue commands
  ChanCap,   \* capacity of eventChan and responseChan (100 in the code)
  WsCap,     \* capacity of eventWsChan and responseWsChan (100)
  HasWs,     \* wsAddr # "": there is a hub
  MaxCalls,  \* bound: commands the callers issue, all together
  MaxEmitted,\* bound: messages baresip sends of its own accord
  MaxPings   \* bound: pings that keepActive sends

ASSUME CapAssumption   == ChanCap \in Nat \ {0} /\ WsCap \in Nat \ {0}
ASSUME WsAssumption    == HasWs \in BOOLEAN
ASSUME BoundAssumption == {MaxCalls, MaxEmitted, MaxPings} \subseteq Nat

Kinds  == {"event", "response"}
(* Which of read()'s cases a token falls into: the prefixes cmd_dial and   *)
(* cmd_auto, and all the others, keepActive's "ping" among them.           *)
Tokens == {"dial", "auto", "plain"}

(* A command on its way to baresip.  since is the value of ver when its    *)
(* caller had made the change the command asks about; hangs tells which    *)
(* dialled call it hangs up, if it does.                                   *)
Commands == [tok : Tokens, since : Nat, hangs : Nat]

(* A message on its way from baresip to the application.  id numbers the   *)
(* messages of one kind as baresip sent them, callid tells whether the     *)
(* data of a response names a call, ver is the state an auto reply shows.  *)
(* "other" stands for what read() discards: JSON it cannot parse, neither  *)
(* event nor response; "bad" for bytes that are not a netstring.           *)
Messages == [kind : Kinds \cup {"other", "bad"}, id : Nat, tok : Tokens,
             callid : BOOLEAN, since : Nat, ver : Nat]

VARIABLES
  alive,     \* ctrlConnAlive
  conn,      \* ctrlConn: "open", "eof" (closed by baresip, or broken), "closed"
  out,       \* commands on their way to baresip
  wire,      \* messages on their way from baresip
  arrived,   \* how many messages of each kind baresip has sent
  emitted,   \* how many of them were nobody's reply
  rd,        \* read()
  cur,       \* the message read() is handling
  chan,      \* eventChan and responseChan
  closed,    \* which of them Close has closed
  wsChan,    \* eventWsChan and responseWsChan
  wsGot,     \* what the hub has received from them
  got,       \* what the application has received
  keep,      \* keepActive
  pings,     \* how many pings it has sent
  call,      \* the goroutines that call Cmd
  op,        \* the command each of them issues
  calls,     \* how many commands they have issued
  ver,       \* how often the state behind autoCmd.mux has been changed
  gapOn,     \* hangupGap > 0
  timer,     \* the hangup timers, one for each call that gets one
  main,      \* the goroutine in Run and then Close
  fault      \* Go panics

autoVars   == <<ver, gapOn>>
appVars    == <<chan, closed, got>>
wsVars     == <<wsChan, wsGot>>
readVars   == <<rd, cur>>
callVars   == <<call, op, calls, timer>>
keepVars   == <<keep, pings>>
streamVars == <<out, wire, arrived, emitted>>
mainVars   == <<main, alive, conn>>
vars == <<autoVars, appVars, wsVars, readVars, callVars, keepVars, streamVars,
          mainVars, fault>>

Ping == [tok |-> "plain", since |-> 0, hangs |-> 0]

-----------------------------------------------------------------------------
(* New has returned: the connection is up and keepActive runs.             *)
Init ==
  /\ alive   = 1
  /\ conn    = "open"
  /\ out     = <<>>
  /\ wire    = <<>>
  /\ arrived = [k \in Kinds |-> 0]
  /\ emitted = 0
  /\ rd      = "idle"
  /\ cur     = <<>>
  /\ chan    = [k \in Kinds |-> <<>>]
  /\ closed  = {}
  /\ wsChan  = [k \in Kinds |-> <<>>]
  /\ wsGot   = [k \in Kinds |-> <<>>]
  /\ got     = [k \in Kinds |-> <<>>]
  /\ keep    = "sleep"
  /\ pings   = 0
  /\ call    = [c \in Callers |-> "idle"]
  /\ op      = [c \in Callers |-> Ping]
  /\ calls   = 0
  /\ ver     = 0
  /\ gapOn   = FALSE
  /\ timer   = <<>>
  /\ main    = "new"
  /\ fault   = {}

-----------------------------------------------------------------------------
(* baresip, while its main loop runs and the connection is up. *)
Send(m) ==
  /\ wire' = Append(wire, m)
  /\ arrived' = IF m.kind \in Kinds THEN [arrived EXCEPT ![m.kind] = @ + 1]
                                    ELSE arrived

Emit ==
  /\ main = "run" /\ conn = "open"
  /\ emitted < MaxEmitted
  /\ emitted' = emitted + 1
  /\ \/ Send([kind |-> "event", id |-> arrived["event"] + 1, tok |-> "plain",
              callid |-> FALSE, since |-> 0, ver |-> 0])
     \/ \E k \in {"other", "bad"} :
          Send([kind |-> k, id |-> 0, tok |-> "plain",
                callid |-> FALSE, since |-> 0, ver |-> 0])
  /\ UNCHANGED <<out, autoVars, appVars, wsVars, readVars, callVars, keepVars,
                 mainVars, fault>>

(* The reply to a dial names the call id unless the dial failed. *)
Reply ==
  /\ main = "run" /\ conn = "open"
  /\ out # <<>>
  /\ out' = Tail(out)
  /\ \E id \in IF Head(out).tok = "dial" THEN BOOLEAN ELSE {FALSE} :
       Send([kind |-> "response", id |-> arrived["response"] + 1,
             tok |-> Head(out).tok, callid |-> id,
             since |-> Head(out).since, ver |-> 0])
  /\ UNCHANGED <<emitted, autoVars, appVars, wsVars, readVars, callVars,
                 keepVars, mainVars, fault>>

(* ctrl_tcp drops the connection, or it breaks, while the main loop goes   *)
(* on.  What is under way may get lost or may still be read.  Nothing      *)
(* connects again.                                                         *)
ConnEnds ==
  /\ main = "run" /\ conn = "open"
  /\ conn' = "eof"
  /\ UNCHANGED <<main, alive, autoVars, appVars, wsVars, readVars, callVars,
                 keepVars, streamVars, fault>>

-----------------------------------------------------------------------------
(* read() *)
ReadCheck ==
  /\ rd = "check"
  /\ rd' = IF alive = 0 THEN "done" ELSE "read"
  /\ UNCHANGED <<cur, autoVars, appVars, wsVars, callVars, keepVars,
                 streamVars, mainVars, fault>>

(* Mutant: a message that cannot be parsed ends the loop. *)
ReadNetstringGivesUp ==
  /\ rd = "read"
  /\ wire # <<>> /\ Head(wire).kind # "bad"
  /\ wire' = Tail(wire)
  /\ IF Head(wire).kind \in Kinds
       THEN rd' = "handle" /\ cur' = <<Head(wire)>>
       ELSE rd' = "done" /\ UNCHANGED cur
  /\ UNCHANGED <<out, arrived, emitted, autoVars, appVars, wsVars, callVars,
                 keepVars, mainVars, fault>>

(* A whole netstring is returned, perhaps from the buffer of a connection  *)
(* that is closed already.                                                 *)
ReadNetstring ==
  /\ rd = "read"
  /\ wire # <<>> /\ Head(wire).kind # "bad"
  /\ wire' = Tail(wire)
  /\ IF Head(wire).kind \in Kinds
       THEN rd' = "handle" /\ cur' = <<Head(wire)>>
       ELSE rd' = "check" /\ UNCHANGED cur
  /\ UNCHANGED <<out, arrived, emitted, autoVars, appVars, wsVars, callVars,
                 keepVars, mainVars, fault>>

(* Any error leaves the loop for good, whether Run goes on or not;         *)
(* ctrlConnAlive stays as it is.                                           *)
ReadError ==
  /\ rd = "read"
  /\ conn # "open" \/ (wire # <<>> /\ Head(wire).kind = "bad")
  /\ rd' = "done"
  /\ UNCHANGED <<cur, autoVars, appVars, wsVars, callVars, keepVars,
                 streamVars, mainVars, fault>>

(* A call that was dialled gets its hangup timer. *)
HangupTimer(m) ==
  timer' = IF m.tok = "dial" /\ m.callid /\ gapOn
             THEN Append(timer, "sleep") ELSE timer

(* Mutant: baresip's own answer to an auto command is passed on. *)
ReadHandleNoSnapshot ==
  /\ rd = "handle"
  /\ rd' = "put"
  /\ HangupTimer(cur[1])
  /\ UNCHANGED <<cur, call, op, calls, autoVars, appVars, wsVars, keepVars,
                 streamVars, mainVars, fault>>

(* What read() does with a message before it hands it on.  The reply to an *)
(* auto command is replaced by the state of autoCmd at this moment.        *)
ReadHandle ==
  /\ rd = "handle"
  /\ rd' = "put"
  /\ LET m == cur[1]
     IN  /\ HangupTimer(m)
         /\ cur' = IF m.tok = "auto" THEN <<[m EXCEPT !.ver = ver]>> ELSE cur
  /\ UNCHANGED <<call, op, calls, autoVars, appVars, wsVars, keepVars, streamVars,
                 mainVars, fault>>

(* Mutant: the send gives up when the channel is full. *)
ReadPutDrops ==
  /\ rd = "put"
  /\ rd' = "ws"
  /\ LET k == cur[1].kind
     IN  chan' = IF Len(chan[k]) < ChanCap
                   THEN [chan EXCEPT ![k] = Append(@, cur[1])] ELSE chan
  /\ UNCHANGED <<cur, closed, got, autoVars, wsVars, callVars, keepVars,
                 streamVars, mainVars, fault>>

(* The send that waits while the application's channel is full, and that   *)
(* panics if the channel is, or becomes, closed.                           *)
ReadPut ==
  /\ rd = "put"
  /\ LET k == cur[1].kind
     IN  \/ /\ k \in closed
            /\ fault' = fault \cup {"send_on_closed"}
            /\ UNCHANGED <<rd, chan>>
         \/ /\ k \notin closed
            /\ Len(chan[k]) < ChanCap
            /\ chan' = [chan EXCEPT ![k] = Append(@, cur[1])]
            /\ rd'   = "ws"
            /\ UNCHANGED fault
  /\ UNCHANGED <<cur, closed, got, autoVars, wsVars, callVars, keepVars,
                 streamVars, mainVars>>

(* Mutant: off by one in the capacity. *)
ReadWsOverfills ==
  /\ rd = "ws"
  /\ rd'  = "check"
  /\ cur' = <<>>
  /\ LET k == cur[1].kind
     IN  wsChan' = IF HasWs /\ Len(wsChan[k]) <= WsCap
                     THEN [wsChan EXCEPT ![k] = Append(@, cur[1])] ELSE wsChan
  /\ UNCHANGED <<wsGot, autoVars, appVars, callVars, keepVars, streamVars,
                 mainVars, fault>>

(* The send to the hub, if there is one, which drops the message when the  *)
(* channel is full.                                                        *)
ReadWs ==
  /\ rd = "ws"
  /\ rd'  = "check"
  /\ cur' = <<>>
  /\ LET k == cur[1].kind
     IN  wsChan' = IF HasWs /\ Len(wsChan[k]) < WsCap
                     THEN [wsChan EXCEPT ![k] = Append(@, cur[1])] ELSE wsChan
  /\ UNCHANGED <<wsGot, autoVars, appVars, callVars, keepVars, streamVars,
                 mainVars, fault>>

-----------------------------------------------------------------------------
(* The application and the hub, at the other ends of the channels. *)
AppTake(k) ==
  /\ chan[k] # <<>>
  /\ got'  = [got EXCEPT ![k] = Append(@, Head(chan[k]))]
  /\ chan' = [chan EXCEPT ![k] = Tail(@)]
  /\ UNCHANGED <<closed, autoVars, wsVars, readVars, callVars, keepVars,
                 streamVars, mainVars, fault>>

HubTake(k) ==
  /\ wsChan[k] # <<>>
  /\ wsGot'  = [wsGot EXCEPT ![k] = Append(@, Head(wsChan[k]))]
  /\ wsChan' = [wsChan EXCEPT ![k] = Tail(@)]
  /\ UNCHANGED <<autoVars, appVars, readVars, callVars, keepVars, streamVars,
                 mainVars, fault>>

-----------------------------------------------------------------------------
(* A Write on the connection; ok tells whether it returns without error.   *)
(* It may time out or fail at any time, and then baresip does not get the  *)
(* command (CtrlWrite has the writes that are cut short).  Once baresip's  *)
(* end is closed a write may still succeed, and has no effect.             *)
Write(m, ok) == out' = IF ok /\ conn = "open" THEN Append(out, m) ELSE out

Issue(c, m) ==
  /\ call[c] = "idle"
  /\ calls < MaxCalls
  /\ calls' = calls + 1
  /\ call'  = [call EXCEPT ![c] = "check"]
  /\ op'    = [op EXCEPT ![c] = m]

(* A goroutine calls CmdDial, another plain command or one of the          *)
(* autocmd functions, which change the numbers or the hangup gap (or, like *)
(* autocmdinfo, nothing) and only then ask baresip for a reply.            *)
CallPlain(c) ==
  /\ \E t \in {"dial", "plain"} : Issue(c, [Ping EXCEPT !.tok = t])
  /\ UNCHANGED <<timer, autoVars, appVars, wsVars, readVars, keepVars,
                 streamVars, mainVars, fault>>

CallAuto(c) ==
  /\ \/ ver' = ver + 1 /\ gapOn' \in BOOLEAN
     \/ UNCHANGED <<ver, gapOn>>
  /\ Issue(c, [Ping EXCEPT !.tok = "auto", !.since = ver'])
  /\ UNCHANGED <<timer, appVars, wsVars, readVars, keepVars, streamVars,
                 mainVars, fault>>

CmdCheck(c) ==
  /\ call[c] = "check"
  /\ call' = [call EXCEPT ![c] = IF alive = 0 THEN "idle" ELSE "write"]
  /\ UNCHANGED <<op, calls, timer, autoVars, appVars, wsVars, readVars,
                 keepVars, streamVars, mainVars, fault>>

CmdWrite(c) ==
  /\ call[c] = "write"
  /\ call' = [call EXCEPT ![c] = "idle"]
  /\ \E ok \in BOOLEAN : Write(op[c], ok)
  /\ UNCHANGED <<op, calls, timer, wire, arrived, emitted, autoVars, appVars,
                 wsVars, readVars, keepVars, mainVars, fault>>

(* Mutant: the timer looks at the hangup gap again when it fires. *)
HangupDueIfStillOn(i) ==
  /\ timer[i] = "sleep"
  /\ timer' = [timer EXCEPT ![i] =
                 IF alive = 0 \/ ~gapOn THEN "done" ELSE "write"]
  /\ UNCHANGED <<call, op, calls, autoVars, appVars, wsVars, readVars,
                 keepVars, streamVars, mainVars, fault>>

(* The goroutine read() started for a dialled call: it sleeps, and hangs   *)
(* the call up with a command of its own, whose error is ignored.          *)
HangupDue(i) ==
  /\ timer[i] = "sleep"
  /\ timer' = [timer EXCEPT ![i] = IF alive = 0 THEN "done" ELSE "write"]
  /\ UNCHANGED <<call, op, calls, autoVars, appVars, wsVars, readVars,
                 keepVars, streamVars, mainVars, fault>>

HangupWrite(i) ==
  /\ timer[i] = "write"
  /\ \E ok \in BOOLEAN :
       /\ timer' = [timer EXCEPT ![i] = IF ok THEN "done" ELSE "failed"]
       /\ Write([Ping EXCEPT !.hangs = i], ok)
  /\ UNCHANGED <<call, op, calls, wire, arrived, emitted, autoVars, appVars,
                 wsVars, readVars, keepVars, mainVars, fault>>

KeepWake ==
  /\ keep = "sleep"
  /\ \/ alive = 0 /\ keep' = "done"
     \/ alive = 1 /\ pings < MaxPings /\ keep' = "write"
  /\ UNCHANGED <<pings, autoVars, appVars, wsVars, readVars, callVars,
                 streamVars, mainVars, fault>>

KeepPing ==
  /\ keep = "write"
  /\ keep'  = "sleep"
  /\ pings' = pings + 1
  /\ \E ok \in BOOLEAN : Write(Ping, ok)
  /\ UNCHANGED <<wire, arrived, emitted, autoVars, appVars, wsVars, readVars,
                 callVars, mainVars, fault>>

-----------------------------------------------------------------------------
(* The main goroutine. *)
RunStart ==
  /\ main = "new"
  /\ main' = "run"
  /\ rd'   = "check"
  /\ UNCHANGED <<cur, alive, conn, autoVars, appVars, wsVars, callVars,
                 keepVars, streamVars, fault>>

(* baresip's main loop ends (quit, or a signal), end() shuts its modules   *)
(* down, which closes ctrl_tcp's side of the connection, and Run returns.  *)
RunReturns ==
  /\ main = "run"
  /\ main' = "returned"
  /\ conn' = "eof"
  /\ UNCHANGED <<alive, autoVars, appVars, wsVars, readVars, callVars,
                 keepVars, streamVars, fault>>

(* Mutant: Close does not reset ctrlConnAlive. *)
CloseStartKeepsAlive ==
  /\ main = "returned"
  /\ main' = "conn"
  /\ UNCHANGED <<alive, conn, autoVars, appVars, wsVars, readVars, callVars,
                 keepVars, streamVars, fault>>

CloseStart ==
  /\ main = "returned"
  /\ main'  = "conn"
  /\ alive' = 0
  /\ UNCHANGED <<conn, autoVars, appVars, wsVars, readVars, callVars,
                 keepVars, streamVars, fault>>

CloseConn ==
  /\ main = "conn"
  /\ main' = "response"
  /\ conn' = "closed"
  /\ UNCHANGED <<alive, autoVars, appVars, wsVars, readVars, callVars,
                 keepVars, streamVars, fault>>

CloseChan(k) ==
  /\ main = k
  /\ main'   = IF k = "response" THEN "event" ELSE "done"
  /\ closed' = closed \cup {k}
  /\ UNCHANGED <<alive, conn, chan, got, autoVars, wsVars, readVars, callVars,
                 keepVars, streamVars, fault>>

-----------------------------------------------------------------------------
Read   == ReadCheck \/ ReadNetstring \/ ReadError \/ ReadHandle \/ ReadPut \/ ReadWs
Keep   == KeepWake \/ KeepPing
Cmd(c) == CmdCheck(c) \/ CmdWrite(c)
Hangup(i) == HangupDue(i) \/ HangupWrite(i)
Close  == CloseConn \/ \E k \in Kinds : CloseChan(k)

(* The process has panicked, or main has returned from Close and what is   *)
(* left of the goroutines has ended.                                       *)
Ended ==
  /\ \/ fault # {}
     \/ /\ main = "done" /\ rd = "done" /\ keep = "done"
        /\ \A k \in Kinds : chan[k] = <<>> /\ wsChan[k] = <<>>
        /\ \A c \in Callers : call[c] = "idle"
        /\ \A i \in DOMAIN timer : timer[i] \in {"done", "failed"}
  /\ UNCHANGED vars

Next ==
  \/ /\ fault = {}
     /\ \/ Emit \/ Reply \/ ConnEnds
        \/ Read \/ Keep \/ Close
        \/ RunStart \/ RunReturns \/ CloseStart
        \/ \E k \in Kinds : AppTake(k) \/ HubTake(k)
        \/ \E c \in Callers : CallPlain(c) \/ CallAuto(c) \/ Cmd(c)
        \/ \E i \in DOMAIN timer : Hangup(i)
  \/ Ended

Spec == Init /\ [][Next]_vars

(***************************************************************************)
(* The Go scheduler runs every goroutine that can run, baresip answers the *)
(* commands it has received, and the application does what the README      *)
(* shows: one goroutine that selects on both channels, and Close once Run  *)
(* has returned.  Nothing makes baresip emit events, a write succeed, the  *)
(* connection end or last, Run return or somebody call Cmd.                *)
(***************************************************************************)
Fairness ==
  /\ WF_vars(fault = {} /\ Reply)
  /\ WF_vars(fault = {} /\ Read)
  /\ WF_vars(fault = {} /\ Keep)
  /\ WF_vars(fault = {} /\ (RunStart \/ CloseStart \/ Close))
  /\ \A k \in Kinds : WF_vars(fault = {} /\ AppTake(k))
  /\ \A c \in Callers : WF_vars(fault = {} /\ Cmd(c))
  /\ \A i \in 1..MaxCalls : WF_vars(fault = {} /\ i \in DOMAIN timer /\ Hangup(i))

FairSpec == Spec /\ Fairness

-----------------------------------------------------------------------------
Handling == rd \in {"handle", "put", "ws"}

StreamTypeOK ==
  /\ out     \in Seq(Commands)
  /\ wire    \in Seq(Messages)
  /\ arrived \in [Kinds -> Nat]
  /\ emitted \in 0..MaxEmitted

ReadTypeOK ==
  /\ rd      \in {"idle", "check", "read", "handle", "put", "ws", "done"}
  /\ cur     \in Seq(Messages)
  /\ Handling => Len(cur) = 1 /\ cur[1].kind \in Kinds
  /\ ~Handling => cur = <<>>

ChanTypeOK ==
  /\ chan    \in [Kinds -> Seq(Messages)]
  /\ \A k \in Kinds : Len(chan[k]) <= ChanCap
  /\ closed  \subseteq Kinds
  /\ got     \in [Kinds -> Seq(Messages)]

WsTypeOK ==
  /\ wsChan  \in [Kinds -> Seq(Messages)]
  /\ \A k \in Kinds : Len(wsChan[k]) <= WsCap
  /\ wsGot   \in [Kinds -> Seq(Messages)]

CallTypeOK ==
  /\ call    \in [Callers -> {"idle", "check", "write"}]
  /\ op      \in [Callers -> Commands]
  /\ calls   \in 0..MaxCalls
  /\ timer   \in Seq({"sleep", "write", "done", "failed"})
  /\ ver     \in Nat
  /\ gapOn   \in BOOLEAN

MainTypeOK ==
  /\ keep    \in {"sleep", "write", "done"}
  /\ pings   \in 0..MaxPings
  /\ main    \in {"new", "run", "returned", "conn", "response", "event", "done"}
  /\ alive   \in {0, 1}
  /\ conn    \in {"open", "eof", "closed"}
  /\ fault   \subseteq {"send_on_closed"}

TypeOK == /\ StreamTypeOK /\ ReadTypeOK /\ ChanTypeOK /\ WsTypeOK
          /\ CallTypeOK /\ MainTypeOK

(* What has been put into the application's channel, and how many messages *)
(* of a kind read() has taken off the connection.                          *)
Queued(k) == got[k] \o chan[k]
Holds(k)  == rd \in {"handle", "put"} /\ cur[1].kind = k
Taken(k)  == IF Holds(k) THEN Len(Queued(k)) + 1 ELSE Len(Queued(k))

(* Every event and every response that baresip sends reaches the           *)
(* application's channel of that kind in the order it was sent; none is    *)
(* lost, doubled or overtaken on the way, however full the channels are:   *)
(* the channel has the first ones, read() has the next, and the rest are   *)
(* on the wire.                                                            *)
QueueInOrder(k) == \A i \in 1..Len(Queued(k)) : Queued(k)[i].id = i
HeldIsNext(k)   == Holds(k) => cur[1].id = Taken(k)
WireIsNew(k)    == \A i \in 1..Len(wire) :
                     wire[i].kind = k => wire[i].id > Taken(k) /\ wire[i].id <= arrived[k]
WireInOrder(k)  == \A i, j \in 1..Len(wire) :
                     i < j /\ wire[i].kind = k /\ wire[j].kind = k => wire[i].id < wire[j].id
WireHasRest(k)  == \A n \in (Taken(k) + 1)..arrived[k] :
                     \E i \in 1..Len(wire) : wire[i].kind = k /\ wire[i].id = n

AppLossless ==
  \A k \in Kinds : /\ QueueInOrder(k) /\ HeldIsNext(k)
                   /\ WireIsNew(k) /\ WireInOrder(k) /\ WireHasRest(k)

(* The answer to an auto command shows the effect of that command, and the *)
(* answers never go back to an older state: although the state is read     *)
(* when the answer arrives, by another goroutine than the one that changed *)
(* it.                                                                     *)
Answers == {i \in 1..Len(Queued("response")) : Queued("response")[i].tok = "auto"}
Shown(i) == Queued("response")[i].ver

AutoReplyFresh ==
  /\ \A i \in Answers : Queued("response")[i].since <= Shown(i)
  /\ \A i, j \in Answers : i < j => Shown(i) <= Shown(j)

(* The websocket side sees messages only after the application's channel   *)
(* has them, each at most once, in their order and unaltered; when it is   *)
(* slow it misses messages and the application does not notice.            *)
Seen(k) == wsGot[k] \o wsChan[k]

WsFollowsApp ==
  \A k \in Kinds :
    /\ \A i \in 1..Len(Seen(k)) :
         /\ Seen(k)[i].id \in 1..Len(Queued(k))
         /\ Seen(k)[i] = Queued(k)[Seen(k)[i].id]
    /\ \A i, j \in 1..Len(Seen(k)) : i < j => Seen(k)[i].id < Seen(k)[j].id

(* Close may be called when Run has returned, as the README shows it, and  *)
(* ends the channels without a panic.                                      *)
NoPanic == fault = {}

(* What baresip has sent, and has not put behind bytes that end read(), is *)
(* received by the application, for as long as the connection is up.       *)
Unreadable(k) == {i \in 1..Len(wire) :
                    wire[i].kind = k /\ \E j \in 1..(i - 1) : wire[j].kind = "bad"}
Due(k) == arrived[k] - Cardinality(Unreadable(k))

Delivered ==
  \A k \in Kinds : Len(got[k]) < Due(k) ~> (Len(got[k]) >= Due(k) \/ conn # "open")

(* read() ends when the connection does, whether Run goes on or not, but   *)
(* for a Close that makes it panic; keepActive goes on, and ends, too,     *)
(* after Close.                                                            *)
ShutdownCompletes ==
  /\ (conn # "open" /\ rd # "idle") ~> (rd = "done" \/ fault # {})
  /\ main = "done" ~> ((rd = "done" /\ keep = "done") \/ fault # {})

(* A dialled call with a hangup gap set when read() handles the answer is  *)
(* hung up, though the gap be cleared while the timer sleeps; unless the   *)
(* connection ends first, or the write of the hangup fails: no one looks   *)
(* at its error and nothing repeats it.                                    *)
DialledIsHungUp ==
  \A i \in 1..MaxCalls :
    (i \in DOMAIN timer /\ timer[i] = "sleep") ~>
      ( \/ \E n \in 1..Len(out) : out[n].hangs = i
        \/ i \in DOMAIN timer /\ timer[i] = "failed"
        \/ conn # "open" )
=============================================================================
