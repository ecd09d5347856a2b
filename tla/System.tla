------------------------------- MODULE System -------------------------------
(***************************************************************************)
(* The control connection and the websocket hub together: what read()      *)
(* offers on eventWsChan and responseWsChan is what the hub takes and      *)
(* broadcasts, and what a browser sends goes, through the hub's call of    *)
(* CmdWs, the way of every other command and comes back through read().    *)
(*                                                                         *)
(* CtrlClient is extended, and its HubTake joined with the hub's.  The hub *)
(* and the pumps are those of WsHub, over variables of their own and over  *)
(* CtrlClient's two channels.  WsHub's closed, got and fault, names that   *)
(* CtrlClient has too, are cut, seen and hubFault here.                    *)
(***************************************************************************)
EXTENDS CtrlClient

CONSTANTS
  Hub,          \* the hub goroutine, as one that issues commands
  Clients,      \* the websocket connections
  SendCap,      \* capacity of client.send (256 in the code)
  MaxCommands,  \* bound: commands the browsers send, all together
  MaxPublished  \* bound: messages baresip sends, per kind

ASSUME HubAssumption   == HasWs /\ Hub \in Callers
ASSUME SendAssumption  == SendCap \in Nat \ {0}
ASSUME LimitAssumption == MaxCommands \in Nat /\ MaxPublished \in [Kinds -> Nat]

VARIABLES
  commands, hub, clients, todo, send, cut, serve, rp, wp, cnt, shut, gone,
  log, from, batch, seen, hubFault

hubVars == <<commands, hub, clients, todo, send, cut, serve, rp, wp, cnt, shut,
             gone, log, from, batch, seen, hubFault>>
sysVars == <<vars, hubVars>>

(* Of a message, WsHub has the kind and the number. *)
Brief(m)  == [kind |-> m.kind, id |-> m.id]
BriefChan == [k \in Kinds |-> [i \in 1..Len(wsChan[k]) |-> Brief(wsChan[k][i])]]

(* How many messages read() has offered to the hub: all that it has put    *)
(* into the application's channel, but for one that it is about to offer.  *)
Offering(k)  == rd = "ws" /\ cur[1].kind = k
Published(k) == IF Offering(k) THEN Len(Queued(k)) - 1 ELSE Len(Queued(k))

H == INSTANCE WsHub WITH wsChan    <- BriefChan,
                         published <- [k \in Kinds |-> Published(k)],
                         closed    <- cut,
                         got       <- seen,
                         fault     <- hubFault

-----------------------------------------------------------------------------
SysInit == Init /\ H!Init

(* Steps that the hub has no part in. *)
Baresip == (Emit \/ Reply) /\ \A k \in Kinds : arrived'[k] <= MaxPublished[k]

Process ==
  \/ Baresip
  \/ ConnEnds
  \/ Read \/ Keep \/ Close
  \/ RunStart \/ RunReturns \/ CloseStart
  \/ \E k \in Kinds : AppTake(k)
  \/ \E c \in Callers \ {Hub} : CallPlain(c) \/ CallAuto(c) \/ Cmd(c)
  \/ \E i \in DOMAIN timer : Hangup(i)

(* Steps that the control connection has no part in. *)
Pumps ==
  \E c \in Clients : \/ H!HubRegister(c) \/ H!HubUnregister(c)
                     \/ H!HubSend(c) \/ H!HubDrop(c)
                     \/ H!Serving(c) \/ H!ReadPump(c) \/ H!WritePump(c)

(* The hub takes a message that read() has offered. *)
TakeWs(k) == HubTake(k) /\ H!HubTake(k)

(* The hub calls CmdWs with what a browser has sent.  CmdWs ignores "quit" *)
(* and "uadelall"; anything else becomes a command of the hub's.           *)
CmdWs(c) ==
  /\ CallPlain(Hub) \/ CallAuto(Hub) \/ UNCHANGED vars
  /\ H!HubCommand(c)

(* CmdWs returns when the command has been written or has failed. *)
CmdWsCalls   == Cmd(Hub) /\ UNCHANGED hubVars
CmdWsReturns == call[Hub] = "idle" /\ UNCHANGED vars /\ H!HubCommandDone

(* A panic ends the process, the hub and the pumps included. *)
SysNext ==
  \/ /\ fault = {}
     /\ \/ Process /\ UNCHANGED hubVars
        \/ UNCHANGED vars /\ Pumps
        \/ \E k \in Kinds : TakeWs(k)
        \/ \E c \in Clients : CmdWs(c)
        \/ CmdWsCalls
        \/ CmdWsReturns
  \/ Ended /\ UNCHANGED hubVars

SysSpec == SysInit /\ [][SysNext]_sysVars

-----------------------------------------------------------------------------
(* The control connection behaves as CtrlClient says, whatever the hub and *)
(* the browsers do: what CtrlClient assumes of a hub, this one does.       *)
ImplementsCtrlClient == Spec

(* The hub behaves as WsHub says: what read() offers it is what WsHub      *)
(* assumes, new messages numbered without a gap, although read() gives     *)
(* each to the application first and may wait there, or die of Close.      *)
ImplementsWsHub == H!Spec

(* A browser sees a message only after the application's channel has it,   *)
(* and the messages of a kind in the order baresip sent them: however the  *)
(* application, read(), the hub and the browsers compare in speed.         *)
AfterTheApp ==
  \A c \in Clients : \A i \in 1..Len(H!View(c)) :
    LET m == H!View(c)[i]
    IN  /\ m.id \in 1..Len(Queued(m.kind))
        /\ \A j \in 1..(i - 1) : H!View(c)[j].kind = m.kind => H!View(c)[j].id < m.id
=============================================================================
