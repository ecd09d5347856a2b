------------------------------- MODULE WsHub -------------------------------
(***************************************************************************)
(* The websocket hub of go-baresip (ws.go): one hub goroutine, and for     *)
(* every connection the HTTP handler that registers it, a readPump and a   *)
(* writePump.  They share Go channels: register, unregister and command    *)
(* are unbuffered (a rendezvous is one step of both parties), the two      *)
(* channels that Baresip.read feeds and the send channel of every client   *)
(* are bounded.  Each step below is one channel operation, one library     *)
(* call or one iteration of a loop of one goroutine.                       *)
(*                                                                         *)
(* A Go channel operation that would panic (closing a closed channel,      *)
(* sending on a closed channel) is recorded in fault.                      *)
(***************************************************************************)
EXTENDS Naturals, Sequences, FiniteSets

CONSTANTS
  Clients,      \* the *client values: one per websocket connection
  SendCap,      \* capacity of client.send (256 in the code)
  WsCap,        \* capacity of eventWsChan and responseWsChan (100)
  MaxPublished, \* bound: messages read() offers, per kind
  MaxCommands   \* bound: commands the browsers send, all together

ASSUME SendCapAssumption == SendCap \in Nat \ {0}
ASSUME WsCapAssumption   == WsCap \in Nat \ {0}

Kinds    == {"event", "response"}
Messages == UNION {[kind : {k}, id : 1..MaxPublished[k]] : k \in Kinds}

ASSUME BoundsAssumption == MaxPublished \in [Kinds -> Nat] /\ MaxCommands \in Nat

VARIABLES
  wsChan,    \* eventWsChan and responseWsChan, by kind
  published, \* how many messages of each kind read() has offered
  commands,  \* how many commands the browsers have sent
  hub,       \* what the hub goroutine is doing
  clients,   \* h.clients
  todo,      \* clients the current broadcast has still to visit
  send,      \* contents of client.send
  closed,    \* clients whose send channel has been closed
  serve,     \* serveWs of each connection
  rp,        \* readPump of each connection
  wp,        \* writePump of each connection
  cnt,       \* writePump's n - i: queued messages it still has to add
  shut,      \* connections on which a pump has called conn.Close
  gone,      \* connections whose peer has closed, vanished or stalled
  log,       \* history: the messages the hub took, in the order it took them
  from,      \* history: Len(log) when the client was registered
  batch,     \* messages in the websocket frame writePump is composing
  got,       \* messages in frames writePump has completed
  fault      \* Go panics

chanVars   == <<wsChan, published, log>>
streamVars == <<send, batch, got, cnt>>
connVars   == <<serve, rp, wp, shut, gone, commands>>
hubVars    == <<hub, clients, todo, closed, from, fault>>
vars       == <<chanVars, streamVars, connVars, hubVars>>

-----------------------------------------------------------------------------
Init ==
  /\ wsChan    = [k \in Kinds |-> <<>>]
  /\ published = [k \in Kinds |-> 0]
  /\ commands  = 0
  /\ hub       = "select"
  /\ clients   = {}
  /\ todo      = {}
  /\ send      = [c \in Clients |-> <<>>]
  /\ closed    = {}
  /\ serve     = [c \in Clients |-> "none"]
  /\ rp        = [c \in Clients |-> "none"]
  /\ wp        = [c \in Clients |-> "none"]
  /\ cnt       = [c \in Clients |-> 0]
  /\ shut      = {}
  /\ gone      = {}
  /\ log       = <<>>
  /\ from      = [c \in Clients |-> 0]
  /\ batch     = [c \in Clients |-> <<>>]
  /\ got       = [c \in Clients |-> <<>>]
  /\ fault     = {}

(* What Go does on a channel operation that finds the channel closed. *)
CloseFault(c) == IF c \in closed THEN {"close_of_closed"} ELSE {}
SendFault(c)  == IF c \in closed THEN {"send_on_closed"} ELSE {}

-----------------------------------------------------------------------------
(* Baresip.read offers a message to the hub and drops it if the channel is *)
(* full (select with a default).                                           *)
Publish(k) ==
  /\ published[k] < MaxPublished[k]
  /\ published' = [published EXCEPT ![k] = @ + 1]
  /\ IF Len(wsChan[k]) < WsCap
       THEN wsChan' = [wsChan EXCEPT ![k] =
                         Append(@, [kind |-> k, id |-> published[k] + 1])]
       ELSE UNCHANGED wsChan
  /\ UNCHANGED <<log, streamVars, connVars, hubVars>>

-----------------------------------------------------------------------------
(* serveWs: the upgrade succeeds, the client is handed to the hub, and the *)
(* pumps are started.                                                      *)
Upgrade(c) ==
  /\ serve[c] = "none"
  /\ serve' = [serve EXCEPT ![c] = "register"]
  /\ UNCHANGED <<chanVars, streamVars, rp, wp, shut, gone, commands, hubVars>>

StartPumps(c) ==
  /\ serve[c] = "start"
  /\ serve' = [serve EXCEPT ![c] = "done"]
  /\ wp'    = [wp EXCEPT ![c] = "select"]
  /\ rp'    = [rp EXCEPT ![c] = "read"]
  /\ UNCHANGED <<chanVars, streamVars, shut, gone, commands, hubVars>>

(* The peer closes the connection, vanishes, or stops answering pings.     *)
PeerGone(c) ==
  /\ serve[c] # "none"
  /\ c \notin gone
  /\ gone' = gone \cup {c}
  /\ UNCHANGED <<chanVars, streamVars, serve, rp, wp, shut, commands, hubVars>>

-----------------------------------------------------------------------------
(* The hub goroutine, waiting in its select.                               *)
HubRegister(c) ==
  /\ hub = "select"
  /\ serve[c] = "register"
  /\ serve'   = [serve EXCEPT ![c] = "start"]
  /\ clients' = clients \cup {c}
  /\ from'    = [from EXCEPT ![c] = Len(log)]
  /\ UNCHANGED <<chanVars, streamVars, rp, wp, shut, gone, commands,
                 hub, todo, closed, fault>>

(* Mutant: unregister does not look whether the client is still in the map. *)
HubUnregisterAlways(c) ==
  /\ hub = "select"
  /\ rp[c] = "unregister"
  /\ rp'      = [rp EXCEPT ![c] = "close"]
  /\ clients' = clients \ {c}
  /\ closed'  = closed \cup {c}
  /\ fault'   = fault \cup CloseFault(c)
  /\ UNCHANGED <<chanVars, streamVars, serve, wp, shut, gone, commands,
                 hub, todo, from>>

HubUnregister(c) ==
  /\ hub = "select"
  /\ rp[c] = "unregister"
  /\ rp' = [rp EXCEPT ![c] = "close"]
  /\ IF c \in clients
       THEN /\ clients' = clients \ {c}
            /\ closed'  = closed \cup {c}
            /\ fault'   = fault \cup CloseFault(c)
       ELSE UNCHANGED <<clients, closed, fault>>
  /\ UNCHANGED <<chanVars, streamVars, serve, wp, shut, gone, commands,
                 hub, todo, from>>

(* CmdWs writes to the control connection: the hub is busy until the write *)
(* returns, at the latest when its two second deadline expires.            *)
HubCommand(c) ==
  /\ hub = "select"
  /\ rp[c] = "command"
  /\ rp'  = [rp EXCEPT ![c] = "read"]
  /\ hub' = "command"
  /\ UNCHANGED <<chanVars, streamVars, serve, wp, shut, gone, commands,
                 clients, todo, closed, from, fault>>

HubCommandDone ==
  /\ hub = "command"
  /\ hub' = "select"
  /\ UNCHANGED <<chanVars, streamVars, connVars, clients, todo, closed, from,
                 fault>>

(* A message arrives on eventWsChan or responseWsChan.  (Their !ok case is *)
(* dead code: nothing in the repository closes these two channels.)        *)
HubTake(k) ==
  /\ hub = "select"
  /\ wsChan[k] # <<>>
  /\ log'    = Append(log, Head(wsChan[k]))
  /\ wsChan' = [wsChan EXCEPT ![k] = Tail(@)]
  /\ todo'   = clients
  /\ hub'    = IF clients = {} THEN "select" ELSE "broadcast"
  /\ UNCHANGED <<published, streamVars, connVars, clients, closed, from, fault>>

(* One iteration of `for client := range h.clients`, in any order. *)
Visited(c) ==
  /\ hub = "broadcast"
  /\ c \in todo
  /\ todo' = todo \ {c}
  /\ hub'  = IF todo = {c} THEN "select" ELSE "broadcast"

(* Mutant: off by one in the capacity of client.send. *)
HubSendOverfills(c) ==
  /\ Visited(c)
  /\ Len(send[c]) <= SendCap \/ c \in closed
  /\ send'  = [send EXCEPT ![c] = Append(@, log[Len(log)])]
  /\ fault' = fault \cup SendFault(c)
  /\ UNCHANGED <<chanVars, batch, got, cnt, connVars, clients, closed, from>>

HubSend(c) ==
  /\ Visited(c)
  /\ Len(send[c]) < SendCap \/ c \in closed
  /\ send'  = [send EXCEPT ![c] = Append(@, log[Len(log)])]
  /\ fault' = fault \cup SendFault(c)
  /\ UNCHANGED <<chanVars, batch, got, cnt, connVars, clients, closed, from>>

(* Mutant: the slow client is closed but stays in the map. *)
HubDropKeeps(c) ==
  /\ Visited(c)
  /\ Len(send[c]) = SendCap
  /\ c \notin closed
  /\ closed' = closed \cup {c}
  /\ UNCHANGED <<chanVars, streamVars, connVars, clients, from, fault>>

(* Mutant: the slow client misses the message. *)
HubDropSkips(c) ==
  /\ Visited(c)
  /\ Len(send[c]) = SendCap
  /\ c \notin closed
  /\ UNCHANGED <<chanVars, streamVars, connVars, clients, closed, from, fault>>

(* Mutant: the slow client is forgotten, but its channel stays open. *)
HubDropForgets(c) ==
  /\ Visited(c)
  /\ Len(send[c]) = SendCap
  /\ c \notin closed
  /\ clients' = clients \ {c}
  /\ UNCHANGED <<chanVars, streamVars, connVars, closed, from, fault>>

HubDrop(c) ==
  /\ Visited(c)
  /\ Len(send[c]) = SendCap
  /\ c \notin closed
  /\ closed'  = closed \cup {c}
  /\ clients' = clients \ {c}
  /\ fault'   = fault \cup CloseFault(c)
  /\ UNCHANGED <<chanVars, streamVars, connVars, from>>

-----------------------------------------------------------------------------
(* readPump.  ReadMessage may still return what was buffered before the    *)
(* connection failed.                                                      *)
ReadMessage(c) ==
  /\ rp[c] = "read"
  /\ commands < MaxCommands
  /\ commands' = commands + 1
  /\ rp' = [rp EXCEPT ![c] = "command"]
  /\ UNCHANGED <<chanVars, streamVars, serve, wp, shut, gone, hubVars>>

ReadFails(c) ==
  /\ rp[c] = "read"
  /\ c \in shut \cup gone
  /\ rp' = [rp EXCEPT ![c] = "unregister"]
  /\ UNCHANGED <<chanVars, streamVars, serve, wp, shut, gone, commands, hubVars>>

ReadPumpCloses(c) ==
  /\ rp[c] = "close"
  /\ rp'   = [rp EXCEPT ![c] = "done"]
  /\ shut' = shut \cup {c}
  /\ UNCHANGED <<chanVars, streamVars, serve, wp, gone, commands, hubVars>>

-----------------------------------------------------------------------------
(* writePump.  A successful ping changes nothing and is left out.          *)
WpTo(c, pc) == wp' = [wp EXCEPT ![c] = pc]

Receive(c) ==
  /\ wp[c] = "select"
  /\ send[c] # <<>>
  /\ batch' = [batch EXCEPT ![c] = <<Head(send[c])>>]
  /\ send'  = [send EXCEPT ![c] = Tail(@)]
  /\ \/ WpTo(c, "count")
     \/ c \in gone /\ WpTo(c, "close")  \* NextWriter: a close frame was read
  /\ UNCHANGED <<chanVars, got, cnt, serve, rp, shut, gone, commands, hubVars>>

(* Mutant: the message already taken is counted too. *)
CountQueuedTooMany(c) ==
  /\ wp[c] = "count"
  /\ cnt' = [cnt EXCEPT ![c] = Len(send[c]) + 1]
  /\ WpTo(c, "drain")
  /\ UNCHANGED <<chanVars, send, batch, got, serve, rp, shut, gone, commands,
                 hubVars>>

CountQueued(c) ==
  /\ wp[c] = "count"
  /\ cnt' = [cnt EXCEPT ![c] = Len(send[c])]
  /\ WpTo(c, "drain")
  /\ UNCHANGED <<chanVars, send, batch, got, serve, rp, shut, gone, commands,
                 hubVars>>

(* Mutant: the queued messages are put before those in the frame. *)
DrainOneInFront(c) ==
  /\ wp[c] = "drain"
  /\ cnt[c] > 0
  /\ send[c] # <<>>
  /\ batch' = [batch EXCEPT ![c] = <<Head(send[c])>> \o @]
  /\ send'  = [send EXCEPT ![c] = Tail(@)]
  /\ cnt'   = [cnt EXCEPT ![c] = @ - 1]
  /\ UNCHANGED <<chanVars, got, connVars, hubVars>>

(* `<-c.send` in the inner loop: it waits when the channel is empty.  (On  *)
(* a closed and empty channel it would yield nil at once: DrainReady shows *)
(* that neither happens.)                                                  *)
DrainOne(c) ==
  /\ wp[c] = "drain"
  /\ cnt[c] > 0
  /\ send[c] # <<>>
  /\ batch' = [batch EXCEPT ![c] = Append(@, Head(send[c]))]
  /\ send'  = [send EXCEPT ![c] = Tail(@)]
  /\ cnt'   = [cnt EXCEPT ![c] = @ - 1]
  /\ UNCHANGED <<chanVars, got, connVars, hubVars>>

(* w.Close() sends the frame.  Towards a peer that is gone the write may   *)
(* still succeed (socket buffers); on a connection closed here it cannot.  *)
Flush(c) ==
  /\ wp[c] = "drain"
  /\ cnt[c] = 0
  /\ \/ /\ c \notin shut
        /\ got'   = [got EXCEPT ![c] = @ \o batch[c]]
        /\ batch' = [batch EXCEPT ![c] = <<>>]
        /\ WpTo(c, "select")
     \/ /\ c \in shut \cup gone
        /\ WpTo(c, "close")
        /\ UNCHANGED <<got, batch>>
  /\ UNCHANGED <<chanVars, send, cnt, serve, rp, shut, gone, commands, hubVars>>

(* Mutant: a closed channel ends the pump before it is empty. *)
SendClosedEarly(c) ==
  /\ wp[c] = "select"
  /\ c \in closed
  /\ WpTo(c, "close")
  /\ UNCHANGED <<chanVars, streamVars, serve, rp, shut, gone, commands, hubVars>>

(* The hub closed the channel: a close frame is written and the pump ends. *)
SendClosed(c) ==
  /\ wp[c] = "select"
  /\ send[c] = <<>>
  /\ c \in closed
  /\ WpTo(c, "close")
  /\ UNCHANGED <<chanVars, streamVars, serve, rp, shut, gone, commands, hubVars>>

PingFails(c) ==
  /\ wp[c] = "select"
  /\ c \in shut \cup gone
  /\ WpTo(c, "close")
  /\ UNCHANGED <<chanVars, streamVars, serve, rp, shut, gone, commands, hubVars>>

WritePumpCloses(c) ==
  /\ wp[c] = "close"
  /\ WpTo(c, "done")
  /\ shut' = shut \cup {c}
  /\ UNCHANGED <<chanVars, streamVars, serve, rp, gone, commands, hubVars>>

-----------------------------------------------------------------------------
(* Every goroutine waits for something only the outside can bring.  Any    *)
(* other state without a successor is a deadlock of the program.           *)
Quiet(c) ==
  \/ serve[c] = "none"
  \/ /\ serve[c] = "done"
     /\ rp[c] = "read" => c \notin shut \cup gone
     /\ rp[c] \in {"read", "done"}
     /\ wp[c] = "select" => send[c] = <<>> /\ c \notin closed
     /\ wp[c] \in {"select", "done"}

Idle ==
  /\ hub = "select"
  /\ \A k \in Kinds : wsChan[k] = <<>>
  /\ \A c \in Clients : Quiet(c)
  /\ UNCHANGED vars

Serving(c) == Upgrade(c) \/ StartPumps(c) \/ PeerGone(c)

HubStep ==
  \/ HubCommandDone
  \/ \E k \in Kinds : HubTake(k)
  \/ \E c \in Clients : \/ HubRegister(c) \/ HubUnregister(c) \/ HubCommand(c)
                        \/ HubSend(c) \/ HubDrop(c)

ReadPump(c) == ReadMessage(c) \/ ReadFails(c) \/ ReadPumpCloses(c)

WritePump(c) ==
  \/ Receive(c) \/ CountQueued(c) \/ DrainOne(c) \/ Flush(c)
  \/ SendClosed(c) \/ PingFails(c) \/ WritePumpCloses(c)

Next ==
  \/ \E k \in Kinds : Publish(k)
  \/ HubStep
  \/ \E c \in Clients : Serving(c) \/ ReadPump(c) \/ WritePump(c)
  \/ Idle

Spec == Init /\ [][Next]_vars

(***************************************************************************)
(* Goroutines that can run do run.  Go's select picks at random among the  *)
(* ready cases and queues the goroutines that wait on a channel, so a case *)
(* that is ready again and again is eventually chosen: strong fairness per *)
(* case of the hub's select.  The browsers, their network and read() owe   *)
(* nothing.                                                                *)
(***************************************************************************)
Fairness ==
  /\ WF_vars(HubCommandDone)
  /\ \A k \in Kinds : SF_vars(HubTake(k))
  /\ \A c \in Clients :
       /\ SF_vars(HubRegister(c))
       /\ SF_vars(HubUnregister(c))
       /\ SF_vars(HubCommand(c))
       /\ WF_vars(HubSend(c) \/ HubDrop(c))
       /\ WF_vars(StartPumps(c))
       /\ WF_vars(ReadFails(c) \/ ReadPumpCloses(c))
       /\ WF_vars(WritePump(c))

FairSpec == Spec /\ Fairness

-----------------------------------------------------------------------------
ChanTypeOK ==
  /\ wsChan    \in [Kinds -> Seq(Messages)]
  /\ \A k \in Kinds : Len(wsChan[k]) <= WsCap
  /\ published \in [Kinds -> Nat]
  /\ \A k \in Kinds : published[k] <= MaxPublished[k]
  /\ log       \in Seq(Messages)

StreamTypeOK ==
  /\ send  \in [Clients -> Seq(Messages)]
  /\ \A c \in Clients : Len(send[c]) <= SendCap
  /\ batch \in [Clients -> Seq(Messages)]
  /\ got   \in [Clients -> Seq(Messages)]
  /\ cnt   \in [Clients -> Nat]

ConnTypeOK ==
  /\ serve \in [Clients -> {"none", "register", "start", "done"}]
  /\ rp    \in [Clients -> {"none", "read", "command", "unregister", "close",
                           "done"}]
  /\ wp    \in [Clients -> {"none", "select", "count", "drain", "close", "done"}]
  /\ shut  \subseteq Clients
  /\ gone  \subseteq Clients
  /\ commands \in 0..MaxCommands

HubTypeOK ==
  /\ hub     \in {"select", "command", "broadcast"}
  /\ clients \subseteq Clients
  /\ todo    \subseteq Clients
  /\ closed  \subseteq Clients
  /\ from    \in [Clients -> Nat]
  /\ fault   \subseteq {"close_of_closed", "send_on_closed"}

TypeOK == ChanTypeOK /\ StreamTypeOK /\ ConnTypeOK /\ HubTypeOK

(* The hub closes the send channel of a client at most once and never      *)
(* sends on a closed one, although it closes it in three places and a      *)
(* readPump may still unregister a client that a broadcast has dropped.    *)
NoPanic == fault = {}

(* A client that has been registered is in h.clients exactly as long as    *)
(* its send channel is open: a client the hub forgets always has its       *)
(* writePump told to stop, and no client is kept with a closed channel.    *)
Joined(c) == serve[c] \in {"start", "done"}

OpenWhileRegistered ==
  \A c \in Clients : c \in clients <=> (Joined(c) /\ c \notin closed)

(* The inner loop of writePump receives as many messages as it counted:    *)
(* they are all still there, although the hub appends, and may close the   *)
(* channel, in between.  So it neither blocks nor writes an empty message. *)
DrainReady ==
  \A c \in Clients : wp[c] = "drain" => cnt[c] <= Len(send[c])

(* What has been accepted for a client: written, being written, queued.    *)
View(c) == got[c] \o batch[c] \o send[c]

(* A client is sent what the hub took since it registered, in that order,  *)
(* without a gap and without a duplicate, for as long as it is registered; *)
(* a slow one is cut off rather than made to miss a message.               *)
NoGap ==
  \A c \in Clients :
    LET end == from[c] + Len(View(c))
    IN  /\ end <= Len(log)
        /\ View(c) = SubSeq(log, from[c] + 1, end)
        /\ c \in clients \ todo => end = Len(log)
        /\ c \in todo => end + 1 = Len(log)

(* The whole module implements the abstract fan-out, a client being live   *)
(* from its registration until its writePump gives the connection up.      *)
Phase(c) == CASE ~Joined(c)                  -> "new"
              [] wp[c] \in {"close", "done"} -> "left"
              [] OTHER                       -> "live"

F == INSTANCE Fanout WITH phase <- [c \in Clients |-> Phase(c)], seen <- got

ImplementsFanout == F!Spec

(* When the peer of a connection is gone, or the hub has cut a slow client *)
(* off, both pumps end, the connection is closed and the hub forgets it.   *)
Released(c) ==
  /\ rp[c] = "done" /\ wp[c] = "done"
  /\ c \in shut /\ c \in closed /\ c \notin clients

EventuallyReleased ==
  \A c \in Clients : (c \in closed \/ (Joined(c) /\ c \in gone)) ~> Released(c)

(* What the hub has queued for a client is written to it, also when the    *)
(* client has been cut off meanwhile, unless its peer is gone.             *)
AcceptedIsWritten ==
  \A c \in Clients : \A n \in 1..(MaxPublished["event"] + MaxPublished["response"]) :
    (Len(View(c)) >= n) ~> (Len(got[c]) >= n \/ c \in gone)
=============================================================================
