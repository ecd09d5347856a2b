------------------------------- MODULE Fanout -------------------------------
(***************************************************************************)
(* What the websocket side of go-baresip promises its clients, with no     *)
(* channels, goroutines or buffers in it: there is one log of messages, in *)
(* which the messages of each kind keep their order; a client that joins   *)
(* is sent the messages published after it joined, one by one and without  *)
(* a gap, until it leaves, which may happen at any moment.                 *)
(***************************************************************************)
EXTENDS Naturals, Sequences

CONSTANTS
  Clients,   \* the connections that may be made
  Messages   \* records with a field kind and a field id

VARIABLES
  log,       \* the messages published so far
  phase,     \* "new", "live" or "left", per client
  from,      \* the length of the log when the client joined
  seen       \* the messages the client has been sent

vars == <<log, phase, from, seen>>

Init ==
  /\ log   = <<>>
  /\ phase = [c \in Clients |-> "new"]
  /\ from  = [c \in Clients |-> 0]
  /\ seen  = [c \in Clients |-> <<>>]

(* A message may only follow the older messages of its kind. *)
Newest(m) ==
  \A i \in 1..Len(log) : log[i].kind = m.kind => log[i].id < m.id

Publish(m) ==
  /\ Newest(m)
  /\ log' = Append(log, m)
  /\ UNCHANGED <<phase, from, seen>>

Join(c) ==
  /\ phase[c] = "new"
  /\ phase' = [phase EXCEPT ![c] = "live"]
  /\ from'  = [from EXCEPT ![c] = Len(log)]
  /\ UNCHANGED <<log, seen>>

(* The next messages of the log, several at once if they are there. *)
Deliver(c) ==
  /\ phase[c] = "live"
  /\ \E k \in (Len(seen[c]) + 1)..(Len(log) - from[c]) :
       seen' = [seen EXCEPT ![c] = SubSeq(log, from[c] + 1, from[c] + k)]
  /\ UNCHANGED <<log, phase, from>>

Leave(c) ==
  /\ phase[c] = "live"
  /\ phase' = [phase EXCEPT ![c] = "left"]
  /\ UNCHANGED <<log, from, seen>>

Next ==
  \/ \E m \in Messages : Publish(m)
  \/ \E c \in Clients : Join(c) \/ Deliver(c) \/ Leave(c)

Spec == Init /\ [][Next]_vars
=============================================================================
