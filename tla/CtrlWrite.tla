------------------------------ MODULE CtrlWrite ------------------------------
(***************************************************************************)
(* The writers of the control connection (Cmd and keepActive): CtrlClient  *)
(* has a command written in one step, here it goes out in pieces, through  *)
(* a socket buffer that may fill up, under the one write deadline that all *)
(* writers of the connection share.                                        *)
(*                                                                         *)
(* Go's net.Conn is external: a Write holds the descriptor's write lock    *)
(* until all is written or it fails, and SetWriteDeadline takes effect on  *)
(* Writes that are under way.  Nothing is bounded: a goroutine may issue   *)
(* commands for ever.                                                      *)
(***************************************************************************)
EXTENDS Naturals, Sequences

CONSTANTS
  Writers,  \* keepActive and the goroutines that call Cmd
  Size,     \* pieces of a command that the socket may take one by one
  Room      \* pieces the socket buffer holds

ASSUME SizeAssumption == Size \in Nat \ {0} /\ Room \in Nat \ {0}

Pieces == [by : Writers, n : 1..Size]

VARIABLES
  alive,    \* ctrlConnAlive
  conn,     \* the connection: "open" or "closed", by either side
  pc,       \* where each writer is
  off,      \* how many pieces of its command it has written
  lock,     \* the writer that holds the descriptor's write lock
  deadline, \* the write deadline: "none", "set" or "passed"
  sock,     \* the pieces in the socket buffer
  parsed,   \* the piece baresip's decoder has just taken, if in mid-command
  garbled,  \* the decoder has met a piece that does not continue it
  cut,      \* a command was cut short: not all of it went out
  waited    \* for whom the deadline has passed since he set it

connVars == <<alive, conn>>
peerVars == <<parsed, garbled>>
vars == <<connVars, pc, off, lock, deadline, sock, peerVars, cut, waited>>

(* In mid-command, or none. *)
Between == <<>>

Init ==
  /\ alive    = 1
  /\ conn     = "open"
  /\ pc       = [w \in Writers |-> "idle"]
  /\ off      = [w \in Writers |-> 0]
  /\ lock     = {}
  /\ deadline = "none"
  /\ sock     = <<>>
  /\ parsed   = Between
  /\ garbled  = FALSE
  /\ cut      = FALSE
  /\ waited   = [w \in Writers |-> FALSE]

-----------------------------------------------------------------------------
(* A writer finds the connection alive; if not, it returns an error (Cmd)  *)
(* or ends (keepActive), which changes nothing here.                       *)
Check(w) ==
  /\ pc[w] = "idle"
  /\ alive = 1
  /\ pc' = [pc EXCEPT ![w] = "deadline"]
  /\ UNCHANGED <<connVars, off, lock, deadline, sock, peerVars, cut, waited>>

(* Mutant: no deadline. *)
SetDeadlineNever(w) ==
  /\ pc[w] = "deadline"
  /\ pc' = [pc EXCEPT ![w] = "lock"]
  /\ waited' = [waited EXCEPT ![w] = FALSE]
  /\ UNCHANGED <<connVars, off, lock, deadline, sock, peerVars, cut>>

(* Mutant: one deadline for the life of the connection. *)
SetDeadlineOnce(w) ==
  /\ pc[w] = "deadline"
  /\ pc' = [pc EXCEPT ![w] = "lock"]
  /\ deadline' = IF deadline = "none" THEN "set" ELSE deadline
  /\ waited' = [waited EXCEPT ![w] = FALSE]
  /\ UNCHANGED <<connVars, off, lock, sock, peerVars, cut>>

(* SetWriteDeadline, two seconds from now, for everybody. *)
SetDeadline(w) ==
  /\ pc[w] = "deadline"
  /\ pc' = [pc EXCEPT ![w] = "lock"]
  /\ deadline' = "set"
  /\ waited' = [waited EXCEPT ![w] = FALSE]
  /\ UNCHANGED <<connVars, off, lock, sock, peerVars, cut>>

(* The goroutine's Write returns. *)
Return(w) ==
  /\ pc'  = [pc EXCEPT ![w] = "idle"]
  /\ off' = [off EXCEPT ![w] = 0]

(* Write waits for the lock, and fails if the deadline has passed already. *)
Lock(w) ==
  /\ pc[w] = "lock"
  /\ lock = {}
  /\ IF deadline = "passed" \/ conn = "closed"
       THEN Return(w) /\ UNCHANGED lock
       ELSE /\ pc' = [pc EXCEPT ![w] = "write"]
            /\ lock' = {w}
            /\ UNCHANGED off
  /\ UNCHANGED <<connVars, deadline, sock, peerVars, cut, waited>>

(* Mutant: header, payload and comma are written one by one, as            *)
(* writeNetstring does.                                                    *)
PutUnlocked(w) ==
  /\ pc[w] = "write"
  /\ Len(sock) < Room
  /\ sock' = Append(sock, [by |-> w, n |-> off[w] + 1])
  /\ IF off[w] + 1 = Size
       THEN Return(w)
       ELSE /\ pc'  = [pc EXCEPT ![w] = "lock"]
            /\ off' = [off EXCEPT ![w] = @ + 1]
  /\ lock' = {}
  /\ UNCHANGED <<connVars, deadline, peerVars, cut, waited>>

(* Mutant: off by one in the room that is left. *)
PutOverfills(w) ==
  /\ pc[w] = "write"
  /\ Len(sock) <= Room
  /\ sock' = Append(sock, [by |-> w, n |-> off[w] + 1])
  /\ IF off[w] + 1 = Size
       THEN Return(w) /\ lock' = {}
       ELSE /\ off' = [off EXCEPT ![w] = @ + 1]
            /\ UNCHANGED <<pc, lock>>
  /\ UNCHANGED <<connVars, deadline, peerVars, cut, waited>>

(* The socket takes a piece. *)
Put(w) ==
  /\ pc[w] = "write"
  /\ Len(sock) < Room
  /\ sock' = Append(sock, [by |-> w, n |-> off[w] + 1])
  /\ IF off[w] + 1 = Size
       THEN Return(w) /\ lock' = {}
       ELSE /\ off' = [off EXCEPT ![w] = @ + 1]
            /\ UNCHANGED <<pc, lock>>
  /\ UNCHANGED <<connVars, deadline, peerVars, cut, waited>>

(* While the socket is full the goroutine waits. *)
Wait(w) ==
  /\ pc[w] = "write"
  /\ Len(sock) = Room
  /\ pc' = [pc EXCEPT ![w] = "wait"]
  /\ UNCHANGED <<connVars, off, lock, deadline, sock, peerVars, cut, waited>>

Wake(w) ==
  /\ pc[w] = "wait"
  /\ Len(sock) < Room
  /\ pc' = [pc EXCEPT ![w] = "write"]
  /\ UNCHANGED <<connVars, off, lock, deadline, sock, peerVars, cut, waited>>

(* Write gives up because the deadline passes while it waits, or because   *)
(* the connection is closed.  What it has written is on its way.           *)
GiveUp(w) ==
  /\ \/ pc[w] = "wait" /\ deadline = "passed"
     \/ pc[w] \in {"write", "wait"} /\ conn = "closed"
  /\ Return(w)
  /\ lock' = {}
  /\ cut'  = (cut \/ off[w] # 0)
  /\ UNCHANGED <<connVars, deadline, sock, peerVars, waited>>

(* Two seconds have passed since the deadline was set last. *)
DeadlinePasses ==
  /\ deadline  = "set"
  /\ deadline' = "passed"
  /\ waited'   = [w \in Writers |-> TRUE]
  /\ UNCHANGED <<connVars, pc, off, lock, sock, peerVars, cut>>

(* baresip's side takes a piece from the socket, whenever it likes. *)
PeerReads ==
  /\ sock # <<>>
  /\ LET p == Head(sock)
         fits == IF parsed = Between THEN p.n = 1
                                     ELSE p.n = parsed[1].n + 1 /\ p.by = parsed[1].by
     IN  /\ garbled' = (garbled \/ ~fits)
         /\ parsed'  = IF p.n = Size THEN Between ELSE <<p>>
  /\ sock' = Tail(sock)
  /\ UNCHANGED <<connVars, pc, off, lock, deadline, cut, waited>>

(* Close resets ctrlConnAlive, and closes the connection. *)
CloseStart ==
  /\ alive = 1
  /\ alive' = 0
  /\ UNCHANGED <<conn, pc, off, lock, deadline, sock, peerVars, cut, waited>>

CloseConn ==
  /\ alive = 0
  /\ conn = "open"
  /\ conn' = "closed"
  /\ UNCHANGED <<alive, pc, off, lock, deadline, sock, peerVars, cut, waited>>

Write(w) == SetDeadline(w) \/ Put(w) \/ Wait(w) \/ Wake(w) \/ GiveUp(w)

(* Everything has been written and read, and nobody writes any more. *)
Ended ==
  /\ conn = "closed" /\ sock = <<>> /\ \A w \in Writers : pc[w] = "idle"
  /\ deadline # "set"
  /\ UNCHANGED vars

Next ==
  \/ \E w \in Writers : Check(w) \/ Lock(w) \/ Write(w)
  \/ DeadlinePasses \/ PeerReads \/ CloseStart \/ CloseConn
  \/ Ended

Spec == Init /\ [][Next]_vars

(* Goroutines run and time passes; the write lock's waiters are queued, so *)
(* that whoever waits for it gets it when it is free again and again.      *)
(* baresip need not read, and nobody need call Cmd or Close.               *)
Fairness ==
  /\ WF_vars(DeadlinePasses)
  /\ \A w \in Writers : WF_vars(Write(w)) /\ SF_vars(Lock(w))

FairSpec == Spec /\ Fairness

-----------------------------------------------------------------------------
TypeOK ==
  /\ alive    \in {0, 1}
  /\ conn     \in {"open", "closed"}
  /\ pc       \in [Writers -> {"idle", "deadline", "lock", "write", "wait"}]
  /\ off      \in [Writers -> 0..(Size - 1)]
  /\ lock     \subseteq Writers
  /\ deadline \in {"none", "set", "passed"}
  /\ sock     \in Seq(Pieces) /\ Len(sock) <= Room
  /\ parsed   \in Seq(Pieces) /\ Len(parsed) <= 1
  /\ {garbled, cut} \subseteq BOOLEAN
  /\ waited   \in [Writers -> BOOLEAN]

(* Commands of several goroutines, and keepActive's pings among them, go   *)
(* out one after the other: baresip's decoder gets out of step only after  *)
(* a write was cut short.                                                  *)
OnlyCutsGarble == garbled => cut

(* A Write that times out has waited for two seconds: it never meets the   *)
(* deadline that an earlier command left behind.                           *)
NoStaleTimeout ==
  [][\A w \in Writers :
       (GiveUp(w) \/ (Lock(w) /\ pc'[w] = "idle")) /\ conn = "open" => waited[w]]_vars

(* Cmd returns and keepActive goes on although baresip reads nothing,      *)
(* however often others set the deadline anew.                             *)
WritesReturn == \A w \in Writers : pc[w] # "idle" ~> pc[w] = "idle"

(* Cmd sends its command: when it reports success, the command goes out    *)
(* where baresip expects one.                                              *)
SuccessIsSent ==
  [][\A w \in Writers : pc[w] = "write" /\ pc'[w] = "idle" /\ off[w] + 1 = Size
                        /\ sock' # sock => ~cut]_vars
=============================================================================
