-------------------------- MODULE CtrlWrite_proofs --------------------------
(***************************************************************************)
(* Safety of the control connection's writers, for any number of them,     *)
(* commands of any size and a socket buffer of any size.                   *)
(***************************************************************************)
EXTENDS CtrlWrite, SequenceTheorems, TLAPS

USE SizeAssumption

(* Whoever holds the write lock is in Write, past the wait for the lock,   *)
(* and nobody else has a command half written.                             *)
Holder(w) == pc[w] \in {"write", "wait"}

OneHolder == \A w \in Writers : /\ Holder(w) <=> lock = {w}
                                /\ off[w] # 0 => Holder(w)

(* Piece q may come after piece p. *)
Continues(p, q) == IF p.n = Size THEN q.n = 1 ELSE q.n = p.n + 1 /\ q.by = p.by

(* Piece p is the last one that has been written. *)
Latest(p) == /\ p.n = Size => \A w \in Writers : off[w] = 0
             /\ p.n # Size => off[p.by] = p.n

(* The pieces in the socket continue one another, the first of them what   *)
(* baresip has read, and the last is as far as the writers are.            *)
Stream ==
  /\ \A i \in 1..(Len(sock) - 1) : Continues(sock[i], sock[i + 1])
  /\ sock # <<>> => /\ Latest(sock[Len(sock)])
                    /\ parsed = <<>> => sock[1].n = 1
                    /\ parsed # <<>> => Continues(parsed[1], sock[1])
  /\ sock = <<>> => /\ parsed = <<>> => \A w \in Writers : off[w] = 0
                    /\ parsed # <<>> => Latest(parsed[1])
  /\ parsed # <<>> => parsed[1].n # Size

InStep == ~cut => Stream /\ ~garbled

(* The deadline cannot have passed since it was set without those waiting  *)
(* for it having waited.                                                   *)
DeadlineFresh ==
  deadline = "passed" =>
    \A w \in Writers : pc[w] \in {"lock", "write", "wait"} => waited[w]

IInv == TypeOK /\ OneHolder /\ InStep /\ DeadlineFresh

-----------------------------------------------------------------------------
LEMMA InitIInv == Init => IInv
<1>. SUFFICES ASSUME Init
              PROVE  IInv
  OBVIOUS
<1>1. \A S : <<>> \in Seq(S) /\ Len(<<>>) = 0
  BY EmptySeq
<1>2. TypeOK
  <2>1. 0 \in 0..(Size - 1) /\ 0 <= Room
    OBVIOUS
  <2>2. off \in [Writers -> 0..(Size - 1)]
    BY <2>1 DEF Init
  <2>3. sock \in Seq(Pieces) /\ Len(sock) <= Room /\ parsed \in Seq(Pieces) /\ Len(parsed) <= 1
    BY <1>1, <2>1 DEF Init, Between
  <2>. QED
    BY <2>2, <2>3 DEF Init, TypeOK
<1>3. OneHolder
  BY DEF Init, OneHolder, Holder
<1>4. InStep
  BY <1>1 DEF Init, InStep, Stream, Between
<1>5. DeadlineFresh
  BY DEF Init, DeadlineFresh
<1>. QED
  BY <1>2, <1>3, <1>4, <1>5 DEF IInv

(* The piece that Put appends. *)
LEMMA PutType ==
  ASSUME TypeOK, OneHolder, NEW w \in Writers, Put(w)
  PROVE  \E p \in Pieces :
           /\ p.by = w /\ p.n = off[w] + 1
           /\ sock' = Append(sock, p) /\ sock' \in Seq(Pieces)
           /\ Len(sock') = Len(sock) + 1 /\ Len(sock) \in Nat
           /\ sock'[Len(sock) + 1] = p
           /\ \A i \in 1..Len(sock) : sock'[i] = sock[i]
<1>0. [by |-> w, n |-> off[w] + 1] \in Pieces
  <2>1. off[w] \in 0..(Size - 1)
    BY DEF TypeOK
  <2>2. off[w] + 1 \in 1..Size
    BY <2>1
  <2>. QED
    BY <2>2 DEF Pieces
<1>1. PICK p \in Pieces : p = [by |-> w, n |-> off[w] + 1]
  BY <1>0
<1>2. p.by = w /\ p.n = off[w] + 1
  BY <1>1
<1>3. sock' = Append(sock, p) /\ sock \in Seq(Pieces)
  BY <1>1 DEF Put, TypeOK
<1>. QED
  BY <1>2, <1>3, AppendProperties, LenProperties

(* The pieces that PeerReads takes and leaves. *)
LEMMA ReadType ==
  ASSUME TypeOK, PeerReads
  PROVE  /\ sock[1] \in Pieces /\ Head(sock) = sock[1] /\ sock' = Tail(sock)
         /\ Len(sock) \in Nat \ {0}
         /\ sock' \in Seq(Pieces) /\ Len(sock') = Len(sock) - 1
         /\ \A i \in 1..Len(sock') : sock'[i] = sock[i + 1]
         /\ parsed' = IF sock[1].n = Size THEN <<>> ELSE <<sock[1]>>
         /\ parsed' \in Seq(Pieces) /\ Len(parsed') <= 1
<1>1. sock \in Seq(Pieces) /\ sock # <<>> /\ sock' = Tail(sock)
  BY DEF TypeOK, PeerReads
<1>2. /\ Head(sock) = sock[1] /\ Len(sock) \in Nat \ {0}
      /\ sock' \in Seq(Pieces) /\ Len(sock') = Len(sock) - 1
      /\ \A i \in 1..Len(sock') : sock'[i] = sock[i + 1]
  BY <1>1, HeadTailProperties, EmptySeq
<1>3. 1 \in 1..Len(sock)
  BY <1>2
<1>4. sock[1] \in Pieces
  BY <1>1, <1>3, ElementOfSeq
<1>5. parsed' = IF sock[1].n = Size THEN <<>> ELSE <<sock[1]>>
  BY <1>2 DEF PeerReads, Between
<1>6. <<sock[1]>> \in Seq(Pieces) /\ Len(<<sock[1]>>) = 1 /\ Len(<<>>) = 0
  BY <1>4
<1>. QED
  BY <1>1, <1>2, <1>4, <1>5, <1>6, EmptySeq

LEMMA TypeStep ==
  ASSUME TypeOK, OneHolder, [Next]_vars
  PROVE  TypeOK'
<1>. USE DEF connVars, peerVars
<1>0. 0 \in 0..(Size - 1)
  OBVIOUS
<1>1. ASSUME NEW w \in Writers, Check(w) \/ SetDeadline(w) \/ Wait(w) \/ Wake(w)
      PROVE  TypeOK'
  BY <1>1 DEF TypeOK, Check, SetDeadline, Wait, Wake
<1>2. ASSUME NEW w \in Writers, Lock(w) \/ GiveUp(w)
      PROVE  TypeOK'
  BY <1>0, <1>2 DEF TypeOK, Lock, GiveUp, Return
<1>3. ASSUME NEW w \in Writers, Put(w)
      PROVE  TypeOK'
  <2>1. sock' \in Seq(Pieces) /\ Len(sock') = Len(sock) + 1 /\ Len(sock) \in Nat
    BY <1>3, PutType
  <2>2. Len(sock') <= Room
    BY <1>3, <2>1 DEF Put
  <2>3. off' \in [Writers -> 0..(Size - 1)]
    BY <1>0, <1>3 DEF TypeOK, Put, Return
  <2>4. pc' \in [Writers -> {"idle", "deadline", "lock", "write", "wait"}]
        /\ lock' \subseteq Writers
    BY <1>3 DEF TypeOK, Put, Return
  <2>. QED
    BY <1>3, <2>1, <2>2, <2>3, <2>4 DEF TypeOK, Put
<1>4. ASSUME PeerReads
      PROVE  TypeOK'
  <2>1. /\ sock' \in Seq(Pieces) /\ Len(sock') = Len(sock) - 1 /\ Len(sock) \in Nat
        /\ parsed' \in Seq(Pieces) /\ Len(parsed') <= 1
    BY <1>4, ReadType
  <2>2. Len(sock') <= Room
    BY <2>1 DEF TypeOK
  <2>3. garbled' \in BOOLEAN
    BY <1>4 DEF TypeOK, PeerReads
  <2>. QED
    BY <1>4, <2>1, <2>2, <2>3 DEF TypeOK, PeerReads
<1>5. ASSUME DeadlinePasses \/ CloseStart \/ CloseConn \/ UNCHANGED vars
      PROVE  TypeOK'
  BY <1>5 DEF TypeOK, DeadlinePasses, CloseStart, CloseConn, vars
<1>. QED
  BY <1>1, <1>2, <1>3, <1>4, <1>5 DEF Next, Write, Ended

LEMMA HolderStep ==
  ASSUME TypeOK, OneHolder, [Next]_vars
  PROVE  OneHolder'
<1>. USE DEF OneHolder, Holder, TypeOK
<1>1. ASSUME NEW w \in Writers, Check(w) \/ SetDeadline(w) \/ Wait(w) \/ Wake(w)
      PROVE  OneHolder'
  BY <1>1 DEF Check, SetDeadline, Wait, Wake
<1>2. ASSUME NEW w \in Writers, Lock(w)
      PROVE  OneHolder'
  <2>1. off[w] = 0
    BY <1>2 DEF Lock
  <2>. QED
    BY <1>2, <2>1 DEF Lock, Return
<1>3. ASSUME NEW w \in Writers, Put(w)
      PROVE  OneHolder'
  <2>1. lock = {w} /\ \A v \in Writers \ {w} : ~Holder(v) /\ off[v] = 0
    BY <1>3 DEF Put
  <2>. QED
    BY <1>3, <2>1 DEF Put, Return
<1>4. ASSUME NEW w \in Writers, GiveUp(w)
      PROVE  OneHolder'
  <2>1. lock = {w} /\ \A v \in Writers \ {w} : ~Holder(v) /\ off[v] = 0
    BY <1>4 DEF GiveUp
  <2>. QED
    BY <1>4, <2>1 DEF GiveUp, Return
<1>5. ASSUME DeadlinePasses \/ PeerReads \/ CloseStart \/ CloseConn \/ UNCHANGED vars
      PROVE  OneHolder'
  BY <1>5 DEF DeadlinePasses, PeerReads, CloseStart, CloseConn, vars
<1>. QED
  BY <1>1, <1>2, <1>3, <1>4, <1>5 DEF Next, Write, Ended

LEMMA FreshStep ==
  ASSUME TypeOK, DeadlineFresh, [Next]_vars
  PROVE  DeadlineFresh'
<1>. USE DEF DeadlineFresh, TypeOK
<1>1. ASSUME NEW w \in Writers, Check(w) \/ Lock(w) \/ Write(w)
      PROVE  DeadlineFresh'
  BY <1>1 DEF Check, Lock, Write, SetDeadline, Put, Wait, Wake, GiveUp, Return
<1>2. ASSUME DeadlinePasses \/ PeerReads \/ CloseStart \/ CloseConn \/ UNCHANGED vars
      PROVE  DeadlineFresh'
  BY <1>2 DEF DeadlinePasses, PeerReads, CloseStart, CloseConn, vars
<1>. QED
  BY <1>1, <1>2 DEF Next, Ended

-----------------------------------------------------------------------------
(* A step that neither writes nor reads. *)
LEMMA StreamSame ==
  ASSUME Stream, UNCHANGED <<sock, parsed, off>>
  PROVE  Stream'
BY DEF Stream, Latest

LEMMA StreamPut ==
  ASSUME TypeOK, OneHolder, Stream, NEW w \in Writers, Put(w)
  PROVE  Stream'
<1>. DEFINE L == Len(sock)
<1>1. PICK p \in Pieces :
        /\ p.by = w /\ p.n = off[w] + 1
        /\ sock' = Append(sock, p) /\ Len(sock') = L + 1 /\ L \in Nat
        /\ sock'[L + 1] = p /\ \A i \in 1..L : sock'[i] = sock[i]
  BY PutType
<1>2. UNCHANGED parsed /\ off[w] \in Nat /\ off[w] + 1 <= Size
  BY DEF Put, peerVars, TypeOK
<1>3. \A v \in Writers \ {w} : off[v] = 0
  BY DEF Put, OneHolder, Holder
<1>4. off' = [off EXCEPT ![w] = IF off[w] + 1 = Size THEN 0 ELSE off[w] + 1]
  BY DEF Put, Return
<1>5. Latest(p)'
  BY <1>1, <1>2, <1>3, <1>4 DEF Latest, TypeOK
<1>6. ASSUME NEW q \in Pieces, Latest(q)
      PROVE  Continues(q, p)
  <2>1. CASE q.n = Size
    BY <1>1, <1>6, <2>1 DEF Latest, Continues
  <2>2. CASE q.n # Size
    <3>1. q.by \in Writers /\ q.n \in Nat \ {0} /\ off[q.by] = q.n
      BY <1>6, <2>2 DEF Latest, Pieces
    <3>2. q.by = w
      BY <1>3, <3>1
    <3>. QED
      BY <1>1, <2>2, <3>1, <3>2 DEF Continues
  <2>. QED
    BY <2>1, <2>2
<1>7. /\ parsed # <<>> => parsed[1] \in Pieces /\ parsed[1].n # Size
      /\ \A i \in 1..L : sock[i] \in Pieces
  <2>1. parsed # <<>> => 1 \in 1..Len(parsed)
    BY EmptySeq, LenProperties DEF TypeOK
  <2>. QED
    BY <2>1, ElementOfSeq DEF TypeOK, Stream
<1>8. sock = <<>> <=> L = 0
  BY EmptySeq DEF TypeOK
<1>9. \A i \in 1..(Len(sock') - 1) : Continues(sock'[i], sock'[i + 1])
  <2>. SUFFICES ASSUME NEW i \in 1..L
                PROVE  Continues(sock'[i], sock'[i + 1])
    BY <1>1
  <2>1. CASE i = L
    <3>1. sock[L] \in Pieces /\ Latest(sock[L])
      BY <1>1, <1>7, <1>8, <2>1 DEF Stream
    <3>. QED
      BY <1>1, <1>6, <2>1, <3>1
  <2>2. CASE i # L
    <3>1. i \in 1..(L - 1) /\ i + 1 \in 1..L
      BY <1>1, <2>2
    <3>. QED
      BY <1>1, <3>1 DEF Stream
  <2>. QED
    BY <2>1, <2>2
<1>10. /\ parsed' = <<>> => sock'[1].n = 1
       /\ parsed' # <<>> => Continues(parsed'[1], sock'[1])
  <2>1. CASE L = 0
    <3>1. sock'[1] = p
      BY <1>1, <2>1
    <3>2. parsed = <<>> => p.n = 1
      BY <1>1, <1>8, <2>1 DEF Stream
    <3>3. parsed # <<>> => Continues(parsed[1], p)
      BY <1>6, <1>7, <1>8, <2>1 DEF Stream
    <3>. QED
      BY <1>2, <3>1, <3>2, <3>3
  <2>2. CASE L # 0
    <3>1. sock'[1] = sock[1] /\ sock # <<>>
      BY <1>1, <1>8, <2>2
    <3>. QED
      BY <1>2, <3>1 DEF Stream
  <2>. QED
    BY <2>1, <2>2
<1>11. sock' # <<>> /\ sock'[Len(sock')] = p
  BY <1>1, EmptySeq DEF TypeOK
<1>12. Latest(sock[Len(sock)])'
  BY <1>5, <1>11 DEF Latest
<1>. QED
  BY <1>2, <1>7, <1>9, <1>10, <1>11, <1>12 DEF Stream

LEMMA StreamRead ==
  ASSUME TypeOK, Stream, PeerReads
  PROVE  /\ Stream'
         /\ garbled' <=> garbled
<1>. DEFINE L == Len(sock)
            h == sock[1]
<1>1. /\ h \in Pieces /\ Head(sock) = h /\ L \in Nat \ {0} /\ sock # <<>>
      /\ Len(sock') = L - 1 /\ sock' \in Seq(Pieces)
      /\ \A i \in 1..Len(sock') : sock'[i] = sock[i + 1]
      /\ parsed' = IF h.n = Size THEN <<>> ELSE <<h>>
  BY ReadType DEF PeerReads
<1>2. UNCHANGED off
  BY DEF PeerReads
<1>3. /\ parsed = <<>> => h.n = 1
      /\ parsed # <<>> => Continues(parsed[1], h) /\ parsed[1].n # Size
      /\ Latest(sock[L])
      /\ \A i \in 1..(L - 1) : Continues(sock[i], sock[i + 1])
  BY <1>1 DEF Stream
<1>4. garbled' <=> garbled
  BY <1>1, <1>3 DEF PeerReads, Between, Continues
<1>5. sock' = <<>> <=> L = 1
  BY <1>1, EmptySeq
<1>6. \A i \in 1..(Len(sock') - 1) : Continues(sock'[i], sock'[i + 1])
  <2>. SUFFICES ASSUME NEW i \in 1..(Len(sock') - 1)
                PROVE  Continues(sock'[i], sock'[i + 1])
    OBVIOUS
  <2>1. /\ i \in 1..Len(sock') /\ i + 1 \in 1..Len(sock') /\ i + 1 \in 1..(L - 1)
    BY <1>1
  <2>. QED
    BY <1>1, <1>3, <2>1
<1>7. parsed' # <<>> => parsed'[1] = h /\ h.n # Size
  BY <1>1
<1>8. parsed' = <<>> => h.n = Size
  BY <1>1
<1>9. CASE L = 1
  <2>1. Latest(h)
    BY <1>3, <1>9
  <2>2. parsed' = <<>> => \A w \in Writers : off'[w] = 0
    BY <1>2, <1>8, <2>1 DEF Latest
  <2>3. parsed' # <<>> => Latest(parsed[1])'
    BY <1>2, <1>7, <2>1 DEF Latest
  <2>. QED
    BY <1>4, <1>5, <1>6, <1>7, <1>9, <2>2, <2>3 DEF Stream
<1>10. CASE L # 1
  <2>1. sock'[1] = sock[2] /\ sock'[Len(sock')] = sock[L] /\ 1 \in 1..(L - 1)
    BY <1>1, <1>10
  <2>2. Continues(h, sock[2])
    BY <1>3, <2>1
  <2>3. /\ parsed' = <<>> => sock'[1].n = 1
        /\ parsed' # <<>> => Continues(parsed'[1], sock'[1])
    BY <1>7, <1>8, <2>1, <2>2 DEF Continues
  <2>4. Latest(sock[Len(sock)])'
    BY <1>2, <1>3, <2>1 DEF Latest
  <2>. QED
    BY <1>4, <1>5, <1>6, <1>7, <1>10, <2>3, <2>4 DEF Stream
<1>. QED
  BY <1>4, <1>9, <1>10

LEMMA InStepStep ==
  ASSUME TypeOK, OneHolder, InStep, [Next]_vars
  PROVE  InStep'
<1>. USE DEF connVars, peerVars
<1>0. ASSUME UNCHANGED <<sock, parsed, off, garbled>>, cut => cut'
      PROVE  InStep'
  BY <1>0, StreamSame DEF InStep
<1>1. ASSUME NEW w \in Writers, Put(w)
      PROVE  InStep'
  BY <1>1, StreamPut DEF InStep, Put
<1>2. ASSUME PeerReads
      PROVE  InStep'
  BY <1>2, StreamRead DEF InStep, PeerReads
<1>3. ASSUME NEW w \in Writers, GiveUp(w)
      PROVE  InStep'
  <2>1. CASE off[w] = 0
    <3>1. off' = off
      BY <1>3, <2>1 DEF GiveUp, Return, TypeOK
    <3>. QED
      BY <1>0, <1>3, <3>1 DEF GiveUp
  <2>2. CASE off[w] # 0
    BY <1>3, <2>2 DEF GiveUp, InStep
  <2>. QED
    BY <2>1, <2>2
<1>4. ASSUME NEW w \in Writers, Lock(w)
      PROVE  InStep'
  <2>1. off[w] = 0
    BY <1>4 DEF Lock, OneHolder, Holder
  <2>2. off' = off
    BY <1>4, <2>1 DEF Lock, Return, TypeOK
  <2>. QED
    BY <1>0, <1>4, <2>2 DEF Lock
<1>5. ASSUME NEW w \in Writers, Check(w) \/ SetDeadline(w) \/ Wait(w) \/ Wake(w)
      PROVE  InStep'
  BY <1>0, <1>5 DEF Check, SetDeadline, Wait, Wake
<1>6. ASSUME DeadlinePasses \/ CloseStart \/ CloseConn \/ UNCHANGED vars
      PROVE  InStep'
  BY <1>0, <1>6 DEF DeadlinePasses, CloseStart, CloseConn, vars
<1>. QED
  BY <1>1, <1>2, <1>3, <1>4, <1>5, <1>6 DEF Next, Write, Ended

-----------------------------------------------------------------------------
(* The inductive invariant holds in every reachable state. *)
THEOREM Inductive == Spec => []IInv
<1>1. IInv /\ [Next]_vars => IInv'
  BY TypeStep, HolderStep, InStepStep, FreshStep DEF IInv
<1>. QED
  BY <1>1, InitIInv, PTL DEF Spec

(* The writers, the lock, the deadline and the socket buffer keep their    *)
(* types; the buffer is never overfull (Cmd, keepActive, Close).           *)
THEOREM TypeCorrect == Spec => []TypeOK
<1>1. IInv => TypeOK
  BY DEF IInv
<1>. QED
  BY <1>1, Inductive, PTL

(* Whatever the number of goroutines in Cmd and wherever the deadline      *)
(* falls, baresip's decoder is out of step only if a write was cut short.  *)
THEOREM CommandsStayWhole == Spec => []OnlyCutsGarble
<1>1. IInv => OnlyCutsGarble
  BY DEF IInv, InStep, OnlyCutsGarble
<1>. QED
  BY <1>1, Inductive, PTL

(* A write of Cmd or keepActive that times out has had its two seconds.    *)
THEOREM DeadlineIsOwn == Spec => NoStaleTimeout
<1>1. ASSUME IInv, [Next]_vars, NEW w \in Writers,
             GiveUp(w) \/ (Lock(w) /\ pc'[w] = "idle"), conn = "open"
      PROVE  waited[w]
  <2>1. deadline = "passed"
    BY <1>1 DEF GiveUp, Lock, IInv, TypeOK
  <2>2. pc[w] \in {"lock", "write", "wait"}
    BY <1>1 DEF GiveUp, Lock
  <2>. QED
    BY <1>1, <2>1, <2>2 DEF IInv, DeadlineFresh
<1>2. IInv /\ [Next]_vars =>
        [\A w \in Writers : (GiveUp(w) \/ (Lock(w) /\ pc'[w] = "idle")) /\ conn = "open"
                              => waited[w]]_vars
  BY <1>1
<1>. QED
  BY <1>2, Inductive, PTL DEF Spec, NoStaleTimeout
=============================================================================
