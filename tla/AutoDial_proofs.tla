-------------------------- MODULE AutoDial_proofs --------------------------
(***************************************************************************)
(* Safety of automatic dialling, for any callers, numbers and gaps.        *)
(***************************************************************************)
EXTENDS AutoDial, SequenceTheorems, TLAPS

(* A schedule that is about to dial a number that is not listed has not    *)
(* dialled it since it was deleted: it looked before the deletion.         *)
LookedBefore ==
  \A i \in DOMAIN scheds :
    (scheds[i].pc = "dial" /\ scheds[i].num \notin Listed) => scheds[i].late = 0

IInv == TypeOK /\ OneLateDial /\ LookedBefore /\ Coverage

USE BoundAssumption

LEMMA GapsAreNat == Gaps \subseteq Nat
<1>1. \A g \in 0..LongestGap : g \in Nat
  OBVIOUS
<1>. QED
  BY <1>1, GapAssumption, Zenon

-----------------------------------------------------------------------------
LEMMA InitIInv == Init => IInv
<1>. SUFFICES ASSUME Init
              PROVE  IInv
  OBVIOUS
<1>1. scheds = <<>> /\ DOMAIN scheds = {} /\ scheds \in Seq(Schedules)
  BY EmptySeq, LenProperties DEF Init
<1>2. \A c \in Callers : list[c] \in Seq(Entries)
  BY EmptySeq DEF Init
<1>. QED
  BY <1>1, <1>2 DEF Init, IInv, TypeOK, NumTypeOK, CallTypeOK, SchedTypeOK,
                    OneLateDial, LookedBefore, Coverage, Listed

(* What a caller has left when it has handled the first entry.             *)
LEMMA RestType ==
  ASSUME CallTypeOK, NEW c \in Callers, pc[c] # "idle",
         NEW next \in {"add", "del"}, Rest(c, next)
  PROVE  /\ pc'   \in [Callers -> {"idle", "add", "set", "go", "del"}]
         /\ list' \in [Callers -> Seq(Entries)]
         /\ \A d \in Callers : pc'[d] # "idle" => list'[d] # <<>>
         /\ \A d \in Callers : d # c => pc'[d] = pc[d] /\ list'[d] = list[d]
         /\ pc'[c] # "go"
<1>1. Tail(list[c]) \in Seq(Entries)
  BY HeadTailProperties DEF CallTypeOK
<1>. DEFINE t == Tail(list[c])
<1>2. /\ list' = [list EXCEPT ![c] = t]
      /\ pc' = [pc EXCEPT ![c] = IF t = <<>> THEN "idle" ELSE next]
  BY DEF Rest
<1>. HIDE DEF t
<1>3. t \in Seq(Entries)
  BY <1>1 DEF t
<1>. QED
  BY <1>2, <1>3 DEF CallTypeOK

LEMMA HeadType ==
  ASSUME CallTypeOK, NEW c \in Callers, pc[c] # "idle"
  PROVE  /\ Head(list[c]) \in Entries
         /\ Head(list[c]).num \in Numbers /\ Head(list[c]).gap \in Gaps
<1>1. Head(list[c]) \in Entries
  BY HeadTailProperties DEF CallTypeOK
<1>. QED
  BY <1>1 DEF Entries

(* How the steps of a schedule, an addition and a deletion change the      *)
(* schedules: none but an addition adds one, and none changes what number  *)
(* a schedule dials and at which gap.                                      *)
Kept ==
  /\ DOMAIN scheds \subseteq DOMAIN scheds'
  /\ \A i \in DOMAIN scheds :
       scheds'[i].num = scheds[i].num /\ scheds'[i].gap = scheds[i].gap

LEMMA StepKept ==
  ASSUME SchedTypeOK, NEW i \in DOMAIN scheds, Step(i)
  PROVE  /\ SchedTypeOK' /\ Kept /\ DOMAIN scheds' = DOMAIN scheds
         /\ UNCHANGED <<num, pc, list, calls>>
         /\ \A j \in DOMAIN scheds : j # i => scheds'[j] = scheds[j]
         /\ \/ /\ scheds[i].pc = "check"
               /\ scheds'[i].pc = IF scheds[i].num \in Listed THEN "dial" ELSE "end"
               /\ scheds'[i].late = scheds[i].late
            \/ /\ scheds[i].pc = "dial" /\ scheds'[i].pc = "wait"
               /\ scheds'[i].late = IF scheds[i].num \in Listed \/ scheds[i].late = TooMany
                                      THEN scheds[i].late ELSE scheds[i].late + 1
            \/ /\ scheds[i].pc = "wait" /\ scheds'[i].pc = "check"
               /\ scheds'[i].late = scheds[i].late
<1>1. /\ i \in 1..Len(scheds) /\ Len(scheds) \in Nat /\ DOMAIN scheds = 1..Len(scheds)
      /\ scheds[i] \in Schedules
  BY LenProperties, ElementOfSeq DEF SchedTypeOK
<1>2. ASSUME NEW r \in Schedules, scheds' = [scheds EXCEPT ![i] = r]
      PROVE  /\ SchedTypeOK' /\ DOMAIN scheds' = DOMAIN scheds /\ scheds'[i] = r
             /\ \A j \in DOMAIN scheds : j # i => scheds'[j] = scheds[j]
  <2>1. scheds' \in Seq(Schedules)
    BY <1>1, <1>2, ExceptSeq DEF SchedTypeOK
  <2>. QED
    BY <1>1, <1>2, <2>1 DEF SchedTypeOK
<1>3. CASE Check(i)
  <2>. DEFINE p == IF scheds[i].num \in Listed THEN "dial" ELSE "end"
              r == [scheds[i] EXCEPT !.pc = p]
  <2>1. scheds' = [scheds EXCEPT ![i] = r] /\ scheds[i].pc = "check"
        /\ UNCHANGED <<num, pc, list, calls>>
    BY <1>3 DEF Check, To, At
  <2>2. /\ r \in Schedules /\ r.pc = p /\ r.late = scheds[i].late
        /\ r.num = scheds[i].num /\ r.gap = scheds[i].gap
    BY <1>1 DEF Schedules
  <2>. HIDE DEF r
  <2>. QED
    BY <1>2, <2>1, <2>2 DEF Kept
<1>4. CASE Dial(i)
  <2>. DEFINE l == IF scheds[i].num \in Listed \/ scheds[i].late = TooMany
                     THEN scheds[i].late ELSE scheds[i].late + 1
              r == [scheds[i] EXCEPT !.pc = "wait", !.late = l]
  <2>1. scheds' = [scheds EXCEPT ![i] = r] /\ scheds[i].pc = "dial"
        /\ UNCHANGED <<num, pc, list, calls>>
    BY <1>1, <1>4 DEF Dial, At, Schedules
  <2>. HIDE DEF l
  <2>a. l \in 0..TooMany
    BY <1>1 DEF Schedules, TooMany, l
  <2>2. /\ r \in Schedules /\ r.pc = "wait" /\ r.late = l
        /\ r.num = scheds[i].num /\ r.gap = scheds[i].gap
    BY <1>1, <2>a DEF Schedules
  <2>. HIDE DEF r
  <2>3. SchedTypeOK' /\ DOMAIN scheds' = DOMAIN scheds /\ scheds'[i] = r
        /\ \A j \in DOMAIN scheds : j # i => scheds'[j] = scheds[j]
    BY <1>2, <2>1, <2>2
  <2>4. Kept
    BY <2>2, <2>3 DEF Kept
  <2>. QED
    BY <2>1, <2>2, <2>3, <2>4 DEF l
<1>5. CASE Tick(i)
  <2>. DEFINE r == [scheds[i] EXCEPT !.pc = "check"]
  <2>1. scheds' = [scheds EXCEPT ![i] = r] /\ scheds[i].pc = "wait"
        /\ UNCHANGED <<num, pc, list, calls>>
    BY <1>5 DEF Tick, To, At
  <2>2. /\ r \in Schedules /\ r.pc = "check" /\ r.late = scheds[i].late
        /\ r.num = scheds[i].num /\ r.gap = scheds[i].gap
    BY <1>1 DEF Schedules
  <2>. HIDE DEF r
  <2>. QED
    BY <1>2, <2>1, <2>2 DEF Kept
<1>. QED
  BY <1>3, <1>4, <1>5 DEF Step

LEMMA AddGoKept ==
  ASSUME SchedTypeOK, CallTypeOK, NEW c \in Callers, AddGo(c)
  PROVE  /\ SchedTypeOK' /\ Kept
         /\ DOMAIN scheds' = DOMAIN scheds \cup {Len(scheds) + 1}
         /\ \A j \in DOMAIN scheds : scheds'[j] = scheds[j]
         /\ scheds'[Len(scheds) + 1].late = 0
         /\ scheds'[Len(scheds) + 1] =
              [num |-> Head(list[c]).num, gap |-> Head(list[c]).gap, late |-> 0,
               pc |-> IF Head(list[c]).gap < 1 THEN "end" ELSE "check"]
<1>. DEFINE e == [num |-> Head(list[c]).num, gap |-> Head(list[c]).gap, late |-> 0,
                  pc |-> IF Head(list[c]).gap < 1 THEN "end" ELSE "check"]
<1>1. scheds' = Append(scheds, e) /\ pc[c] = "go"
  BY DEF AddGo
<1>2. e \in Schedules /\ e.late = 0
  BY <1>1, HeadType DEF Schedules, TooMany
<1>. HIDE DEF e
<1>3. /\ scheds' \in Seq(Schedules) /\ Len(scheds') = Len(scheds) + 1
      /\ \A j \in 1..Len(scheds) : scheds'[j] = scheds[j]
      /\ scheds'[Len(scheds) + 1] = e /\ Len(scheds) \in Nat
      /\ DOMAIN scheds = 1..Len(scheds) /\ DOMAIN scheds' = 1..Len(scheds')
  BY <1>1, <1>2, AppendProperties, LenProperties DEF SchedTypeOK
<1>4. DOMAIN scheds' = DOMAIN scheds \cup {Len(scheds) + 1}
  BY <1>3
<1>5. \A j \in DOMAIN scheds : scheds'[j] = scheds[j]
  BY <1>3
<1>6. scheds'[Len(scheds) + 1].late = 0
  BY <1>2, <1>3
<1>. QED
  BY <1>3, <1>4, <1>5, <1>6 DEF Kept, SchedTypeOK, e

LEMMA DeleteKept ==
  ASSUME SchedTypeOK, NEW c \in Callers, Delete(c)
  PROVE  /\ SchedTypeOK' /\ Kept /\ DOMAIN scheds' = DOMAIN scheds
         /\ \A i \in DOMAIN scheds :
              /\ scheds'[i].pc = scheds[i].pc
              /\ scheds'[i].late \in {0, scheds[i].late}
              /\ scheds[i].num = Head(list[c]).num /\ scheds[i].num \in Listed
                   => scheds'[i].late = 0
<1>. DEFINE d == Head(list[c]).num
            r(i) == IF scheds[i].num = d /\ d \in Listed
                      THEN [scheds[i] EXCEPT !.late = 0] ELSE scheds[i]
<1>1. scheds' = [i \in DOMAIN scheds |-> r(i)]
  BY DEF Delete
<1>2. /\ DOMAIN scheds = 1..Len(scheds) /\ Len(scheds) \in Nat
      /\ \A i \in DOMAIN scheds : scheds[i] \in Schedules
  BY LenProperties, ElementOfSeq DEF SchedTypeOK
<1>3. \A i \in DOMAIN scheds :
        /\ r(i) \in Schedules /\ r(i).num = scheds[i].num /\ r(i).gap = scheds[i].gap
        /\ r(i).pc = scheds[i].pc /\ r(i).late \in {0, scheds[i].late}
        /\ scheds[i].num = d /\ scheds[i].num \in Listed => r(i).late = 0
  BY <1>2 DEF Schedules, TooMany
<1>. HIDE DEF r
<1>4. scheds' \in Seq(Schedules)
  BY <1>1, <1>2, <1>3
<1>. QED
  BY <1>1, <1>3, <1>4 DEF Kept, SchedTypeOK

-----------------------------------------------------------------------------
LEMMA TypeStep ==
  ASSUME TypeOK, [Next]_vars
  PROVE  TypeOK'
<1>. USE DEF TypeOK
<1>1. ASSUME NEW c \in Callers, NEW first \in {"add", "del"}, Start(c, first)
      PROVE  TypeOK'
  <2>1. PICK l \in Lists : list' = [list EXCEPT ![c] = l]
    BY <1>1 DEF Start
  <2>2. PICK n \in 1..MaxEntries : l \in [1..n -> Entries]
    BY DEF Lists
  <2>3. l \in Seq(Entries) /\ l # <<>>
    <3>1. l \in Seq(Entries) /\ Len(l) = n
      BY <2>2
    <3>. QED
      BY <3>1, EmptySeq
  <2>4. CallTypeOK'
    BY <1>1, <2>1, <2>3 DEF Start, CallTypeOK
  <2>. QED
    BY <1>1, <2>4 DEF Start, NumTypeOK, SchedTypeOK, Listed
<1>2. ASSUME NEW c \in Callers, AddCheck(c)
      PROVE  TypeOK'
  <2>1. CASE Head(list[c]).num \in Listed
    <3>1. Rest(c, "add") /\ pc[c] # "idle"
      BY <1>2, <2>1 DEF AddCheck
    <3>2. CallTypeOK'
      BY <1>2, <3>1, RestType DEF AddCheck, CallTypeOK
    <3>. QED
      BY <1>2, <3>2 DEF AddCheck, NumTypeOK, SchedTypeOK, Listed
  <2>2. CASE Head(list[c]).num \notin Listed
    BY <1>2, <2>2 DEF AddCheck, CallTypeOK, NumTypeOK, SchedTypeOK, Listed
  <2>. QED
    BY <2>1, <2>2
<1>3. ASSUME NEW c \in Callers, AddSet(c)
      PROVE  TypeOK'
  <2>1. Head(list[c]).num \in Numbers /\ Head(list[c]).gap \in Gaps
    BY <1>3, HeadType DEF AddSet
  <2>2. NumTypeOK'
    BY <1>3, <2>1 DEF AddSet, NumTypeOK, Listed
  <2>3. CallTypeOK'
    BY <1>3 DEF AddSet, CallTypeOK
  <2>. QED
    BY <1>3, <2>2, <2>3 DEF AddSet, SchedTypeOK
<1>4. ASSUME NEW c \in Callers, AddGo(c)
      PROVE  TypeOK'
  <2>1. Rest(c, "add") /\ pc[c] # "idle"
    BY <1>4 DEF AddGo
  <2>2. CallTypeOK'
    BY <1>4, <2>1, RestType DEF AddGo, CallTypeOK
  <2>. QED
    BY <1>4, <2>2, AddGoKept DEF AddGo, NumTypeOK, Listed
<1>5. ASSUME NEW c \in Callers, Delete(c)
      PROVE  TypeOK'
  <2>1. Rest(c, "del") /\ pc[c] # "idle"
    BY <1>5 DEF Delete
  <2>2. CallTypeOK'
    BY <1>5, <2>1, RestType DEF Delete, CallTypeOK
  <2>3. NumTypeOK'
    BY <1>5 DEF Delete, NumTypeOK, Listed
  <2>. QED
    BY <1>5, <2>2, <2>3, DeleteKept
<1>6. ASSUME NEW i \in DOMAIN scheds, Step(i)
      PROVE  TypeOK'
  BY <1>6, StepKept DEF NumTypeOK, CallTypeOK, Listed
<1>7. CASE UNCHANGED vars
  BY <1>7 DEF vars, NumTypeOK, CallTypeOK, SchedTypeOK, Listed
<1>. QED
  BY <1>1, <1>2, <1>3, <1>4, <1>5, <1>6, <1>7 DEF Next, Add, Idle

(* A deletion takes effect. *)
LEMMA LateStep ==
  ASSUME IInv, [Next]_vars
  PROVE  (OneLateDial /\ LookedBefore)'
<1>. USE DEF IInv, TypeOK, OneLateDial, LookedBefore
<1>0. \A i \in DOMAIN scheds : scheds[i] \in Schedules
  BY LenProperties, ElementOfSeq DEF SchedTypeOK
<1>1. ASSUME UNCHANGED <<num, scheds>>
      PROVE  (OneLateDial /\ LookedBefore)'
  BY <1>1 DEF Listed
<1>2. ASSUME NEW c \in Callers, AddSet(c)
      PROVE  (OneLateDial /\ LookedBefore)'
  BY <1>2 DEF AddSet, Listed
<1>3. ASSUME NEW c \in Callers, AddGo(c)
      PROVE  (OneLateDial /\ LookedBefore)'
  <2>1. UNCHANGED Listed
    BY <1>3 DEF AddGo, Listed
  <2>2. ASSUME NEW i \in DOMAIN scheds'
        PROVE  /\ scheds'[i].late < TooMany
               /\ scheds'[i].pc = "dial" /\ scheds'[i].num \notin Listed'
                    => scheds'[i].late = 0
    <3>1. CASE i \in DOMAIN scheds
      BY <1>3, <2>1, <3>1, AddGoKept
    <3>2. CASE i = Len(scheds) + 1
      <4>1. scheds'[Len(scheds) + 1].late = 0
        BY <1>3, AddGoKept
      <4>2. scheds'[i].late = 0
        BY <3>2, <4>1
      <4>. QED
        BY <4>2 DEF TooMany
    <3>. QED
      BY <1>3, <3>1, <3>2, AddGoKept
  <2>. QED
    BY <2>2
<1>4. ASSUME NEW c \in Callers, Delete(c)
      PROVE  (OneLateDial /\ LookedBefore)'
  <2>1. Listed' = Listed \ {Head(list[c]).num}
    BY <1>4 DEF Delete, Listed
  <2>2. ASSUME NEW i \in DOMAIN scheds'
        PROVE  /\ scheds'[i].late < TooMany
               /\ scheds'[i].pc = "dial" /\ scheds'[i].num \notin Listed'
                    => scheds'[i].late = 0
    BY <1>0, <1>4, <2>1, DeleteKept DEF Kept, TooMany
  <2>. QED
    BY <2>2
<1>5. ASSUME NEW i \in DOMAIN scheds, Step(i)
      PROVE  (OneLateDial /\ LookedBefore)'
  <2>1. UNCHANGED Listed
    BY <1>5, StepKept DEF Listed
  <2>2. ASSUME NEW j \in DOMAIN scheds'
        PROVE  /\ scheds'[j].late < TooMany
               /\ scheds'[j].pc = "dial" /\ scheds'[j].num \notin Listed'
                    => scheds'[j].late = 0
    <3>1. CASE j # i
      BY <1>5, <2>1, <3>1, StepKept
    <3>2. CASE j = i
      BY <1>0, <1>5, <2>1, <3>2, StepKept DEF Kept, TooMany, Schedules
    <3>. QED
      BY <3>1, <3>2
  <2>. QED
    BY <2>2
<1>. QED
  BY <1>1, <1>2, <1>3, <1>4, <1>5
     DEF Next, Add, Start, AddCheck, Idle, vars

-----------------------------------------------------------------------------
(* A schedule that covers a number, or an addition that is about to.       *)
Running(n)  == \E i \in DOMAIN scheds : Live(i, n) /\ scheds[i].gap = num[n]
Starting(n) == \E c \in Callers : pc[c] = "go" /\ Head(list[c]) = [num |-> n, gap |-> num[n]]

LEMMA CoverageStep ==
  ASSUME IInv, [Next]_vars
  PROVE  Coverage'
<1>. USE DEF IInv, TypeOK
<1>. SUFFICES ASSUME NEW n \in Listed', num'[n] >= 1
              PROVE  Running(n)' \/ Starting(n)'
  BY DEF Coverage, Running, Starting
<1>0. n \in Listed /\ num'[n] = num[n] => Running(n) \/ Starting(n)
  BY DEF Coverage, Running, Starting
<1>1. ASSUME NEW c \in Callers, NEW first \in {"add", "del"}, Start(c, first)
      PROVE  Running(n)' \/ Starting(n)'
  <2>1. n \in Listed /\ num'[n] = num[n]
    BY <1>1 DEF Start, Listed
  <2>2. Running(n) => Running(n)'
    BY <1>1 DEF Start, Running, Live
  <2>3. Starting(n) => Starting(n)'
    BY <1>1 DEF Start, Starting, CallTypeOK
  <2>. QED
    BY <1>0, <2>1, <2>2, <2>3
<1>2. ASSUME NEW c \in Callers, AddCheck(c)
      PROVE  Running(n)' \/ Starting(n)'
  <2>1. n \in Listed /\ num'[n] = num[n]
    BY <1>2 DEF AddCheck, Listed
  <2>2. Running(n) => Running(n)'
    BY <1>2 DEF AddCheck, Running, Live
  <2>3. \A d \in Callers : pc[d] = "go" => pc'[d] = "go" /\ list'[d] = list[d]
    BY <1>2 DEF AddCheck, Rest, CallTypeOK
  <2>4. Starting(n) => Starting(n)'
    BY <1>2, <2>3 DEF AddCheck, Starting
  <2>. QED
    BY <1>0, <2>1, <2>2, <2>4
<1>3. ASSUME NEW c \in Callers, AddSet(c)
      PROVE  Running(n)' \/ Starting(n)'
  <2>. DEFINE e == Head(list[c])
  <2>1. e \in Entries /\ pc'[c] = "go" /\ UNCHANGED <<list, scheds>>
    BY <1>3, HeadType DEF AddSet, CallTypeOK
  <2>2. CASE n = e.num
    <3>1. num'[n] = e.gap
      BY <1>3, <2>2 DEF AddSet, Listed
    <3>2. Head(list'[c]) = [num |-> n, gap |-> num'[n]]
      BY <2>1, <2>2, <3>1 DEF Entries
    <3>. QED
      BY <2>1, <3>2 DEF Starting
  <2>3. CASE n # e.num
    <3>1. n \in Listed /\ num'[n] = num[n]
      BY <1>3, <2>3 DEF AddSet, Listed
    <3>2. \A d \in Callers : pc[d] = "go" => pc'[d] = "go"
      BY <1>3 DEF AddSet, CallTypeOK
    <3>. QED
      BY <1>0, <2>1, <3>1, <3>2 DEF Running, Starting, Live
  <2>. QED
    BY <2>2, <2>3
<1>4. ASSUME NEW c \in Callers, AddGo(c)
      PROVE  Running(n)' \/ Starting(n)'
  <2>1. n \in Listed /\ num'[n] = num[n]
    BY <1>4 DEF AddGo, Listed
  <2>2. Running(n) => Running(n)'
    BY <1>4, <2>1, AddGoKept DEF Running, Live
  <2>3. ASSUME NEW d \in Callers, pc[d] = "go",
               Head(list[d]) = [num |-> n, gap |-> num[n]]
        PROVE  Running(n)' \/ Starting(n)'
    <3>1. CASE d = c
      <4>1. scheds'[Len(scheds) + 1] = [num |-> n, gap |-> num[n], late |-> 0, pc |-> "check"]
        <5>a. num[n] \in Nat
          BY <2>1, GapsAreNat DEF NumTypeOK
        <5>1. ~(num[n] < 1)
          BY <2>1, <5>a
        <5>. QED
          BY <1>4, <2>3, <3>1, <5>1, AddGoKept
      <4>2. Len(scheds) + 1 \in DOMAIN scheds'
        BY <1>4, AddGoKept
      <4>. QED
        BY <2>1, <4>1, <4>2 DEF Running, Live
    <3>2. CASE d # c
      <4>1. pc'[d] = "go" /\ list'[d] = list[d]
        BY <1>4, <2>3, <3>2 DEF AddGo, Rest, CallTypeOK
      <4>. QED
        BY <2>1, <2>3, <4>1 DEF Starting
    <3>. QED
      BY <3>1, <3>2
  <2>. QED
    BY <1>0, <2>1, <2>2, <2>3 DEF Starting
<1>5. ASSUME NEW c \in Callers, Delete(c)
      PROVE  Running(n)' \/ Starting(n)'
  <2>1. n \in Listed /\ num'[n] = num[n]
    BY <1>5 DEF Delete, Listed
  <2>2. Running(n) => Running(n)'
    BY <1>5, <2>1, DeleteKept DEF Running, Live, Kept
  <2>3. \A d \in Callers : pc[d] = "go" => pc'[d] = "go" /\ list'[d] = list[d]
    BY <1>5 DEF Delete, Rest, CallTypeOK
  <2>4. Starting(n) => Starting(n)'
    BY <2>1, <2>3 DEF Starting
  <2>. QED
    BY <1>0, <2>1, <2>2, <2>4
<1>6. ASSUME NEW i \in DOMAIN scheds, Step(i)
      PROVE  Running(n)' \/ Starting(n)'
  <2>1. n \in Listed /\ num'[n] = num[n] /\ UNCHANGED <<pc, list>>
    BY <1>6, StepKept DEF Listed
  <2>2. ASSUME NEW j \in DOMAIN scheds, Live(j, n), scheds[j].gap = num[n]
        PROVE  Running(n)'
    <3>1. CASE j # i
      BY <1>6, <2>1, <2>2, <3>1, StepKept DEF Running, Live
    <3>2. CASE j = i
      <4>1. scheds'[i].pc # "end"
        BY <1>6, <2>1, <2>2, <3>2, StepKept DEF Live
      <4>. QED
        BY <1>6, <2>1, <2>2, <3>2, <4>1, StepKept DEF Running, Live, Kept
    <3>. QED
      BY <3>1, <3>2
  <2>3. Starting(n) => Starting(n)'
    BY <2>1 DEF Starting
  <2>. QED
    BY <1>0, <2>1, <2>2, <2>3 DEF Running
<1>7. CASE UNCHANGED vars
  <2>1. n \in Listed /\ num'[n] = num[n]
    BY <1>7 DEF vars, Listed
  <2>. QED
    BY <1>0, <1>7, <2>1 DEF vars, Running, Starting, Live
<1>. QED
  BY <1>1, <1>2, <1>3, <1>4, <1>5, <1>6, <1>7 DEF Next, Add, Idle

-----------------------------------------------------------------------------
(* The inductive invariant holds in every reachable state. *)
THEOREM Inductive == Spec => []IInv
<1>1. IInv /\ [Next]_vars => IInv'
  BY TypeStep, LateStep, CoverageStep DEF IInv
<1>. QED
  BY <1>1, InitIInv, PTL DEF Spec

(* The map, the callers' lists and the schedules keep their types          *)
(* (CmdAutodialadd, CmdAutodialdel, autoDialSchedule).                     *)
THEOREM TypeCorrect == Spec => []TypeOK
<1>1. IInv => TypeOK
  BY DEF IInv
<1>. QED
  BY <1>1, Inductive, PTL

(* A number that is listed with a gap of at least a second always has a    *)
(* schedule with that gap, running or about to be started, whatever the    *)
(* goroutines that add and delete numbers do between one another's steps.  *)
THEOREM ListedIsCovered == Spec => []Coverage
<1>1. IInv => Coverage
  BY DEF IInv
<1>. QED
  BY <1>1, Inductive, PTL

(* autoDialSchedule dials a number at most once after CmdAutodialdel has   *)
(* taken it off the map.                                                   *)
THEOREM DeletionStops == Spec => []OneLateDial
<1>1. IInv => OneLateDial
  BY DEF IInv
<1>. QED
  BY <1>1, Inductive, PTL
=============================================================================
