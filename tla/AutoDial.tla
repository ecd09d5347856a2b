------------------------------ MODULE AutoDial ------------------------------
(***************************************************************************)
(* Automatic dialling (CmdAutodialadd, CmdAutodialdel, autoDialSchedule):  *)
(* a map from numbers to gaps behind a read-write lock, goroutines that    *)
(* add and delete numbers, and one goroutine per addition that dials the   *)
(* number again and again.  The lock is held for one access to the map at  *)
(* a time, so each critical section is one step, and what a call has read  *)
(* may be out of date when it writes.                                      *)
(*                                                                         *)
(* The command every call ends with, and the command behind a dial, go     *)
(* through Cmd (CtrlClient); here a dial is only counted.                  *)
(***************************************************************************)
EXTENDS Naturals, Sequences, FiniteSets

CONSTANTS
  Callers,   \* goroutines that call CmdAutodialadd and CmdAutodialdel
  Numbers,   \* telephone numbers
  Gaps,      \* gaps between two calls, in seconds
  LongestGap,\* the longest one that fits a time.Duration (9223372036)
  MaxCalls,  \* bound: calls of the two functions, all together
  MaxEntries \* bound: numbers in the list one call is given

(* Of a longer gap the product with time.Second wraps around (NewTicker    *)
(* panics when it comes out below one): such gaps are not modelled.        *)
ASSUME GapAssumption   == LongestGap \in Nat /\ Gaps \subseteq 0..LongestGap
ASSUME BoundAssumption == MaxCalls \in Nat /\ MaxEntries \in Nat

Entries   == [num : Numbers, gap : Gaps]
Lists     == UNION {[1..n -> Entries] : n \in 1..MaxEntries}
(* A goroutine in autoDialSchedule.  late counts its dials since the       *)
(* number was last taken off the map, as far as "too many".                *)
TooMany   == 2
Schedules == [num : Numbers, gap : Gaps, pc : {"check", "dial", "wait", "end"},
              late : 0..TooMany]

VARIABLES
  num,       \* autoCmd.num: the function from the numbers listed to gaps
  pc,        \* where each caller is
  list,      \* the entries it has still to handle
  scheds,    \* the schedules started so far
  calls      \* how many calls have been made

vars == <<num, pc, list, scheds, calls>>

Listed == DOMAIN num

Init ==
  /\ num    = [n \in {} |-> 0]
  /\ pc     = [c \in Callers |-> "idle"]
  /\ list   = [c \in Callers |-> <<>>]
  /\ scheds = <<>>
  /\ calls  = 0

-----------------------------------------------------------------------------
(* The next entry of the caller's list, or the end of the call. *)
Rest(c, next) ==
  /\ list' = [list EXCEPT ![c] = Tail(@)]
  /\ pc'   = [pc EXCEPT ![c] = IF Tail(list[c]) = <<>> THEN "idle" ELSE next]

Start(c, first) ==
  /\ pc[c] = "idle"
  /\ calls < MaxCalls
  /\ calls' = calls + 1
  /\ pc'    = [pc EXCEPT ![c] = first]
  /\ \E l \in Lists : list' = [list EXCEPT ![c] = l]
  /\ UNCHANGED <<num, scheds>>

(* CmdAutodialadd: a number that is listed keeps its gap. *)
AddCheck(c) ==
  /\ pc[c] = "add"
  /\ IF Head(list[c]).num \in Listed
       THEN Rest(c, "add")
       ELSE pc' = [pc EXCEPT ![c] = "set"] /\ UNCHANGED list
  /\ UNCHANGED <<num, scheds, calls>>

(* Mutant: the gap of the list is ignored. *)
AddSetDefault(c) ==
  /\ pc[c] = "set"
  /\ LET e == Head(list[c])
     IN  num' = [n \in Listed \cup {e.num} |-> IF n = e.num THEN 60 ELSE num[n]]
  /\ pc' = [pc EXCEPT ![c] = "go"]
  /\ UNCHANGED <<list, scheds, calls>>

(* Mutant: a schedule that still runs for the number is used again. *)
AddSetReuses(c) ==
  /\ pc[c] = "set"
  /\ LET e == Head(list[c])
     IN  /\ num' = [n \in Listed \cup {e.num} |-> IF n = e.num THEN e.gap ELSE num[n]]
         /\ IF \E i \in DOMAIN scheds : scheds[i].num = e.num /\ scheds[i].pc # "end"
              THEN Rest(c, "add")
              ELSE pc' = [pc EXCEPT ![c] = "go"] /\ UNCHANGED list
  /\ UNCHANGED <<scheds, calls>>

AddSet(c) ==
  /\ pc[c] = "set"
  /\ LET e == Head(list[c])
     IN  num' = [n \in Listed \cup {e.num} |-> IF n = e.num THEN e.gap ELSE num[n]]
  /\ pc' = [pc EXCEPT ![c] = "go"]
  /\ UNCHANGED <<list, scheds, calls>>

(* A schedule with a gap below one second ends at once. *)
AddGo(c) ==
  /\ pc[c] = "go"
  /\ LET e == Head(list[c])
     IN  scheds' = Append(scheds, [num |-> e.num, gap |-> e.gap, late |-> 0,
                                   pc |-> IF e.gap < 1 THEN "end" ELSE "check"])
  /\ Rest(c, "add")
  /\ UNCHANGED <<num, calls>>

(* CmdAutodialdel *)
Delete(c) ==
  /\ pc[c] = "del"
  /\ LET d == Head(list[c]).num
     IN  /\ num' = [n \in Listed \ {d} |-> num[n]]
         /\ scheds' = [i \in DOMAIN scheds |->
                        IF scheds[i].num = d /\ d \in Listed
                          THEN [scheds[i] EXCEPT !.late = 0] ELSE scheds[i]]
  /\ Rest(c, "del")
  /\ UNCHANGED calls

-----------------------------------------------------------------------------
(* autoDialSchedule *)
At(i, p) == scheds[i].pc = p
To(i, p) == scheds' = [scheds EXCEPT ![i].pc = p]

(* Mutant: the schedule does not look whether its number is still listed. *)
CheckNever(i) ==
  /\ At(i, "check")
  /\ To(i, "dial")
  /\ UNCHANGED <<num, pc, list, calls>>

Check(i) ==
  /\ At(i, "check")
  /\ To(i, IF scheds[i].num \in Listed THEN "dial" ELSE "end")
  /\ UNCHANGED <<num, pc, list, calls>>

(* Mutant: the schedule ends with its first dial. *)
DialOnce(i) ==
  /\ At(i, "dial")
  /\ To(i, "end")
  /\ UNCHANGED <<num, pc, list, calls>>

(* The dial, whatever CmdDial returns, and then the wait for the ticker. *)
Dial(i) ==
  /\ At(i, "dial")
  /\ scheds' = [scheds EXCEPT ![i].pc = "wait",
                              ![i].late = IF scheds[i].num \in Listed \/ @ = TooMany
                                            THEN @ ELSE @ + 1]
  /\ UNCHANGED <<num, pc, list, calls>>

Tick(i) ==
  /\ At(i, "wait")
  /\ To(i, "check")
  /\ UNCHANGED <<num, pc, list, calls>>

-----------------------------------------------------------------------------
Add(c)   == AddCheck(c) \/ AddSet(c) \/ AddGo(c)
Step(i)  == Check(i) \/ Dial(i) \/ Tick(i)

(* Every call is finished and every schedule has ended. *)
Idle ==
  /\ \A c \in Callers : pc[c] = "idle"
  /\ \A i \in DOMAIN scheds : At(i, "end")
  /\ UNCHANGED vars

Next ==
  \/ \E c \in Callers : Start(c, "add") \/ Start(c, "del") \/ Add(c) \/ Delete(c)
  \/ \E i \in DOMAIN scheds : Step(i)
  \/ Idle

Spec == Init /\ [][Next]_vars

(* Goroutines that can run do run, and a ticker ticks.  Nobody has to add  *)
(* or delete a number.                                                     *)
MaxSchedules == MaxCalls * MaxEntries

Fairness ==
  /\ \A c \in Callers : WF_vars(Add(c) \/ Delete(c))
  /\ \A i \in 1..MaxSchedules : WF_vars(i \in DOMAIN scheds /\ Step(i))

FairSpec == Spec /\ Fairness

-----------------------------------------------------------------------------
NumTypeOK ==
  /\ Listed \subseteq Numbers
  /\ num    \in [Listed -> Gaps]

CallTypeOK ==
  /\ pc     \in [Callers -> {"idle", "add", "set", "go", "del"}]
  /\ list   \in [Callers -> Seq(Entries)]
  /\ \A c \in Callers : pc[c] # "idle" => list[c] # <<>>
  /\ calls  \in 0..MaxCalls

SchedTypeOK == scheds \in Seq(Schedules)

TypeOK == NumTypeOK /\ CallTypeOK /\ SchedTypeOK

Live(i, n) == scheds[i].num = n /\ scheds[i].pc # "end"

(* A number that is listed with a gap is dialled at that gap: a schedule   *)
(* with this number and this gap is running or about to be started, in     *)
(* whatever order additions and deletions by several goroutines interleave *)
(* with each other and with schedules that are about to end.               *)
Coverage ==
  \A n \in Listed :
    num[n] >= 1 =>
      \/ \E i \in DOMAIN scheds : Live(i, n) /\ scheds[i].gap = num[n]
      \/ \E c \in Callers : pc[c] = "go" /\ Head(list[c]) = [num |-> n, gap |-> num[n]]

(* A deletion takes effect: once a number is off the map, each schedule    *)
(* dials it at most one more time.                                         *)
OneLateDial == \A i \in DOMAIN scheds : scheds[i].late < TooMany

(* The schedules of a number that stays off the map all end.               *)
StopsAfterDelete ==
  \A n \in Numbers :
    n \notin Listed ~> (n \in Listed \/ \A i \in DOMAIN scheds : ~Live(i, n))

(* A number that stays listed with a gap is dialled again and again.       *)
KeepsDialling ==
  \A n \in Numbers :
    (n \in Listed /\ num[n] >= 1) ~>
      (n \notin Listed \/ \E i \in DOMAIN scheds : scheds[i].num = n /\ At(i, "dial"))

(* What autocmdinfo shows is what runs: when no addition or deletion is    *)
(* under way, a listed number is dialled at the gap it is listed with and  *)
(* at no other.                                                            *)
InfoMatchesSchedules ==
  (\A c \in Callers : pc[c] = "idle") =>
    \A n \in Listed : \A i, j \in DOMAIN scheds :
      Live(i, n) /\ Live(j, n) => i = j /\ scheds[i].gap = num[n]
=============================================================================
