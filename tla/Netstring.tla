------------------------------ MODULE Netstring ------------------------------
(***************************************************************************)
(* The netstrings on the control connection (netstring.go): encode writes  *)
(* them, readNetstring takes them from a buffered reader, be it read() on  *)
(* the connection, where the bytes arrive in segments and the connection   *)
(* may end in mid-frame, or decode on a whole slice.                       *)
(*                                                                         *)
(* Of a byte only its class matters: the digits are 0 to 9.  pos and avail *)
(* count the bytes of the input that have been read and that have arrived; *)
(* bufio.Reader and io.ReadFull are modelled by what they do to these.     *)
(***************************************************************************)
EXTENDS Integers, Sequences, SequencesExt

CONSTANTS
  Streams,  \* inputs: any sequences of bytes
  Batches,  \* lists of payloads that encode turns into further inputs
  Limit     \* the first number that is too large for an int

Digits == 0..9
Colon  == 10   \* lengthDelim
Comma  == 11   \* dataDelim
Other  == 12
Bytes  == 0..Other

ASSUME InputAssumption == /\ Streams \subseteq Seq(Bytes)
                          /\ Batches \subseteq Seq(Seq(Bytes))

(* len returns an int: no payload is longer than an int can say. *)
ASSUME LimitAssumption == /\ Limit \in Nat \ {0}
                          /\ \A in \in Batches : \A i \in DOMAIN in : Len(in[i]) < Limit

VARIABLES
  input,    \* all that is sent
  batch,    \* the payloads it encodes, <<>> if it is any sequence of bytes
  avail,    \* how much of it has arrived
  eof,      \* no more will
  pos,      \* how much readNetstring has read
  phase,    \* what it reads: "length", "payload", "delim"
  length,   \* l in the code
  ret,      \* from where to where the payloads it has returned reach
  err       \* its error, "none" so far

vars == <<input, batch, avail, eof, pos, phase, length, ret, err>>

-----------------------------------------------------------------------------
(* encode *)
Itoa[n \in Nat] == IF n < 10 THEN <<n>> ELSE Append(Itoa[n \div 10], n % 10)

WriteNetstring(b) == Itoa[Len(b)] \o <<Colon>> \o b \o <<Comma>>

Encode(in) == FlattenSeq([i \in DOMAIN in |-> WriteNetstring(in[i])])

(* What the bytes before the colon are worth, as an int, which wraps       *)
(* around; the loop skips commas, too.                                     *)
Wrap(n) == ((n + Limit) % (2 * Limit)) - Limit

AddDigit(l, ch) == IF ch = Comma THEN l ELSE Wrap(l * 10 + ch)

Worth(header) ==
  LET l[i \in 0..Len(header)] == IF i = 0 THEN 0 ELSE AddDigit(l[i - 1], header[i])
  IN  l

Value(header) == Worth(header)[Len(header)]

(* Mutant: a payload of one byte is refused, too. *)
IsLengthOffByOne(header) ==
  (\A i \in DOMAIN header : header[i] \in Digits \cup {Comma}) /\ Value(header) > 1

IsLength(header) ==
  (\A i \in DOMAIN header : header[i] \in Digits \cup {Comma}) /\ Value(header) > 0

-----------------------------------------------------------------------------
Init ==
  /\ \/ input \in Streams /\ batch = <<>>
     \/ batch \in Batches /\ input = Encode(batch)
  /\ avail  = 0
  /\ eof    = FALSE
  /\ pos    = 0
  /\ phase  = "length"
  /\ length = 0
  /\ ret    = <<>>
  /\ err    = "none"

(* A byte arrives; or the other side closes, perhaps in mid-frame. *)
Arrive ==
  /\ ~eof
  /\ avail < Len(input)
  /\ avail' = avail + 1
  /\ UNCHANGED <<input, batch, eof, pos, phase, length, ret, err>>

PeerCloses ==
  /\ ~eof
  /\ eof' = TRUE
  /\ UNCHANGED <<input, batch, avail, pos, phase, length, ret, err>>

(* readNetstring returns an error, and its caller gives up. *)
Fail(e) ==
  /\ err' = e
  /\ UNCHANGED <<phase, length, ret>>

(* ReadBytes(lengthDelim) and the loop over what it returns. *)
Colons == {i \in (pos + 1)..avail : input[i] = Colon}

ReadLength ==
  /\ phase = "length"
  /\ \/ /\ Colons # {}
        /\ LET c      == CHOOSE i \in Colons : \A j \in Colons : i <= j
               header == SubSeq(input, pos + 1, c - 1)
           IN  /\ pos' = c
               /\ IF IsLength(header)
                    THEN /\ length' = Value(header)
                         /\ phase'  = "payload"
                         /\ UNCHANGED <<ret, err>>
                    ELSE Fail("wrong")
     \/ /\ Colons = {} /\ eof
        /\ pos' = avail
        /\ Fail("eof")

(* Mutant: one Read, which returns what is there. *)
ReadPayloadOnce ==
  /\ phase = "payload"
  /\ \/ /\ avail > pos
        /\ pos'   = IF avail - pos >= length THEN pos + length ELSE avail
        /\ phase' = "delim"
        /\ length' = pos' - pos
        /\ UNCHANGED <<ret, err>>
     \/ /\ avail = pos /\ eof
        /\ Fail("eof") /\ UNCHANGED pos

(* Mutant: reads until the payload is complete, whatever Read reports. *)
ReadPayloadInsists ==
  /\ phase = "payload"
  /\ \/ /\ avail - pos >= length
        /\ pos'   = pos + length
        /\ phase' = "delim"
        /\ UNCHANGED <<length, ret, err>>
     \/ /\ avail - pos < length /\ eof
        /\ UNCHANGED <<pos, phase, length, ret, err>>

(* io.ReadFull *)
ReadPayload ==
  /\ phase = "payload"
  /\ \/ /\ avail - pos >= length
        /\ pos'   = pos + length
        /\ phase' = "delim"
        /\ UNCHANGED <<length, ret, err>>
     \/ /\ avail - pos < length /\ eof
        /\ pos' = avail
        /\ Fail(IF avail = pos THEN "eof" ELSE "unexpected")

(* readNetstring returns the payload it has read last. *)
ReturnPayload ==
  /\ ret'   = Append(ret, [from |-> pos - length, to |-> pos])
  /\ phase' = "length"
  /\ UNCHANGED <<length, err>>

(* Mutant: the byte after the payload is skipped, whatever it is. *)
ReadDelimSkips ==
  /\ phase = "delim"
  /\ avail > pos \/ eof
  /\ ReturnPayload
  /\ pos' = pos + 1

(* ReadByte, and UnreadByte if that was not a comma: at the end of the     *)
(* input, the byte that goes back is the last one of the payload.          *)
ReadDelim ==
  /\ phase = "delim"
  /\ ReturnPayload
  /\ \/ avail > pos /\ pos' = IF input[pos + 1] = Comma THEN pos + 1 ELSE pos
     \/ avail = pos /\ eof /\ pos' = pos - 1

Read ==
  /\ err = "none"
  /\ ReadLength \/ ReadPayload \/ ReadDelim
  /\ UNCHANGED <<input, batch, avail, eof>>

Ended == err # "none" /\ (eof \/ avail = Len(input)) /\ UNCHANGED vars

Next == Arrive \/ PeerCloses \/ Read \/ Ended

Spec == Init /\ [][Next]_vars

(* The reader runs whenever it can; nobody need send or close. *)
FairSpec == Spec /\ WF_vars(Read)

-----------------------------------------------------------------------------
TypeOK ==
  /\ input  \in Seq(Bytes)
  /\ batch  \in Seq(Seq(Bytes))
  /\ avail  \in 0..Len(input)
  /\ eof    \in BOOLEAN
  /\ pos    \in 0..avail
  /\ phase  \in {"length", "payload", "delim"}
  /\ length \in Nat
  /\ ret    \in Seq([from : 0..Len(input), to : 0..Len(input)])
  /\ err    \in {"none", "eof", "unexpected", "wrong"}

Returned == [i \in DOMAIN ret |-> SubSeq(input, ret[i].from + 1, ret[i].to)]

(* However the bytes of encoded payloads arrive, and wherever the          *)
(* connection ends, readNetstring returns the payloads one by one: never   *)
(* one that is cut, joined or made up.                                     *)
OnlyWhatWasSent == batch # <<>> => IsPrefix(Returned, batch)

(* When all has arrived it has returned them all; only an empty payload,   *)
(* which encode writes and readNetstring refuses, stops it.                *)
AllThatWasSent ==
  (batch # <<>> /\ err # "none" /\ avail = Len(input)) =>
     IF \E i \in DOMAIN batch : batch[i] = <<>>
       THEN err = "wrong" /\ batch[Len(ret) + 1] = <<>>
       ELSE Returned = batch

(* Whatever the bytes: the payloads lie side by side in the input, each    *)
(* behind its length and a colon, with at most a comma between; so what    *)
(* is returned does not depend on the segments in which they arrived.      *)
After(i) ==
  IF i = 0 THEN 0
  ELSE IF ret[i].to < Len(input) /\ input[ret[i].to + 1] = Comma
         THEN ret[i].to + 1 ELSE ret[i].to

Tiled ==
  \A i \in DOMAIN ret :
    LET header == SubSeq(input, After(i - 1) + 1, ret[i].from - 1)
    IN  /\ After(i - 1) < ret[i].from
        /\ input[ret[i].from] = Colon
        /\ IsLength(header)
        /\ Value(header) = ret[i].to - ret[i].from

(* read() and decode come to an end once the input has, wherever it ends,  *)
(* although readNetstring steps back a byte when no comma is there.        *)
Terminates == eof ~> err # "none"
=============================================================================
