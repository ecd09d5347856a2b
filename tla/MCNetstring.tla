---------------------------- MODULE MCNetstring ----------------------------
(* Short inputs for TLC: all sequences of up to five bytes that can be     *)
(* told apart, and up to two encoded payloads, with an int of five bits:   *)
(* it holds a length of two digits, but 31 wraps to -1 and 33 to 1.        *)
EXTENDS Netstring

UpTo(n, S) == UNION {[1..k -> S] : k \in 0..n}

MCStreams  == UpTo(5, {0, 1, 3, Colon, Comma, Other})

Payloads   == UpTo(2, {1, Colon, Comma}) \cup {[i \in 1..12 |-> Other]}
MCBatches  == UpTo(2, Payloads) \ {<<>>}
=============================================================================
