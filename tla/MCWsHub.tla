------------------------------ MODULE MCWsHub ------------------------------
(* Model-checking instances of WsHub. *)
EXTENDS WsHub, TLC

Symmetry == Permutations(Clients)

(* Three messages: enough to fill a send channel of two and drop a client, *)
(* and to have read() drop an event, and to mix the two kinds.             *)
TwoEventsOneResponse == "event" :> 2 @@ "response" :> 1

OneOfEach == "event" :> 1 @@ "response" :> 1
=============================================================================
