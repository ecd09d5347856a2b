------------------------------ MODULE MCSystem ------------------------------
(* A model-checking instance of System. *)
EXTENDS System, TLC

TwoResponses == "event" :> 0 @@ "response" :> 2
=============================================================================
