------------------------------- MODULE MCG722 -------------------------------
EXTENDS G722

(* Silence, a low tone's half wave, the highest tone, and full scale. *)
MCSignals == {<<0, 0>>, <<16000, 16000>>, <<-16384, 16384>>, <<-32768, -32768>>}
=============================================================================
