----------------------------- MODULE MCTransport -----------------------------
(* An instance of Transport for TLC: a stream and a call.                  *)
EXTENDS Transport, TLC

MCFrames == (0 :> 1) @@ (1 :> 2) @@ (2 :> 1)
=============================================================================
